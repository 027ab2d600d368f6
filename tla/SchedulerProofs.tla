--------------------------- MODULE SchedulerProofs ---------------------------
(***************************************************************************)
(* The scheduler's safety, proved for every number of requests, sessions   *)
(* and workers, every configuration and every failure of the environment   *)
(* that Scheduler models.                                                  *)
(***************************************************************************)
EXTENDS SchedulerProps, TLAPS, FiniteSetTheorems

\* A book with well-typed futures and counters.
IsBook(book) ==
  /\ book.outcome \in [Requests -> Outcome]
  /\ book.tally \in [Statuses -> Nat]

-----------------------------------------------------------------------------
(* Futures.                                                                 *)

\* The records the handlers put into futures are outcomes.
LEMMA ResultTyped ==
  ASSUME NEW status \in Statuses, NEW action \in Requests \cup {None},
         NEW by \in Requests \cup {None}
  PROVE  /\ Result(status, action, by) \in Outcome
         /\ Result(status, action, by).status = status
         /\ Result(status, action, by).action = action
         /\ Result(status, action, by).by = by
BY DEF Result, Outcome

\* _finish resolves the pending futures among those it is given and leaves
\* every other one as it is; the counters stay natural numbers.
LEMMA FinishEffect ==
  ASSUME NEW book, NEW results, IsBook(book), DOMAIN results \subseteq Requests,
         \A r \in DOMAIN results : results[r] \in Outcome
  PROVE  /\ IsBook(Finish(book, results))
         /\ \A r \in Requests :
              Finish(book, results).outcome[r] =
                IF r \in DOMAIN results /\ book.outcome[r].status = "PENDING"
                  THEN results[r] ELSE book.outcome[r]
<1> DEFINE fresh == {r \in DOMAIN results : book.outcome[r].status = "PENDING"}
<1>1. \A s \in Statuses : Cardinality({r \in fresh : results[r].status = s}) \in Nat
  <2> TAKE s \in Statuses
  <2>1. {r \in fresh : results[r].status = s} \subseteq Requests
    OBVIOUS
  <2>2. IsFiniteSet({r \in fresh : results[r].status = s})
    BY <2>1, ConfigAssumption, FS_Subset DEF ConfigAssumption
  <2> QED BY <2>2, FS_CardinalityType
<1>2. Finish(book, results).outcome =
        [r \in Requests |-> IF r \in fresh THEN results[r] ELSE book.outcome[r]]
  BY DEF Finish
<1>3. Finish(book, results).tally =
        [s \in Statuses |-> book.tally[s] + Cardinality({r \in fresh : results[r].status = s})]
  BY DEF Finish
<1>4. Finish(book, results).outcome \in [Requests -> Outcome]
  BY <1>2 DEF IsBook
<1>5. Finish(book, results).tally \in [Statuses -> Nat]
  <2> DEFINE n(s) == Cardinality({r \in fresh : results[r].status = s})
  <2>1. \A s \in Statuses : n(s) \in Nat
    BY <1>1
  <2>2. Finish(book, results).tally = [s \in Statuses |-> book.tally[s] + n(s)]
    BY <1>3
  <2> HIDE DEF n
  <2> QED BY <2>1, <2>2 DEF IsBook
<1> QED BY <1>2, <1>4, <1>5 DEF IsBook

\* All(S, status) gives every envelope of S an outcome without an action.
LEMMA AllEffect ==
  ASSUME NEW S \in SUBSET Requests, NEW status \in Statuses
  PROVE  /\ DOMAIN All(S, status) = S
         /\ \A r \in S : /\ All(S, status)[r] = Result(status, None, None)
                         /\ All(S, status)[r] \in Outcome
BY ResultTyped DEF All

\* Writing the book back after the same outcome for every envelope of S.
LEMMA WriteAllEffect ==
  ASSUME NEW book, IsBook(book), NEW S \in SUBSET Requests, NEW status \in Statuses,
         Write(Finish(book, All(S, status)))
  PROVE  /\ IsBook([outcome |-> outcome', tally |-> tally'])
         /\ \A r \in Requests :
              outcome'[r] = IF r \in S /\ book.outcome[r].status = "PENDING"
                              THEN Result(status, None, None) ELSE book.outcome[r]
<1> DEFINE f == Finish(book, All(S, status))
<1>1. /\ DOMAIN All(S, status) = S
      /\ \A r \in S : /\ All(S, status)[r] = Result(status, None, None)
                      /\ All(S, status)[r] \in Outcome
  BY AllEffect
<1>2. /\ IsBook(f)
      /\ \A r \in Requests : f.outcome[r] =
           IF r \in DOMAIN All(S, status) /\ book.outcome[r].status = "PENDING"
             THEN All(S, status)[r] ELSE book.outcome[r]
  BY <1>1, FinishEffect
<1>3. outcome' = f.outcome /\ tally' = f.tally
  BY DEF Write
<1>4. IsBook([outcome |-> outcome', tally |-> tally'])
  <2> HIDE DEF f
  <2> QED BY <1>2, <1>3 DEF IsBook
<1> QED BY <1>1, <1>2, <1>3, <1>4

\* The book of the current state is one.
LEMMA BookTyped ==
  ASSUME TypeOK
  PROVE  IsBook(Book) /\ Book.outcome = outcome /\ Book.tally = tally
BY DEF TypeOK, IsBook, Book

\* The book after _expire_requests_locked, with which every sweep begins.
ExpiredBook == Finish(Book, All(Expired, "EXPIRED"))

\* It resolves the pending futures of what is expired, as EXPIRED.
LEMMA ExpiredEffect ==
  ASSUME TypeOK
  PROVE  /\ IsBook(ExpiredBook)
         /\ \A r \in Requests : ExpiredBook.outcome[r] =
              IF r \in Expired /\ outcome[r].status = "PENDING"
                THEN Result("EXPIRED", None, None) ELSE outcome[r]
<1>1. Expired \in SUBSET Requests
  BY DEF Expired, Live, TypeOK
<1>2. "EXPIRED" \in Statuses
  BY DEF Statuses
<1> QED BY <1>1, <1>2, BookTyped, FinishEffect, AllEffect DEF ExpiredBook

\* Sweeping the queue resolves pending envelopes of it only, without an action.
LEMMA SweptEffect ==
  ASSUME TypeOK, NEW est
  PROVE  /\ IsBook(SweptBook(est))
         /\ \A r \in Requests :
              SweptBook(est).outcome[r] =
                IF outcome[r].status = "PENDING" /\ r \in Expired
                  THEN Result("EXPIRED", None, None)
                ELSE IF outcome[r].status = "PENDING" /\ r \in Unserviceable(est)
                  THEN Result("UNSERVICEABLE", None, None)
                ELSE outcome[r]
<1>1. Unserviceable(est) \in SUBSET Requests
  BY DEF Unserviceable, Live, TypeOK
<1>2. "UNSERVICEABLE" \in Statuses
  BY DEF Statuses
<1>3. /\ IsBook(SweptBook(est))
      /\ \A r \in Requests : SweptBook(est).outcome[r] =
           IF r \in Unserviceable(est) /\ ExpiredBook.outcome[r].status = "PENDING"
             THEN Result("UNSERVICEABLE", None, None) ELSE ExpiredBook.outcome[r]
  <2>1. SweptBook(est) = Finish(ExpiredBook, All(Unserviceable(est), "UNSERVICEABLE"))
    BY DEF SweptBook, ExpiredBook
  <2> QED BY <2>1, <1>1, <1>2, ExpiredEffect, FinishEffect, AllEffect
<1>4. Result("EXPIRED", None, None).status = "EXPIRED"
  BY DEF Result
<1> QED BY <1>3, <1>4, ExpiredEffect

-----------------------------------------------------------------------------
(* How one step changes the futures.                                        *)

\* the four ways a pending future is resolved
ShedNow(r) ==
  /\ caller[r] = "submitted" /\ ~dispatched[r]
  /\ outcome'[r].status \in Contract!Shed /\ outcome'[r].action = None
TurnedNow(r) ==
  /\ HasLock(r) /\ caller'[r] = "submitted"
  /\ outcome'[r].status \in Contract!TurnedAway /\ outcome'[r].action = None
DoneNow(r) ==
  /\ \E w \in Workers : wstate[w] = "executing" /\ r \in batch[w]
  /\ outcome'[r].status \in Contract!Executed
  /\ outcome'[r].action = None
       \/ /\ outcome'[r].action = r /\ outcome'[r].status \in Contract!Carries
          /\ DropMissed => now <= request[r].deadline
GivenUp(r) ==
  caller[r] = "submitted" /\ outcome'[r].status = "ABANDONED" /\ outcome'[r].action = None

Moves(r) ==
  outcome[r].status = "PENDING" /\ (ShedNow(r) \/ TurnedNow(r) \/ DoneNow(r) \/ GivenUp(r))

OutcomesMove ==
  /\ IsBook([outcome |-> outcome', tally |-> tally'])
  /\ \A r \in Requests : outcome'[r] = outcome[r] \/ Moves(r)

\* The sweeps of a worker pass shed pending envelopes that were queued.
LEMMA SweepMoves ==
  ASSUME TypeOK, QueueOK, NEW est, Write(SweptBook(est))
  PROVE  OutcomesMove
<1>1. outcome' = SweptBook(est).outcome /\ tally' = SweptBook(est).tally
  BY DEF Write
<1>2. \A r \in Expired \cup Unserviceable(est) : caller[r] = "submitted" /\ ~dispatched[r]
  BY DEF QueueOK, Expired, Unserviceable
<1>3. ASSUME NEW r \in Requests
      PROVE  outcome'[r] = outcome[r] \/ (outcome[r].status = "PENDING" /\ ShedNow(r))
  BY <1>1, <1>2, SweptEffect DEF ShedNow, Contract!Shed, Result
<1>4. IsBook([outcome |-> outcome', tally |-> tally'])
  BY <1>1, SweptEffect DEF IsBook
<1> QED BY <1>3, <1>4 DEF OutcomesMove, Moves

\* Whose turn it is at the lock has a call that waits for it.
LEMMA LineHead ==
  ASSUME TypeOK, LineOK, CallsOK
  PROVE  /\ \A r \in Requests :
              HasLock(r) => /\ caller[r] = "entering" /\ outcome[r] = Pending
                            /\ ~dispatched[r] /\ request[r] \in Request
         /\ \A c \in Closers : HasLock(c) => closer[c] = "locking"
<1>1. ASSUME line # <<>>
      PROVE  1 \in 1 .. Len(line) /\ Head(line) = line[1]
  BY <1>1 DEF TypeOK
<1>2. ASSUME NEW r \in Requests, HasLock(r)
      PROVE  caller[r] = "entering"
  BY <1>1, <1>2, ConfigAssumption DEF HasLock, LineOK, Asking, ConfigAssumption
<1>3. ASSUME NEW c \in Closers, HasLock(c)
      PROVE  closer[c] = "locking"
  BY <1>1, <1>3, ConfigAssumption DEF HasLock, LineOK, Asking, ConfigAssumption
<1> QED BY <1>2, <1>3 DEF CallsOK, TypeOK

\* Queueing r resolves what is expired, and what r replaces if it is not.
LEMMA AdmitOutcomes ==
  ASSUME TypeOK, LineOK, CallsOK, NEW r \in Requests, HasLock(r), Admit(r)
  PROVE  /\ IsBook([outcome |-> outcome', tally |-> tally'])
         /\ Previous(r) # None => Previous(r) \in Requests
         /\ \A q \in Requests :
              outcome'[q] = IF outcome[q].status = "PENDING" /\ q \in Expired
                              THEN Result("EXPIRED", None, None)
                            ELSE IF outcome[q].status = "PENDING" /\ q = Previous(r)
                              THEN Result("REPLACED", None, r)
                            ELSE outcome[q]
<1> DEFINE old == IF Previous(r) = None THEN {} ELSE {Previous(r)}
           replaced == [p \in old |-> Result("REPLACED", None, r)]
<1>1. Previous(r) # None => Previous(r) \in Requests
  BY LineHead DEF Previous, TypeOK, Request
<1>2. old \subseteq Requests /\ \A q \in Requests : q \in old <=> q = Previous(r)
  BY <1>1, ConfigAssumption DEF ConfigAssumption
<1>3. outcome' = Finish(ExpiredBook, replaced).outcome
      /\ tally' = Finish(ExpiredBook, replaced).tally
  BY DEF Admit, Write, ExpiredBook
<1>4. DOMAIN replaced = old /\ \A p \in old : /\ replaced[p] = Result("REPLACED", None, r)
                                              /\ replaced[p] \in Outcome
  BY ResultTyped DEF Statuses
<1>5. /\ IsBook([outcome |-> outcome', tally |-> tally'])
      /\ \A q \in Requests :
           outcome'[q] = IF q \in old /\ ExpiredBook.outcome[q].status = "PENDING"
                           THEN Result("REPLACED", None, r) ELSE ExpiredBook.outcome[q]
  <2> HIDE DEF replaced, old
  <2> QED BY <1>2, <1>3, <1>4, ExpiredEffect, FinishEffect DEF IsBook
<1>6. Result("EXPIRED", None, None).status = "EXPIRED"
  BY DEF Result
<1> HIDE DEF old
<1> QED BY <1>1, <1>2, <1>5, <1>6, ExpiredEffect

\* enqueue() turns away its own request or sheds queued ones.
LEMMA EnqueueMoves ==
  ASSUME TypeOK, LineOK, CallsOK, QueueOK, NEW r \in Requests, EnqueueLocked(r)
  PROVE  OutcomesMove
<1>1. HasLock(r) /\ outcome[r] = Pending /\ caller'[r] = "submitted"
  BY LineHead DEF EnqueueLocked, TypeOK
<1>2. \A q \in Expired : caller[q] = "submitted" /\ ~dispatched[q]
  BY DEF QueueOK, Expired
<1>3. r \notin Expired
  BY <1>1, <1>2, LineHead
<1>4. {r} \in SUBSET Requests /\ {"EXPIRED", "OUT_OF_ORDER", "OVERLOADED", "REPLACED"} \subseteq Statuses
  BY DEF Statuses
<1>5. ASSUME RejectOutOfOrder(r) PROVE OutcomesMove
  <2>1. Write(Finish(Book, All({r}, "OUT_OF_ORDER")))
    BY <1>5 DEF RejectOutOfOrder
  <2>2. /\ IsBook([outcome |-> outcome', tally |-> tally'])
        /\ \A q \in Requests : outcome'[q] = IF q = r /\ outcome[q].status = "PENDING"
                                  THEN Result("OUT_OF_ORDER", None, None) ELSE outcome[q]
    <3>1. IsBook(Book) /\ Book.outcome = outcome
      BY BookTyped
    <3>2. /\ IsBook([outcome |-> outcome', tally |-> tally'])
          /\ \A q \in Requests : outcome'[q] = IF q \in {r} /\ Book.outcome[q].status = "PENDING"
                                    THEN Result("OUT_OF_ORDER", None, None) ELSE Book.outcome[q]
      BY <2>1, <1>4, <3>1, WriteAllEffect
    <3> QED BY <3>1, <3>2
  <2> QED BY <2>2, <1>1 DEF OutcomesMove, Moves, TurnedNow, Contract!TurnedAway, Result
<1>6. ASSUME RejectOverloaded(r) PROVE OutcomesMove
  <2>1. Write(Finish(ExpiredBook, All({r}, "OVERLOADED")))
    BY <1>6 DEF RejectOverloaded, ExpiredBook
  <2>2. /\ IsBook([outcome |-> outcome', tally |-> tally'])
        /\ \A q \in Requests :
             outcome'[q] = IF q = r /\ ExpiredBook.outcome[q].status = "PENDING"
                             THEN Result("OVERLOADED", None, None) ELSE ExpiredBook.outcome[q]
    BY <2>1, <1>4, ExpiredEffect, WriteAllEffect
  <2> QED BY <2>2, <1>1, <1>2, <1>3, ExpiredEffect
          DEF OutcomesMove, Moves, TurnedNow, ShedNow, Contract!TurnedAway, Contract!Shed, Result
<1>7. ASSUME Admit(r) PROVE OutcomesMove
  <2>1. Previous(r) # None =>
          caller[Previous(r)] = "submitted" /\ ~dispatched[Previous(r)]
    BY LineHead, <1>1 DEF Previous, QueueOK, TypeOK, Request
  <2>2. /\ IsBook([outcome |-> outcome', tally |-> tally'])
        /\ \A q \in Requests :
             outcome'[q] = IF outcome[q].status = "PENDING" /\ q \in Expired
                             THEN Result("EXPIRED", None, None)
                           ELSE IF outcome[q].status = "PENDING" /\ q = Previous(r)
                             THEN Result("REPLACED", None, r)
                           ELSE outcome[q]
    BY <1>1, <1>7, AdmitOutcomes
  <2>3. ASSUME NEW q \in Requests PROVE outcome'[q] = outcome[q] \/ Moves(q)
    <3>1. q = Previous(r) => caller[q] = "submitted" /\ ~dispatched[q]
      BY <2>1, ConfigAssumption DEF ConfigAssumption
    <3> QED BY <1>2, <2>2, <3>1 DEF Moves, ShedNow, Contract!Shed, Result
  <2> QED BY <2>2, <2>3 DEF OutcomesMove
<1> QED BY <1>5, <1>6, <1>7 DEF EnqueueLocked

\* The end of a batch leaves none of its futures pending, and no other changed.
BatchResolved(w) ==
  \A r \in Requests :
    /\ outcome'[r] = outcome[r] \/ DoneNow(r)
    /\ r \in batch[w] => outcome'[r].status # "PENDING"

\* Routing the actions of a batch resolves envelopes of the batch: with the action
\* that names them, or without one.
LEMMA RoutedMoves ==
  ASSUME TypeOK, CallsOK, QueueOK, NEW w \in Workers, wstate[w] = "executing",
         NEW action \in [batch[w] -> batch[w] \cup {Alien}],
         Write(Routed(batch[w], action))
  PROVE  OutcomesMove /\ BatchResolved(w)
<1> DEFINE B == batch[w]
           good == {r \in B : \A q \in B : (q = r \/ Before(q, r)) => action[q] = q}
           answers == [r \in good |-> Answer(r, action[r])]
           answered == Finish(Book, answers)
<1>1. good \subseteq B /\ B \in SUBSET Requests
  BY DEF TypeOK
<1>2. ASSUME NEW r \in good
      PROVE  /\ Answer(r, action[r]) \in Outcome
             /\ Answer(r, action[r]).status \in Contract!Executed
             /\ Answer(r, action[r]).status # "PENDING"
             /\ Answer(r, action[r]).action = None
                  \/ /\ Answer(r, action[r]).action = r
                     /\ Answer(r, action[r]).status \in Contract!Carries
                     /\ DropMissed => now <= request[r].deadline
  <2>1. action[r] = r /\ r \in Requests
    BY <1>1, <1>2
  <2>2. {"COMPLETED", "DEADLINE_MISSED"} \subseteq Statuses
    BY DEF Statuses
  <2>3. CASE now > request[r].deadline
    BY <2>1, <2>2, <2>3, ConfigAssumption
       DEF Answer, Result, Outcome, Contract!Executed, Contract!Carries, ConfigAssumption
  <2>4. CASE ~(now > request[r].deadline)
    <3>1. request[r] \in Request
      BY <1>1, <2>1 DEF CallsOK, QueueOK, TypeOK
    <3>2. now <= request[r].deadline
      BY <2>4, <3>1 DEF Request, TypeOK
    <3> QED BY <2>1, <2>2, <2>4, <3>2
            DEF Answer, Result, Outcome, Contract!Executed, Contract!Carries
  <2> QED BY <2>3, <2>4
<1>3. /\ IsBook(answered)
      /\ \A r \in Requests : answered.outcome[r] =
           IF r \in good /\ outcome[r].status = "PENDING" THEN answers[r] ELSE outcome[r]
  <2>1. DOMAIN answers = good /\ \A r \in good : answers[r] \in Outcome
    BY <1>2
  <2> HIDE DEF answers, good
  <2> QED BY <2>1, <1>1, BookTyped, FinishEffect
<1>4. \A r \in good : answers[r] = Answer(r, action[r])
  OBVIOUS
<1>5. ASSUME good = B
      PROVE  OutcomesMove /\ BatchResolved(w)
  <2>1. outcome' = answered.outcome /\ tally' = answered.tally
    BY <1>5 DEF Routed, Write
  <2>2. IsBook([outcome |-> outcome', tally |-> tally'])
    <3> HIDE DEF answered
    <3> QED BY <1>3, <2>1 DEF IsBook
  <2>3. ASSUME NEW r \in Requests
        PROVE  outcome'[r] = outcome[r] \/ (outcome[r].status = "PENDING" /\ DoneNow(r))
    <3> HIDE DEF answered, answers, good
    <3> QED BY <1>1, <1>2, <1>3, <1>4, <2>1 DEF DoneNow
  <2>4. ASSUME NEW r \in B PROVE outcome'[r].status # "PENDING"
    <3> HIDE DEF answered, answers, good
    <3> QED BY <1>1, <1>2, <1>3, <1>4, <1>5, <2>1
  <2> QED BY <2>2, <2>3, <2>4 DEF OutcomesMove, Moves, BatchResolved
<1>6. ASSUME good # B
      PROVE  OutcomesMove /\ BatchResolved(w)
  <2>1. Write(Finish(answered, All(B, "FAILED")))
    BY <1>6 DEF Routed
  <2>2. "FAILED" \in Statuses
    BY DEF Statuses
  <2>3. /\ IsBook([outcome |-> outcome', tally |-> tally'])
        /\ \A r \in Requests :
             outcome'[r] = IF r \in B /\ answered.outcome[r].status = "PENDING"
                             THEN Result("FAILED", None, None) ELSE answered.outcome[r]
    <3> HIDE DEF answered
    <3> QED BY <1>1, <1>3, <2>1, <2>2, WriteAllEffect
  <2>4. ASSUME NEW r \in Requests
        PROVE  outcome'[r] = outcome[r] \/ (outcome[r].status = "PENDING" /\ DoneNow(r))
    <3>1. Result("FAILED", None, None).status \in Contract!Executed
          /\ Result("FAILED", None, None).action = None
      BY DEF Result, Contract!Executed
    <3> HIDE DEF answered, answers, good
    <3> QED BY <1>1, <1>2, <1>3, <1>4, <2>3, <3>1 DEF DoneNow
  <2>5. ASSUME NEW r \in B PROVE outcome'[r].status # "PENDING"
    <3>1. Result("FAILED", None, None).status = "FAILED"
      BY DEF Result
    <3> HIDE DEF answered, answers, good
    <3> QED BY <1>1, <2>3, <3>1
  <2> QED BY <2>3, <2>4, <2>5 DEF OutcomesMove, Moves, BatchResolved
<1> QED BY <1>5, <1>6

\* So does whatever infer_batch() ends with, and it leaves none of them pending.
LEMMA BackendMoves ==
  ASSUME TypeOK, CallsOK, QueueOK, NEW w \in Workers, BackendReturns(w) \/ BackendFails(w)
  PROVE  OutcomesMove /\ BatchResolved(w)
<1>1. wstate[w] = "executing" /\ batch[w] \in SUBSET Requests
  BY DEF BackendReturns, BackendFails, TypeOK
<1>2. ASSUME BackendReturns(w)
      PROVE  OutcomesMove /\ BatchResolved(w)
  <2>1. PICK action \in IF BackendFaults THEN [batch[w] -> batch[w] \cup {Alien}]
                                         ELSE {[r \in batch[w] |-> r]} :
             Write(Routed(batch[w], action))
    BY <1>2 DEF BackendReturns, BatchDone
  <2>2. action \in [batch[w] -> batch[w] \cup {Alien}]
    BY <2>1
  <2> QED BY <2>1, <2>2, <1>1, RoutedMoves
<1>3. ASSUME BackendFails(w)
      PROVE  OutcomesMove /\ BatchResolved(w)
  <2>1. Write(Finish(Book, All(batch[w], "FAILED"))) /\ "FAILED" \in Statuses
    BY <1>3 DEF BackendFails, BatchDone, Statuses
  <2>2. IsBook(Book) /\ Book.outcome = outcome
    BY BookTyped
  <2>3. /\ IsBook([outcome |-> outcome', tally |-> tally'])
        /\ \A r \in Requests :
             outcome'[r] = IF r \in batch[w] /\ Book.outcome[r].status = "PENDING"
                             THEN Result("FAILED", None, None) ELSE Book.outcome[r]
    BY <1>1, <2>1, <2>2, WriteAllEffect
  <2> QED BY <1>1, <2>2, <2>3
          DEF OutcomesMove, Moves, DoneNow, BatchResolved, Result, Contract!Executed
<1> QED BY <1>2, <1>3

\* close() sheds what is queued, or nothing.
LEMMA CloseMoves ==
  ASSUME TypeOK, QueueOK, NEW c \in Closers, CloseLocked(c)
  PROVE  OutcomesMove
<1>1. ASSUME UNCHANGED bookVars PROVE OutcomesMove
  BY <1>1 DEF bookVars, OutcomesMove, TypeOK, IsBook
<1>2. ASSUME Write(Finish(Book, All(Live, "CANCELLED"))) PROVE OutcomesMove
  <2>1. IsBook(Book) /\ Book.outcome = outcome
    BY BookTyped
  <2>2. Live \in SUBSET Requests /\ "CANCELLED" \in Statuses
    BY DEF Live, TypeOK, Statuses
  <2>3. /\ IsBook([outcome |-> outcome', tally |-> tally'])
        /\ \A r \in Requests :
             outcome'[r] = IF r \in Live /\ Book.outcome[r].status = "PENDING"
                             THEN Result("CANCELLED", None, None) ELSE Book.outcome[r]
    BY <1>2, <2>1, <2>2, WriteAllEffect
  <2> QED BY <2>1, <2>3 DEF OutcomesMove, Moves, ShedNow, QueueOK, Result, Contract!Shed
<1> QED BY <1>1, <1>2 DEF CloseLocked

\* A caller gives up its own future.
LEMMA AbandonMoves ==
  ASSUME TypeOK, NEW r \in Requests, Abandon(r)
  PROVE  OutcomesMove
<1>1. outcome' = [outcome EXCEPT ![r] = Abandoned] /\ tally' = tally
  BY DEF Abandon
<1>2. Abandoned \in Outcome /\ Abandoned.status = "ABANDONED" /\ Abandoned.action = None
  BY DEF Abandoned, Result, Outcome
<1> QED BY <1>1, <1>2 DEF OutcomesMove, Moves, GivenUp, Abandon, TypeOK, IsBook

\* Every step resolves only pending futures, each in one of the four ways.
LEMMA OutcomeStep ==
  ASSUME TypeOK, LineOK, CallsOK, QueueOK, [Next]_vars
  PROVE  OutcomesMove
<1>1. ASSUME UNCHANGED bookVars PROVE OutcomesMove
  BY <1>1 DEF bookVars, OutcomesMove, TypeOK, IsBook
<1>2. ASSUME NEW r \in Requests, Submit(r) PROVE OutcomesMove
  BY <1>1, <1>2 DEF Submit
<1>3. ASSUME NEW w \in Workers, WorkerPass(w) PROVE OutcomesMove
  <2>1. \E est \in Estimates : Write(SweptBook(est))
    BY <1>3 DEF WorkerPass, WorkerExit, WorkerIdle, WorkerHold, WorkerDispatch, WorkerCrash,
                SweepOnly
  <2> QED BY <2>1, SweepMoves
<1>4. ASSUME NEW w \in Workers, WakeUp(w) \/ WaitFor(w) \/ BackendCancelled(w) PROVE OutcomesMove
  BY <1>1, <1>4 DEF WakeUp, WaitFor, BackendCancelled
<1>5. ASSUME Start \/ Tick PROVE OutcomesMove
  BY <1>1, <1>5 DEF Start, Tick
<1>6. ASSUME NEW c \in Closers, CloseBegin(c) \/ CloseJoins(c) PROVE OutcomesMove
  BY <1>1, <1>6 DEF CloseBegin, CloseJoins, CloseReturn, CloseRaise, CloseCancelled
<1>7. ASSUME UNCHANGED vars PROVE OutcomesMove
  BY <1>1, <1>7 DEF vars
<1> QED BY <1>2, <1>3, <1>4, <1>5, <1>6, <1>7, EnqueueMoves, AbandonMoves, BackendMoves,
           CloseMoves DEF Next, BackendEnds

-----------------------------------------------------------------------------
(* Types.                                                                   *)

\* The request of an enqueue() call
LEMMA SubmitRequest ==
  ASSUME TypeOK, NEW r \in Requests, Submit(r)
  PROVE  \E x \in Request : x.order = created /\ request' = [request EXCEPT ![r] = x]
<1>1. PICK s \in Sessions, q \in SeqNos, a \in Ages, d \in Timeouts, p \in Priorities, k \in Keys :
        /\ a <= now
        /\ request' = [request EXCEPT ![r] =
             [session |-> s, seq |-> q, received |-> now - a, deadline |-> now - a + d,
              priority |-> p, key |-> k, order |-> created]]
  BY DEF Submit
<1>2. now - a \in Nat /\ now - a + d \in Nat
  BY <1>1, ConfigAssumption DEF TypeOK, ConfigAssumption
<1> QED BY <1>1, <1>2 DEF TypeOK, Request

Tasks == Requests \cup Closers \cup Workers

\* A worker pass may be the turn of the worker in the line.
LEMMA PassLine ==
  ASSUME NEW w \in Workers, WorkerPass(w)
  PROVE  /\ Runs(w)
         /\ UNCHANGED lockVars \/ (HasLock(w) /\ Leaves)
BY DEF WorkerPass, WorkerExit, WorkerIdle, WorkerHold, WorkerDispatch, WorkerCrash, Runs

\* In the line for the lock a step lets somebody in or out, if it does anything.
LEMMA LineMoves ==
  ASSUME TypeOK, [Next]_vars
  PROVE  /\ \/ UNCHANGED lockVars
            \/ \E t \in Tasks : Arrives(t)
            \/ \E t \in Tasks : HasLock(t) /\ Leaves
         /\ line' \in Seq(Tasks) /\ parked' \in BOOLEAN
<1>1. \/ UNCHANGED lockVars
      \/ \E t \in Tasks : Arrives(t)
      \/ \E t \in Tasks : HasLock(t) /\ Leaves
  <2>1. ASSUME NEW r \in Requests, Submit(r) \/ EnqueueLocked(r)
        PROVE  Arrives(r) \/ (HasLock(r) /\ Leaves)
    BY <2>1 DEF Submit, EnqueueLocked
  <2>2. ASSUME NEW c \in Closers, CloseBegin(c) \/ CloseLocked(c)
        PROVE  Arrives(c) \/ (HasLock(c) /\ Leaves)
    BY <2>2 DEF CloseBegin, CloseLocked
  <2>3. ASSUME NEW w \in Workers, WaitFor(w)
        PROVE  UNCHANGED lockVars \/ Arrives(w) \/ (HasLock(w) /\ Leaves)
    BY <2>3 DEF WaitFor, WaitBegins, WaitEnds, WorkerQueues
  <2>4. ASSUME NEW w \in Workers, WakeUp(w) \/ BackendEnds(w) PROVE UNCHANGED lockVars
    BY <2>4 DEF WakeUp, BackendEnds, BackendReturns, BackendFails, BackendCancelled, BatchDone
  <2>5. ASSUME NEW c \in Closers, CloseJoins(c) PROVE UNCHANGED lockVars
    BY <2>5 DEF CloseJoins, CloseReturn, CloseRaise, CloseCancelled
  <2>6. ASSUME NEW r \in Requests, Abandon(r) PROVE UNCHANGED lockVars
    BY <2>6 DEF Abandon
  <2>7. ASSUME Start \/ Tick \/ UNCHANGED vars PROVE UNCHANGED lockVars
    BY <2>7 DEF Start, Tick, vars
  <2> QED BY <2>1, <2>2, <2>3, <2>4, <2>5, <2>6, <2>7, PassLine DEF Next, Tasks
<1>2. line \in Seq(Tasks) /\ parked \in BOOLEAN
  BY DEF TypeOK, Tasks
<1>3. CASE UNCHANGED lockVars
  BY <1>1, <1>2, <1>3 DEF lockVars
<1>4. ASSUME NEW t \in Tasks, Arrives(t) PROVE line' \in Seq(Tasks) /\ parked' \in BOOLEAN
  BY <1>2, <1>4 DEF Arrives
<1>5. ASSUME NEW t \in Tasks, HasLock(t), Leaves PROVE line' \in Seq(Tasks) /\ parked' \in BOOLEAN
  BY <1>2, <1>5 DEF HasLock, Leaves
<1> QED BY <1>1, <1>3, <1>4, <1>5

\* Every step keeps the types.
LEMMA TypeStep ==
  ASSUME TypeOK, LineOK, CallsOK, QueueOK, [Next]_vars
  PROVE  TypeOK'
<1> USE DEF callVars, queueVars, bookVars, taskVars, lifeVars
<1>0. /\ outcome' \in [Requests -> Outcome] /\ tally' \in [Statuses -> Nat]
      /\ line' \in Seq(Tasks) /\ parked' \in BOOLEAN
  BY OutcomeStep, LineMoves DEF OutcomesMove, IsBook
<1> USE DEF Tasks
<1>1. ASSUME NEW r \in Requests, Submit(r) PROVE TypeOK'
  <2>1. request' \in [Requests -> Request \cup {None}]
    BY <1>1, SubmitRequest DEF TypeOK
  <2> QED BY <1>0, <1>1, <2>1 DEF Submit, TypeOK
<1>2. ASSUME NEW r \in Requests, EnqueueLocked(r) PROVE TypeOK'
  <2>2. request[r] \in Request
    BY <1>2, LineHead DEF EnqueueLocked
  <2>3. latest' \in [Sessions -> SeqNos \cup {NoSeq}]
    BY <1>2, <2>2 DEF EnqueueLocked, RejectOutOfOrder, RejectOverloaded, Admit, TypeOK, Request
  <2>4. heap' \in SUBSET Requests
    BY <1>2 DEF EnqueueLocked, RejectOutOfOrder, RejectOverloaded, Admit, TypeOK, Live
  <2>5. active' \in [Requests -> BOOLEAN]
    BY <1>2 DEF EnqueueLocked, RejectOutOfOrder, RejectOverloaded, Admit, TypeOK, Deactivate
  <2>6. pendingOf' \in [Sessions -> Requests \cup {None}]
    <3>1. ClearPointers(Expired) \in [Sessions -> Requests \cup {None}]
      BY DEF ClearPointers, TypeOK
    <3>2. CASE RejectOutOfOrder(r) \/ RejectOverloaded(r)
      BY <3>1, <3>2 DEF RejectOutOfOrder, RejectOverloaded, TypeOK
    <3>3. CASE Admit(r)
      <4>1. pendingOf' = IF Coalesce THEN [ClearPointers(Expired) EXCEPT ![request[r].session] = r]
                                     ELSE ClearPointers(Expired)
        BY <3>3 DEF Admit
      <4> QED BY <3>1, <4>1
    <3> QED BY <1>2, <3>2, <3>3 DEF EnqueueLocked
  <2>7. wstate' \in [Workers -> WorkerStates]
    <3>1. wstate' = wstate \/ NotifyOne
      BY <1>2 DEF EnqueueLocked, RejectOutOfOrder, RejectOverloaded, Admit
    <3>2. wstate \in [Workers -> WorkerStates] /\ \A w : Woken(w) \in WorkerStates
      BY DEF TypeOK, Woken, WorkerStates
    <3> QED BY <3>1, <3>2 DEF NotifyOne
  <2>8. /\ submitted' \in Nat
        /\ caller' \in [Requests -> {"new", "entering", "submitted"}]
        /\ UNCHANGED <<now, created, request, dispatched, wake, batch, served, accepting,
                       handle, closer, joined>>
    BY <1>2 DEF EnqueueLocked, TypeOK
  <2> QED BY <1>0, <2>3, <2>4, <2>5, <2>6, <2>7, <2>8 DEF TypeOK
<1>3. ASSUME NEW r \in Requests, Abandon(r) PROVE TypeOK'
  BY <1>0, <1>3 DEF Abandon, TypeOK
<1>4. ASSUME NEW w \in Workers, WorkerExit(w) \/ WorkerIdle(w) PROVE TypeOK'
  <2>1. PICK est : SweepOnly(est)
    BY <1>4 DEF WorkerExit, WorkerIdle
  <2>2. /\ heap' \in SUBSET Requests /\ active' \in [Requests -> BOOLEAN]
        /\ pendingOf' \in [Sessions -> Requests \cup {None}]
    BY <2>1 DEF SweepOnly, Queue, Live, Deactivate, ClearPointers, TypeOK
  <2>3. PICK state \in {"done", "idle"} : Becomes(w, state, NoTime)
    BY <1>4 DEF WorkerExit, WorkerIdle
  <2>4. /\ wake' \in [Workers -> Int]
        /\ wstate' \in [Workers -> WorkerStates]
    <3>1. wake' = [wake EXCEPT ![w] = -1] /\ wstate' = [wstate EXCEPT ![w] = state]
      BY <2>3 DEF Becomes, NoTime
    <3> QED BY <3>1 DEF TypeOK, WorkerStates
  <2> QED BY <1>0, <2>1, <2>2, <2>4 DEF SweepOnly, TypeOK
<1>5. ASSUME NEW w \in Workers, WorkerHold(w) PROVE TypeOK'
  <2>1. PICK est \in Estimates, lead \in Requests :
          /\ First(lead, Queue(est))
          /\ SweepOnly(est)
          /\ Becomes(w, IF LockYields THEN "settling" ELSE "timed", DispatchAt(lead, est))
    BY <1>5 DEF WorkerHold
  <2>2. request[lead] \in Request
    BY <2>1 DEF First, Queue, QueueOK, CallsOK, TypeOK
  <2>3. Predicted(est) \in Int
    BY ConfigAssumption DEF ConfigAssumption, Predicted, NoEstimate
  <2>4. DispatchAt(lead, est) \in Int
    BY <2>2, <2>3, ConfigAssumption DEF ConfigAssumption, DispatchAt, Request
  <2> QED BY <1>0, <2>1, <2>4 DEF SweepOnly, Becomes, Queue, Live, Deactivate, ClearPointers,
                                  TypeOK, WorkerStates
<1>6. ASSUME NEW w \in Workers, WorkerDispatch(w) PROVE TypeOK'
  <2>1. PICK est \in Estimates, B \in SUBSET Requests, t \in now .. (now + PassDelay) :
          Take(w, Queue(est), Swept(est), B) /\ now' = t
    BY <1>6 DEF WorkerDispatch, Queue, Live, TypeOK
  <2>3. Cardinality(B) \in Nat
    BY ConfigAssumption, FS_Subset, FS_CardinalityType DEF ConfigAssumption
  <2>4. now' \in Nat
    BY <2>1, ConfigAssumption DEF ConfigAssumption, TypeOK
  <2>5. served' \in Nat
    BY <2>1, <2>3 DEF Take, TypeOK
  <2>6. heap' \in SUBSET Requests /\ batch' \in [Workers -> SUBSET Requests]
    BY <2>1 DEF Take, Queue, Live, TypeOK
  <2>7. active' \in [Requests -> BOOLEAN] /\ dispatched' \in [Requests -> BOOLEAN]
    BY <2>1 DEF Take, Deactivate, TypeOK
  <2>8. pendingOf' \in [Sessions -> Requests \cup {None}]
    BY <2>1 DEF Take, ClearPointers, TypeOK
  <2>9. /\ wake' \in [Workers -> Int]
        /\ wstate' \in [Workers -> WorkerStates]
    BY <1>6 DEF WorkerDispatch, Becomes, TypeOK, NoTime, WorkerStates
  <2>10. UNCHANGED <<callVars, latest, lifeVars>>
    BY <1>6 DEF WorkerDispatch
  <2> QED BY <1>0, <2>4, <2>5, <2>6, <2>7, <2>8, <2>9, <2>10 DEF TypeOK
<1>7. ASSUME NEW w \in Workers, WorkerCrash(w) PROVE TypeOK'
  <2>1. PICK est, S, B :
          /\ heap' = Queue(est) \ S
          /\ active' = Deactivate(B)
          /\ pendingOf' = ClearPointers(B)
    BY <1>7 DEF WorkerCrash
  <2>2. /\ heap' \in SUBSET Requests /\ active' \in [Requests -> BOOLEAN]
        /\ pendingOf' \in [Sessions -> Requests \cup {None}]
    BY <2>1 DEF Queue, Live, Deactivate, ClearPointers, TypeOK
  <2>3. dispatched' \in [Requests -> BOOLEAN]
    BY <1>7 DEF WorkerCrash, TypeOK
  <2>4. /\ wake' \in [Workers -> Int]
        /\ wstate' \in [Workers -> WorkerStates]
    BY <1>7 DEF WorkerCrash, Becomes, TypeOK, NoTime, WorkerStates
  <2>5. UNCHANGED <<now, callVars, latest, batch, served, lifeVars>>
    BY <1>7 DEF WorkerCrash
  <2> QED BY <1>0, <2>2, <2>3, <2>4, <2>5 DEF TypeOK
<1>8. ASSUME NEW w \in Workers, WakeUp(w) \/ WaitFor(w) \/ BackendEnds(w) PROVE TypeOK'
  <2>1. CASE WakeUp(w)
    BY <1>0, <2>1 DEF WakeUp, Woken, TypeOK, WorkerStates
  <2>2. CASE WaitFor(w)
    BY <1>0, <2>2 DEF WaitFor, WaitBegins, WaitEnds, WorkerQueues, TypeOK, WorkerStates
  <2>3. CASE BackendEnds(w)
    BY <1>0, <2>3 DEF BackendEnds, BackendReturns, BackendFails, BackendCancelled, BatchDone,
                      TypeOK, WorkerStates
  <2> QED BY <1>8, <2>1, <2>2, <2>3
<1>9. ASSUME Start \/ Tick PROVE TypeOK'
  <2>1. CASE Start
    BY <1>0, <2>1 DEF Start, TypeOK, WorkerStates
  <2>2. CASE Tick
    BY <1>0, <2>2 DEF Tick, TypeOK
  <2> QED BY <1>9, <2>1, <2>2
<1>10. ASSUME NEW c \in Closers, CloseBegin(c) PROVE TypeOK'
  BY <1>0, <1>10 DEF CloseBegin, TypeOK
<1>11. ASSUME NEW c \in Closers, CloseLocked(c) PROVE TypeOK'
  <2>2. /\ heap' \in SUBSET Requests /\ active' \in [Requests -> BOOLEAN]
        /\ pendingOf' \in [Sessions -> Requests \cup {None}]
    BY <1>11 DEF CloseLocked, Deactivate, TypeOK
  <2>3. wstate' \in [Workers -> WorkerStates]
    BY <1>11 DEF CloseLocked, NotifyAll, Woken, TypeOK, WorkerStates
  <2> QED BY <1>0, <1>11, <2>2, <2>3 DEF CloseLocked, TypeOK
<1>12. ASSUME NEW c \in Closers, CloseJoins(c) PROVE TypeOK'
  BY <1>0, <1>12 DEF CloseJoins, CloseReturn, CloseRaise, CloseCancelled, TypeOK, WorkerStates
<1>13. ASSUME UNCHANGED vars PROVE TypeOK'
  BY <1>13 DEF vars, callVars, lockVars, queueVars, bookVars, taskVars, lifeVars, TypeOK
<1> QED BY <1>1, <1>2, <1>3, <1>4, <1>5, <1>6, <1>7, <1>8, <1>9, <1>10, <1>11, <1>12, <1>13
        DEF Next, WorkerPass

-----------------------------------------------------------------------------
(* How one step changes the calls, the queue and the batches.               *)

\* A call is made once, and passes the lock once.
LEMMA CallStep ==
  ASSUME TypeOK, LineOK, CallsOK, [Next]_vars, NEW r \in Requests
  PROVE  \/ request'[r] = request[r] /\ caller'[r] = caller[r]
         \/ caller[r] = "new" /\ caller'[r] = "entering" /\ request'[r] \in Request
         \/ /\ EnqueueLocked(r) /\ caller[r] = "entering"
            /\ request'[r] = request[r] /\ caller'[r] = "submitted"
<1> USE DEF callVars
<1>1. ASSUME NEW q \in Requests, Submit(q)
      PROVE  \/ request'[r] = request[r] /\ caller'[r] = caller[r]
             \/ caller[r] = "new" /\ caller'[r] = "entering" /\ request'[r] \in Request
  <2>1. PICK x \in Request : request' = [request EXCEPT ![q] = x]
    BY <1>1, SubmitRequest
  <2>3. request'[q] \in Request /\ (r # q => request'[r] = request[r])
    BY <2>1 DEF TypeOK
  <2>4. caller[q] = "new" /\ caller' = [caller EXCEPT ![q] = "entering"]
    BY <1>1 DEF Submit
  <2> QED BY <2>3, <2>4 DEF TypeOK
<1>2. ASSUME NEW q \in Requests, EnqueueLocked(q)
      PROVE  \/ request'[r] = request[r] /\ caller'[r] = caller[r]
             \/ /\ EnqueueLocked(r) /\ caller[r] = "entering"
                /\ request'[r] = request[r] /\ caller'[r] = "submitted"
  <2>1. /\ caller[q] = "entering" /\ request' = request
        /\ caller' = [caller EXCEPT ![q] = "submitted"]
    BY <1>2, LineHead DEF EnqueueLocked
  <2> QED BY <1>2, <2>1 DEF TypeOK
<1>3. ASSUME request' = request, caller' = caller
      PROVE  request'[r] = request[r] /\ caller'[r] = caller[r]
  BY <1>3
<1>4. ASSUME NEW q \in Requests, Abandon(q) PROVE request' = request /\ caller' = caller
  BY <1>4 DEF Abandon
<1>5. ASSUME NEW w \in Workers, WorkerPass(w) PROVE request' = request /\ caller' = caller
  BY <1>5 DEF WorkerPass, WorkerExit, WorkerIdle, WorkerHold, WorkerDispatch, WorkerCrash, SweepOnly
<1>6. ASSUME NEW w \in Workers, WakeUp(w) \/ WaitFor(w) \/ BackendEnds(w)
      PROVE  request' = request /\ caller' = caller
  BY <1>6 DEF WakeUp, WaitFor, BackendEnds, BackendReturns, BackendFails, BackendCancelled, BatchDone
<1>7. ASSUME Start \/ Tick PROVE request' = request /\ caller' = caller
  BY <1>7 DEF Start, Tick
<1>8. ASSUME NEW c \in Closers, CloseBegin(c) \/ CloseLocked(c) \/ CloseJoins(c)
      PROVE  request' = request /\ caller' = caller
  BY <1>8 DEF CloseBegin, CloseLocked, CloseJoins, CloseReturn, CloseRaise, CloseCancelled
<1>9. ASSUME UNCHANGED vars PROVE request' = request /\ caller' = caller
  BY <1>9 DEF vars
<1> QED BY <1>1, <1>2, <1>3, <1>4, <1>5, <1>6, <1>7, <1>8, <1>9 DEF Next

\* The queue loses the envelopes of G, and with them their session pointers.
Shrinks(G) ==
  /\ Live' \subseteq Live \ G
  /\ \A s \in Sessions : pendingOf'[s] \in {pendingOf[s], None}
  /\ \A s \in Sessions : pendingOf[s] \notin G => pendingOf'[s] = pendingOf[s] \/ Live' = {}
  /\ latest' = latest

\* A sweep that deactivates what it removes loses just that.
LEMMA Cleared ==
  ASSUME TypeOK, NEW G, heap' \subseteq Live \ G, active' = Deactivate(G),
         pendingOf' = ClearPointers(G), latest' = latest
  PROVE  Shrinks(G)
<1>1. Live' \subseteq Live \ G
  BY DEF Live
<1> QED BY <1>1 DEF Shrinks, ClearPointers

\* A step admits the request of an enqueue(), or only takes envelopes away.
LEMMA QueueStep ==
  ASSUME TypeOK, [Next]_vars
  PROVE  \/ \E r \in Requests : EnqueueLocked(r) /\ Admit(r)
         \/ \E G : Shrinks(G)
<1> USE DEF queueVars
<1>1. ASSUME UNCHANGED <<heap, active, pendingOf, latest>> PROVE \E G : Shrinks(G)
  <2>1. Shrinks({})
    BY <1>1 DEF Shrinks, Live
  <2> QED BY <2>1
<1>2. ASSUME NEW r \in Requests, RejectOutOfOrder(r) PROVE \E G : Shrinks(G)
  <2>1. Live' \subseteq Live
    BY <1>2 DEF RejectOutOfOrder, Live, Deactivate, TypeOK
  <2>2. Shrinks({})
    BY <1>2, <2>1 DEF RejectOutOfOrder, Shrinks
  <2> QED BY <2>2
<1>3. ASSUME NEW r \in Requests, RejectOverloaded(r) PROVE \E G : Shrinks(G)
  <2>1. Live' \subseteq Live \ Expired
    BY <1>3 DEF RejectOverloaded, Live, Deactivate, TypeOK
  <2>2. Shrinks(Expired)
    BY <1>3, <2>1 DEF RejectOverloaded, Shrinks, ClearPointers
  <2> QED BY <2>2
<1>4. ASSUME NEW w \in Workers, WorkerExit(w) \/ WorkerIdle(w) \/ WorkerHold(w)
      PROVE  \E G : Shrinks(G)
  <2>1. PICK est : SweepOnly(est)
    BY <1>4 DEF WorkerExit, WorkerIdle, WorkerHold
  <2>2. Shrinks(Swept(est))
    BY <2>1, Cleared DEF SweepOnly, Queue
  <2> QED BY <2>2
<1>5. ASSUME NEW w \in Workers, WorkerDispatch(w) PROVE \E G : Shrinks(G)
  <2>1. PICK est, B : Take(w, Queue(est), Swept(est), B) /\ latest' = latest
    BY <1>5 DEF WorkerDispatch
  <2>2. Shrinks(Swept(est) \cup B)
    <3>1. heap' \subseteq Live \ (Swept(est) \cup B)
      BY <2>1 DEF Take, Queue
    <3> QED BY <2>1, <3>1, Cleared DEF Take
  <2> QED BY <2>2
<1>6. ASSUME NEW w \in Workers, WorkerCrash(w) PROVE \E G : Shrinks(G)
  <2>1. PICK est, popped, B :
          /\ B \subseteq popped
          /\ heap' = Queue(est) \ popped
          /\ active' = Deactivate(Swept(est) \cup B)
          /\ pendingOf' = ClearPointers(Swept(est) \cup B)
          /\ latest' = latest
    BY <1>6 DEF WorkerCrash
  <2>2. heap' \subseteq Live \ (Swept(est) \cup B)
    BY <2>1 DEF Queue
  <2>3. Shrinks(Swept(est) \cup B)
    BY <2>1, <2>2, Cleared
  <2> QED BY <2>3
<1>7. ASSUME NEW c \in Closers, CloseLocked(c) PROVE \E G : Shrinks(G)
  <2>1. CASE UNCHANGED <<active, bookVars, heap, pendingOf>>
    BY <1>1, <1>7, <2>1 DEF CloseLocked
  <2>2. CASE heap' = {} /\ pendingOf' = [s \in Sessions |-> None]
    <3>1. Live' = {} /\ latest' = latest
      BY <1>7, <2>2 DEF CloseLocked, Live
    <3>2. Shrinks({})
      BY <2>2, <3>1 DEF Shrinks
    <3> QED BY <3>2
  <2> QED BY <1>7, <2>1, <2>2 DEF CloseLocked
<1>8. ASSUME NEW r \in Requests, Submit(r) \/ Abandon(r)
      PROVE  UNCHANGED <<heap, active, pendingOf, latest>>
  BY <1>8 DEF Submit, Abandon
<1>9. ASSUME NEW w \in Workers, WakeUp(w) \/ WaitFor(w) \/ BackendEnds(w)
      PROVE  UNCHANGED <<heap, active, pendingOf, latest>>
  BY <1>9 DEF WakeUp, WaitFor, BackendEnds, BackendReturns, BackendFails, BackendCancelled, BatchDone
<1>10. ASSUME Start \/ Tick PROVE UNCHANGED <<heap, active, pendingOf, latest>>
  BY <1>10 DEF Start, Tick
<1>11. ASSUME NEW c \in Closers, CloseBegin(c) \/ CloseJoins(c)
       PROVE  UNCHANGED <<heap, active, pendingOf, latest>>
  BY <1>11 DEF CloseBegin, CloseJoins, CloseReturn, CloseRaise, CloseCancelled
<1>12. ASSUME UNCHANGED vars PROVE UNCHANGED <<heap, active, pendingOf, latest>>
  BY <1>12 DEF vars
<1>13. ASSUME NEW r \in Requests, EnqueueLocked(r), ~Admit(r)
       PROVE  RejectOutOfOrder(r) \/ RejectOverloaded(r)
  BY <1>13 DEF EnqueueLocked
<1> QED BY <1>1, <1>2, <1>3, <1>4, <1>5, <1>6, <1>7, <1>8, <1>9, <1>10, <1>11, <1>12, <1>13
        DEF Next, WorkerPass

\* Only what was queued is dispatched, and it leaves the queue.
LEMMA DispatchStep ==
  ASSUME TypeOK, [Next]_vars
  PROVE  /\ \A r \in Requests :
              dispatched'[r] # dispatched[r] => r \in Live /\ r \notin Live' /\ dispatched'[r]
         /\ \A w \in Workers : \/ batch'[w] \subseteq batch[w]
                               \/ \A r \in batch'[w] : r \in Live /\ dispatched'[r]
<1> USE DEF queueVars, taskVars
<1>1. ASSUME dispatched' = dispatched, \A w \in Workers : batch'[w] \subseteq batch[w]
      PROVE  /\ \A r \in Requests :
                  dispatched'[r] # dispatched[r] => r \in Live /\ r \notin Live' /\ dispatched'[r]
             /\ \A w \in Workers : \/ batch'[w] \subseteq batch[w]
                                   \/ \A r \in batch'[w] : r \in Live /\ dispatched'[r]
  BY <1>1
<1>2. ASSUME NEW v \in Workers, WorkerDispatch(v)
      PROVE  /\ \A r \in Requests :
                  dispatched'[r] # dispatched[r] => r \in Live /\ r \notin Live' /\ dispatched'[r]
             /\ \A w \in Workers : \/ batch'[w] \subseteq batch[w]
                                   \/ \A r \in batch'[w] : r \in Live /\ dispatched'[r]
  <2>1. PICK est, B : B \subseteq Queue(est) /\ Take(v, Queue(est), Swept(est), B)
    BY <1>2 DEF WorkerDispatch
  <2>2. B \subseteq Live /\ \A r \in B : r \notin Live'
    BY <2>1 DEF Take, Queue, Live
  <2> QED BY <2>1, <2>2 DEF Take, TypeOK, Live
<1>3. ASSUME NEW v \in Workers, WorkerCrash(v)
      PROVE  /\ \A r \in Requests :
                  dispatched'[r] # dispatched[r] => r \in Live /\ r \notin Live' /\ dispatched'[r]
             /\ \A w \in Workers : batch'[w] \subseteq batch[w]
  <2>1. PICK est, B :
          /\ B \subseteq Queue(est)
          /\ heap' \cap B = {}
          /\ dispatched' = [r \in Requests |-> r \in B \/ dispatched[r]]
    BY <1>3 DEF WorkerCrash
  <2>2. B \subseteq Live /\ \A r \in B : r \notin Live'
    BY <2>1 DEF Queue, Live
  <2>3. batch' = batch
    BY <1>3 DEF WorkerCrash
  <2> QED BY <2>1, <2>2, <2>3 DEF TypeOK
<1>4. ASSUME NEW r \in Requests, Submit(r) \/ EnqueueLocked(r) \/ Abandon(r)
      PROVE  dispatched' = dispatched /\ batch' = batch
  BY <1>4 DEF Submit, EnqueueLocked, Abandon
<1>5. ASSUME NEW v \in Workers, WorkerExit(v) \/ WorkerIdle(v) \/ WorkerHold(v) \/ WakeUp(v)
                                  \/ WaitFor(v) \/ BackendCancelled(v)
      PROVE  dispatched' = dispatched /\ batch' = batch
  BY <1>5 DEF WorkerExit, WorkerIdle, WorkerHold, SweepOnly, WakeUp, WaitFor, BackendCancelled
<1>6. ASSUME NEW v \in Workers, BackendReturns(v) \/ BackendFails(v)
      PROVE  dispatched' = dispatched /\ \A w \in Workers : batch'[w] \subseteq batch[w]
  <2>1. dispatched' = dispatched /\ batch' = [batch EXCEPT ![v] = {}]
    BY <1>6 DEF BackendReturns, BackendFails, BatchDone
  <2> QED BY <2>1 DEF TypeOK
<1>7. ASSUME Start \/ Tick PROVE dispatched' = dispatched /\ batch' = batch
  BY <1>7 DEF Start, Tick
<1>8. ASSUME NEW c \in Closers, CloseBegin(c) \/ CloseLocked(c) \/ CloseJoins(c)
      PROVE  dispatched' = dispatched /\ batch' = batch
  BY <1>8 DEF CloseBegin, CloseLocked, CloseJoins, CloseReturn, CloseRaise, CloseCancelled
<1>9. ASSUME UNCHANGED vars PROVE dispatched' = dispatched /\ batch' = batch
  BY <1>9 DEF vars
<1>10. ASSUME dispatched' = dispatched, batch' = batch
       PROVE  \A w \in Workers : batch'[w] \subseteq batch[w]
  BY <1>10
<1> QED BY <1>1, <1>2, <1>3, <1>4, <1>5, <1>6, <1>7, <1>8, <1>9, <1>10
        DEF Next, WorkerPass, BackendEnds

-----------------------------------------------------------------------------
(* The inductive invariant.                                                 *)

InLine(t) == \E i \in 1 .. Len(line) : line[i] = t

\* Who leaves the line was its head; who joins it was not there; everybody else
\* in it goes on asking.
LEMMA LineKept ==
  ASSUME TypeOK, LineOK, NEW t \in Tasks,
         \A u \in Tasks \ {t} : InLine(u) => u \in Asking',
         \/ UNCHANGED lockVars /\ (InLine(t) => t \in Asking')
         \/ Arrives(t) /\ ~InLine(t) /\ t \in Asking'
         \/ HasLock(t) /\ Leaves
  PROVE  /\ \A i \in 1 .. Len(line') : line'[i] \in Asking'
         /\ \A i, j \in 1 .. Len(line') : line'[i] = line'[j] => i = j
<1>0. Len(line) \in Nat /\ \A i \in 1 .. Len(line) : line[i] \in Tasks /\ InLine(line[i])
  BY DEF TypeOK, Tasks, InLine
<1>00. \A i, j \in 1 .. Len(line) : line[i] = line[j] => i = j
  BY DEF LineOK
<1>1. CASE UNCHANGED lockVars /\ (InLine(t) => t \in Asking')
  <2>1. line' = line
    BY <1>1 DEF lockVars
  <2> HIDE DEF Asking, InLine, LineOK, TypeOK
  <2>2. \A i \in 1 .. Len(line) : line[i] \in Asking'
    BY <1>0, <1>1, <2>1
  <2> QED BY <1>00, <2>1, <2>2
<1>2. CASE Arrives(t) /\ ~InLine(t) /\ t \in Asking'
  <2>1. /\ Len(line') = Len(line) + 1 /\ line'[Len(line) + 1] = t
        /\ \A i \in 1 .. Len(line) : line'[i] = line[i]
    BY <1>2 DEF Arrives, TypeOK
  <2>2. \A i \in 1 .. Len(line) : line[i] # t
    BY <1>2 DEF InLine
  <2>3. ASSUME NEW i \in 1 .. Len(line') PROVE line'[i] \in Asking'
    <3>1. CASE i = Len(line) + 1
      BY <1>2, <2>1, <3>1
    <3>2. CASE i \in 1 .. Len(line)
      <4>1. line'[i] = line[i] /\ line[i] \in Tasks \ {t} /\ InLine(line[i])
        BY <1>0, <2>1, <2>2, <3>2
      <4> QED BY <4>1
    <3> QED BY <1>0, <2>1, <3>1, <3>2
  <2>4. ASSUME NEW i \in 1 .. Len(line'), NEW j \in 1 .. Len(line'), line'[i] = line'[j]
        PROVE  i = j
    BY <1>0, <1>00, <2>1, <2>2, <2>4
  <2> QED BY <2>3, <2>4
<1>3. CASE HasLock(t) /\ Leaves
  <2>1. /\ Len(line') = Len(line) - 1 /\ t = line[1] /\ Len(line) >= 1
        /\ \A i \in 1 .. Len(line') : line'[i] = line[i + 1] /\ i + 1 \in 1 .. Len(line)
    BY <1>3 DEF HasLock, Leaves, TypeOK
  <2>2. ASSUME NEW i \in 1 .. Len(line') PROVE line'[i] \in Asking'
    <3>1. line'[i] = line[i + 1] /\ i + 1 \in 1 .. Len(line) /\ 1 \in 1 .. Len(line) /\ i + 1 # 1
      BY <1>0, <2>1
    <3>2. line[i + 1] \in Tasks \ {t} /\ InLine(line[i + 1])
      BY <1>0, <1>00, <2>1, <3>1
    <3> QED BY <3>1, <3>2
  <2>3. ASSUME NEW i \in 1 .. Len(line'), NEW j \in 1 .. Len(line'), line'[i] = line'[j]
        PROVE  i = j
    BY <1>0, <1>00, <2>1, <2>3
  <2> QED BY <2>2, <2>3
<1> QED BY <1>1, <1>2, <1>3

\* Every step keeps the line in order.
LEMMA LineOrder ==
  ASSUME TypeOK, LineOK, CallsOK, [Next]_vars
  PROVE  /\ \A i \in 1 .. Len(line') : line'[i] \in Asking'
         /\ \A i, j \in 1 .. Len(line') : line'[i] = line'[j] => i = j
<1> DEFINE Kept == /\ \A i \in 1 .. Len(line') : line'[i] \in Asking'
                   /\ \A i, j \in 1 .. Len(line') : line'[i] = line'[j] => i = j
<1> USE DEF callVars, lifeVars
<1>0. \A t : InLine(t) => t \in Asking /\ t \in Tasks
  BY DEF LineOK, InLine, TypeOK, Tasks
<1>01. Requests \cap Closers = {} /\ Workers \cap (Requests \cup Closers) = {}
  BY ConfigAssumption DEF ConfigAssumption
<1>02. ~(line # <<>>) => \A t : ~InLine(t)
  BY DEF InLine
<1>1. ASSUME UNCHANGED lockVars, \A t \in Tasks : InLine(t) => t \in Asking' PROVE Kept
  <2>1. CASE Tasks = {}
    <3>1. line' = line /\ \A i \in 1 .. Len(line) : FALSE
      BY <1>0, <1>1, <2>1 DEF lockVars, InLine
    <3> QED BY <3>1
  <2>2. CASE Tasks # {}
    <3>1. PICK t \in Tasks : TRUE
      BY <2>2
    <3> HIDE DEF Tasks
    <3> QED BY <1>1, LineKept
  <2> QED BY <2>1, <2>2
<1>2. ASSUME NEW r \in Requests, Submit(r) PROVE Kept
  <2>1. Arrives(r) /\ caller[r] = "new" /\ closer' = closer /\ wstate' = wstate
        /\ caller' = [caller EXCEPT ![r] = "entering"]
    BY <1>2 DEF Submit, taskVars
  <2>2. ~InLine(r) /\ r \in Asking' /\ r \in Tasks
    BY <1>0, <1>01, <2>1 DEF Asking, TypeOK, Tasks
  <2>3. \A u \in Tasks \ {r} : InLine(u) => u \in Asking'
    BY <1>0, <2>1 DEF Asking, TypeOK
  <2> HIDE DEF Asking, InLine, Tasks
  <2> QED BY <2>1, <2>2, <2>3, LineKept
<1>3. ASSUME NEW c \in Closers, CloseBegin(c) PROVE Kept
  <2>1. Arrives(c) /\ closer[c] = "idle" /\ caller' = caller /\ wstate' = wstate
        /\ closer' = [closer EXCEPT ![c] = "locking"]
    BY <1>3 DEF CloseBegin, taskVars
  <2>2. ~InLine(c) /\ c \in Asking' /\ c \in Tasks
    BY <1>0, <1>01, <2>1 DEF Asking, TypeOK, Tasks
  <2>3. \A u \in Tasks \ {c} : InLine(u) => u \in Asking'
    BY <1>0, <2>1 DEF Asking, TypeOK
  <2> HIDE DEF Asking, InLine, Tasks
  <2> QED BY <2>1, <2>2, <2>3, LineKept
<1>4. ASSUME NEW r \in Requests, EnqueueLocked(r) PROVE Kept
  <2>1. /\ HasLock(r) /\ Leaves /\ closer' = closer
        /\ caller' = [caller EXCEPT ![r] = "submitted"]
        /\ \A w \in Workers : wstate[w] \in {"ready", "waking"} => wstate'[w] = wstate[w]
    BY <1>4 DEF EnqueueLocked, RejectOutOfOrder, RejectOverloaded, Admit, NotifyOne, Waiting, TypeOK
  <2>2. \A u \in Tasks \ {r} : InLine(u) => u \in Asking'
    BY <1>0, <2>1 DEF Asking, TypeOK
  <2>3. r \in Tasks
    BY DEF Tasks
  <2> HIDE DEF Asking, InLine, Tasks
  <2> QED BY <2>1, <2>2, <2>3, LineKept
<1>5. ASSUME NEW c \in Closers, CloseLocked(c) PROVE Kept
  <2>1. /\ HasLock(c) /\ Leaves /\ caller' = caller
        /\ closer' = [closer EXCEPT ![c] = "joining"]
        /\ \A w \in Workers : wstate[w] \in {"ready", "waking"} => wstate'[w] = wstate[w]
    BY <1>5 DEF CloseLocked, NotifyAll, Waiting, TypeOK
  <2>2. \A u \in Tasks \ {c} : InLine(u) => u \in Asking'
    BY <1>0, <2>1 DEF Asking, TypeOK
  <2>3. c \in Tasks
    BY DEF Tasks
  <2> HIDE DEF Asking, InLine, Tasks
  <2> QED BY <2>1, <2>2, <2>3, LineKept
<1>6. ASSUME NEW w \in Workers, WorkerPass(w) PROVE Kept
  <2>1. /\ caller' = caller /\ closer' = closer
        /\ \A v \in Workers \ {w} : wstate'[v] = wstate[v]
    BY <1>6 DEF WorkerPass, WorkerExit, WorkerIdle, WorkerHold, WorkerDispatch, WorkerCrash,
                SweepOnly, Becomes, TypeOK
  <2>2. \A u \in Tasks \ {w} : InLine(u) => u \in Asking'
    BY <1>0, <2>1 DEF Asking, TypeOK
  <2>3. w \in Tasks
    BY DEF Tasks
  <2>4. \/ UNCHANGED lockVars /\ ~InLine(w)
        \/ HasLock(w) /\ Leaves
    BY <1>0, <1>01, <1>02, <1>6, PassLine DEF Runs, LockFree, Asking
  <2> HIDE DEF Asking, InLine, Tasks
  <2> QED BY <2>2, <2>3, <2>4, LineKept
<1>7. ASSUME NEW w \in Workers, WakeUp(w) \/ BackendEnds(w) PROVE Kept
  <2>1. /\ UNCHANGED lockVars /\ caller' = caller /\ closer' = closer
        /\ wstate[w] \in {"timed", "executing"}
        /\ \A v \in Workers \ {w} : wstate'[v] = wstate[v]
    BY <1>7 DEF WakeUp, BackendEnds, BackendReturns, BackendFails, BackendCancelled, BatchDone, TypeOK
  <2>2. \A t \in Tasks : InLine(t) => t \in Asking'
    BY <1>0, <1>01, <2>1 DEF Asking
  <2> QED BY <1>1, <2>1, <2>2
<1>8. ASSUME NEW w \in Workers, WaitFor(w) PROVE Kept
  <2>1. /\ LockYields /\ caller' = caller /\ closer' = closer
        /\ \A v \in Workers \ {w} : wstate'[v] = wstate[v]
    BY <1>8 DEF WaitFor, WaitBegins, WaitEnds, WorkerQueues, TypeOK
  <2>2. \A u \in Tasks \ {w} : InLine(u) => u \in Asking'
    BY <1>0, <2>1 DEF Asking, TypeOK
  <2>3. w \in Tasks
    BY DEF Tasks
  <2>4. CASE WaitBegins(w)
    BY <1>0, <1>01, <2>2, <2>3, <2>4, LineKept DEF WaitBegins, Asking
  <2>5. CASE WaitEnds(w)
    <3>1. (UNCHANGED lockVars /\ ~InLine(w)) \/ (HasLock(w) /\ Leaves)
      BY <1>02, <2>5 DEF WaitEnds, LockFree
    <3> HIDE DEF Asking, InLine, Tasks
    <3> QED BY <2>2, <2>3, <3>1, LineKept
  <2>6. CASE WorkerQueues(w)
    <3>1. Arrives(w) /\ ~InLine(w) /\ w \in Asking'
      BY <2>1, <2>6 DEF WorkerQueues, InLine, Asking, TypeOK
    <3> HIDE DEF Asking, InLine, Tasks
    <3> QED BY <2>2, <2>3, <3>1, LineKept
  <2> QED BY <1>8, <2>4, <2>5, <2>6 DEF WaitFor
<1>9. ASSUME NEW c \in Closers, CloseJoins(c) PROVE Kept
  <2>1. /\ UNCHANGED lockVars /\ caller' = caller /\ closer[c] = "joining"
        /\ \A d \in Closers \ {c} : closer'[d] = closer[d]
        /\ \A w \in Workers : InLine(w) => wstate'[w] = wstate[w]
    BY <1>9 DEF CloseJoins, CloseReturn, CloseRaise, CloseCancelled, taskVars, InLine, TypeOK
  <2>2. \A t \in Tasks : InLine(t) => t \in Asking'
    BY <1>0, <1>01, <2>1 DEF Asking
  <2> QED BY <1>1, <2>1, <2>2
<1>10. ASSUME Start PROVE Kept
  <2>1. /\ UNCHANGED lockVars /\ caller' = caller /\ closer' = closer
        /\ \A w \in Workers : wstate[w] # "unborn" => wstate'[w] = wstate[w]
    BY <1>10 DEF Start, TypeOK
  <2>2. \A t \in Tasks : InLine(t) => t \in Asking'
    BY <1>0, <1>01, <2>1 DEF Asking
  <2> QED BY <1>1, <2>1, <2>2
<1>11. ASSUME Tick \/ (\E r \in Requests : Abandon(r)) \/ UNCHANGED vars PROVE Kept
  <2>1. UNCHANGED <<lockVars, caller, closer, wstate>>
    BY <1>11 DEF Tick, Abandon, vars, taskVars
  <2>2. \A t \in Tasks : InLine(t) => t \in Asking'
    BY <1>0, <2>1 DEF Asking
  <2> QED BY <1>1, <2>1, <2>2
<1> HIDE DEF Kept
<1>12. Kept
  BY <1>2, <1>3, <1>4, <1>5, <1>6, <1>7, <1>8, <1>9, <1>10, <1>11 DEF Next
<1> QED BY <1>12 DEF Kept

\* Where the lock is never found taken nobody is suspended at it.
LEMMA NobodyParked ==
  ASSUME TypeOK, LineOK, ~LockYields, [Next]_vars
  PROVE  ~parked' /\ \A w \in Workers : wstate'[w] \notin {"settling", "waking", "holding"}
<1>0. /\ ~parked /\ ~LockHeld /\ \A w \in Workers : wstate[w] \notin {"settling", "waking", "holding"}
  BY DEF LineOK, LockHeld
<1>1. ~parked'
  <2>1. ASSUME Leaves \/ UNCHANGED lockVars PROVE ~parked'
    BY <1>0, <2>1 DEF Leaves, lockVars
  <2>2. ASSUME NEW t, LoopFree, Arrives(t) PROVE ~parked'
    BY <1>0, <2>2 DEF LoopFree, Arrives
  <2>3. ASSUME NEW r \in Requests, Submit(r) PROVE ~parked'
    BY <2>2, <2>3 DEF Submit
  <2>4. ASSUME NEW c \in Closers, CloseBegin(c) PROVE ~parked'
    BY <2>2, <2>4 DEF CloseBegin
  <2>5. ASSUME NEW r \in Requests, EnqueueLocked(r) \/ Abandon(r) PROVE ~parked'
    BY <2>1, <2>5 DEF EnqueueLocked, Abandon
  <2>6. ASSUME NEW c \in Closers, CloseLocked(c) \/ CloseJoins(c) PROVE ~parked'
    BY <2>1, <2>6 DEF CloseLocked, CloseJoins, CloseReturn, CloseRaise, CloseCancelled
  <2>7. ASSUME NEW w \in Workers, WorkerPass(w) PROVE ~parked'
    BY <2>1, <2>7, PassLine
  <2>8. ASSUME NEW w \in Workers, WakeUp(w) \/ BackendEnds(w) PROVE ~parked'
    BY <2>1, <2>8 DEF WakeUp, BackendEnds, BackendReturns, BackendFails, BackendCancelled, BatchDone
  <2>9. ASSUME Start \/ Tick \/ UNCHANGED vars PROVE ~parked'
    BY <2>1, <2>9 DEF Start, Tick, vars
  <2>10. \A w \in Workers : ~WaitFor(w)
    BY DEF WaitFor
  <2> QED BY <2>3, <2>4, <2>5, <2>6, <2>7, <2>8, <2>9, <2>10 DEF Next
<1>2. ASSUME NEW v \in Workers PROVE wstate'[v] \notin {"settling", "waking", "holding"}
  <2>1. ASSUME wstate' = wstate PROVE wstate'[v] \notin {"settling", "waking", "holding"}
    BY <1>0, <2>1
  <2>2. ASSUME NEW w \in Workers, NEW state, state \notin {"settling", "waking", "holding"},
               wstate' = [wstate EXCEPT ![w] = state]
        PROVE  wstate'[v] \notin {"settling", "waking", "holding"}
    BY <1>0, <2>2 DEF TypeOK
  <2>3. \A w : Woken(w) = "ready"
    BY DEF Woken
  <2>4. ASSUME NEW r \in Requests, Submit(r) \/ Abandon(r) PROVE wstate' = wstate
    BY <2>4 DEF Submit, Abandon, taskVars
  <2>5. ASSUME NEW r \in Requests, EnqueueLocked(r)
        PROVE  wstate'[v] \notin {"settling", "waking", "holding"}
    BY <2>1, <2>2, <2>3, <2>5 DEF EnqueueLocked, RejectOutOfOrder, RejectOverloaded, Admit, NotifyOne
  <2>6. ASSUME NEW w \in Workers, WorkerPass(w)
        PROVE  wstate'[v] \notin {"settling", "waking", "holding"}
    <3>1. PICK state \in {"done", "idle", "timed", "executing", "failed"} :
            wstate' = [wstate EXCEPT ![w] = state]
      BY <2>6 DEF WorkerPass, WorkerExit, WorkerIdle, WorkerHold, WorkerDispatch, WorkerCrash, Becomes
    <3> QED BY <2>2, <3>1
  <2>7. ASSUME NEW w \in Workers, WakeUp(w)
        PROVE  wstate'[v] \notin {"settling", "waking", "holding"}
    BY <2>2, <2>3, <2>7 DEF WakeUp
  <2>8. ASSUME NEW w \in Workers, BackendEnds(w)
        PROVE  wstate'[v] \notin {"settling", "waking", "holding"}
    BY <2>2, <2>8 DEF BackendEnds, BackendReturns, BackendFails, BackendCancelled, BatchDone
  <2>9. ASSUME Start \/ Tick \/ UNCHANGED vars
        PROVE  wstate'[v] \notin {"settling", "waking", "holding"}
    BY <2>1, <2>2, <2>9 DEF Start, Tick, vars, taskVars
  <2>10. ASSUME NEW c \in Closers, CloseBegin(c) \/ CloseJoins(c)
         PROVE  wstate'[v] \notin {"settling", "waking", "holding"}
    BY <1>0, <2>10 DEF CloseBegin, CloseJoins, CloseReturn, CloseRaise, CloseCancelled, taskVars, TypeOK
  <2>11. ASSUME NEW c \in Closers, CloseLocked(c)
         PROVE  wstate'[v] \notin {"settling", "waking", "holding"}
    BY <1>0, <2>3, <2>11 DEF CloseLocked, NotifyAll
  <2>12. \A w \in Workers : ~WaitFor(w)
    BY DEF WaitFor
  <2> QED BY <2>1, <2>4, <2>5, <2>6, <2>7, <2>8, <2>9, <2>10, <2>11, <2>12 DEF Next
<1> QED BY <1>1, <1>2

\* Every step keeps the invariant of the line.
LEMMA LineStep ==
  ASSUME TypeOK, LineOK, CallsOK, [Next]_vars
  PROVE  LineOK'
BY LineOrder, NobodyParked DEF LineOK

\* A call gets its request before the lock, and its outcome after it.
LEMMA CallsStep ==
  ASSUME TypeOK, LineOK, CallsOK, QueueOK, [Next]_vars
  PROVE  CallsOK'
<1> SUFFICES ASSUME NEW r \in Requests
             PROVE  /\ caller'[r] # "new" => request'[r] \in Request
                    /\ caller'[r] # "submitted" => outcome'[r] = Pending /\ ~dispatched'[r]
                    /\ outcome'[r].status = "PENDING" => outcome'[r].action = None
  BY DEF CallsOK, Request
<1>1. caller'[r] # "new" => request'[r] \in Request
  BY CallStep DEF CallsOK
<1>2. ASSUME caller'[r] # "submitted" PROVE outcome'[r] = Pending /\ ~dispatched'[r]
  <2>1. caller[r] # "submitted"
    BY <1>2, CallStep
  <2>2. outcome[r] = Pending /\ ~dispatched[r]
    BY <2>1 DEF CallsOK
  <2>3. ~Moves(r)
    BY <1>2, <2>1 DEF Moves, ShedNow, TurnedNow, DoneNow, GivenUp, QueueOK
  <2>4. outcome'[r] = outcome[r]
    BY <2>3, OutcomeStep DEF OutcomesMove
  <2>5. dispatched'[r] = dispatched[r]
    BY <2>1, DispatchStep DEF QueueOK
  <2> QED BY <2>2, <2>4, <2>5
<1>3. ASSUME outcome'[r].status = "PENDING" PROVE outcome'[r].action = None
  <2>1. ~Moves(r)
    BY <1>3 DEF Moves, ShedNow, TurnedNow, DoneNow, GivenUp, Contract!Shed,
       Contract!TurnedAway, Contract!Executed
  <2>2. outcome'[r] = outcome[r]
    BY <2>1, OutcomeStep DEF OutcomesMove
  <2> QED BY <1>3, <2>2 DEF CallsOK
<1> QED BY <1>1, <1>2, <1>3

\* What Admit does to the queue.
LEMMA AdmitQueue ==
  ASSUME TypeOK, LineOK, CallsOK, NEW r \in Requests, EnqueueLocked(r), Admit(r)
  PROVE  /\ request[r] \in Request /\ caller[r] = "entering" /\ caller'[r] = "submitted"
         /\ outcome[r] = Pending /\ ~dispatched[r] /\ UNCHANGED <<request, dispatched, batch>>
         /\ Live' \subseteq (Live \ Expired) \cup {r}
         /\ Previous(r) # None => Previous(r) \notin Live'
         /\ latest' = [latest EXCEPT ![request[r].session] = request[r].seq]
         /\ \A s \in Sessions : s # request[r].session =>
              pendingOf'[s] = IF pendingOf[s] \in Expired THEN None ELSE pendingOf[s]
         /\ Coalesce => pendingOf'[request[r].session] = r
         /\ ~Coalesce => pendingOf'[request[r].session] \in {pendingOf[request[r].session], None}
<1>1. /\ request[r] \in Request /\ caller[r] = "entering" /\ caller'[r] = "submitted"
      /\ outcome[r] = Pending /\ ~dispatched[r] /\ UNCHANGED <<request, dispatched, batch>>
  BY LineHead DEF EnqueueLocked, TypeOK
<1>2. Live' \subseteq (Live \ Expired) \cup {r}
  BY DEF Admit, Live, Deactivate, TypeOK
<1>3. Previous(r) # None => Previous(r) \notin Live'
  <2>1. ASSUME Previous(r) # None PROVE ~active'[Previous(r)]
    <3>1. Previous(r) \in Requests
      BY <1>1, <2>1 DEF Previous, Request, TypeOK
    <3>2. active' = Deactivate(Expired \cup {Previous(r)})
      BY <2>1 DEF Admit
    <3> QED BY <3>1, <3>2 DEF Deactivate
  <2> QED BY <2>1 DEF Live
<1>4. latest' = [latest EXCEPT ![request[r].session] = request[r].seq]
  BY DEF Admit
<1>5. pendingOf' = IF Coalesce THEN [ClearPointers(Expired) EXCEPT ![request[r].session] = r]
                               ELSE ClearPointers(Expired)
  BY DEF Admit
<1>6. request[r].session \in Sessions
  BY <1>1 DEF Request
<1> QED BY <1>1, <1>2, <1>3, <1>4, <1>5, <1>6 DEF ClearPointers

\* What is queued, executed or pointed to stays so for the right calls.
LEMMA QueueOKStep ==
  ASSUME TypeOK, LineOK, CallsOK, QueueOK, [Next]_vars
  PROVE  QueueOK'
<1>1. \A r \in Requests : caller[r] = "submitted" =>
                            caller'[r] = "submitted" /\ request'[r] = request[r]
  BY CallStep
<1>2. \A r \in Live' : caller'[r] = "submitted" /\ ~dispatched'[r]
  <2>1. CASE \E G : Shrinks(G)
    BY <1>1, <2>1, DispatchStep DEF Shrinks, QueueOK, Live, TypeOK
  <2>2. ASSUME NEW q \in Requests, EnqueueLocked(q), Admit(q)
        PROVE  \A r \in Live' : caller'[r] = "submitted" /\ ~dispatched'[r]
    <3>1. /\ Live' \subseteq Live \cup {q} /\ dispatched' = dispatched
          /\ caller'[q] = "submitted" /\ ~dispatched[q]
      BY <2>2, AdmitQueue
    <3>2. Live \subseteq Requests
      BY DEF Live, TypeOK
    <3> HIDE DEF Live
    <3> QED BY <1>1, <3>1, <3>2 DEF QueueOK
  <2> QED BY <2>1, <2>2, QueueStep
<1>3. \A w \in Workers : \A r \in batch'[w] : caller'[r] = "submitted" /\ dispatched'[r]
  BY <1>1, DispatchStep DEF QueueOK, Live, TypeOK
<1>4. \A s \in Sessions :
        pendingOf'[s] # None =>
          caller'[pendingOf'[s]] = "submitted" /\ request'[pendingOf'[s]].session = s
  <2>1. CASE \E G : Shrinks(G)
    BY <1>1, <2>1 DEF Shrinks, QueueOK, TypeOK
  <2>2. ASSUME NEW q \in Requests, EnqueueLocked(q), Admit(q), NEW s \in Sessions,
               pendingOf'[s] # None
        PROVE  caller'[pendingOf'[s]] = "submitted" /\ request'[pendingOf'[s]].session = s
    <3>1. CASE pendingOf'[s] = pendingOf[s]
      BY <1>1, <2>2, <3>1 DEF QueueOK, TypeOK
    <3>2. CASE pendingOf'[s] = q /\ s = request[q].session
      BY <2>2, <3>2, AdmitQueue
    <3> QED BY <2>2, <3>1, <3>2, AdmitQueue
  <2> QED BY <2>1, <2>2, QueueStep
<1> QED BY <1>2, <1>3, <1>4 DEF QueueOK

\* Sequence numbers and what the sessions remember of them are integers.
LEMMA SeqNosAreIntegers ==
  ASSUME TypeOK
  PROVE  /\ \A n \in SeqNos : n \in Int /\ n >= 0
         /\ \A s \in Sessions : latest[s] \in Int /\ latest[s] >= NoSeq
         /\ \A x \in Request : x.seq \in SeqNos /\ x.session \in Sessions
<1>1. SeqNos \subseteq Nat
  BY ConfigAssumption DEF ConfigAssumption
<1>2. \A n \in SeqNos : n \in Int /\ n >= 0
  BY <1>1
<1>3. latest \in [Sessions -> SeqNos \cup {NoSeq}]
  BY DEF TypeOK
<1>4. \A s \in Sessions : latest[s] \in SeqNos \/ latest[s] = NoSeq
  BY <1>3
<1>5. \A s \in Sessions : latest[s] \in Int /\ latest[s] >= NoSeq
  BY <1>2, <1>4 DEF NoSeq
<1> QED BY <1>2, <1>5 DEF Request

\* Only enqueue() admits a request, and it admits the one it was called with.
LEMMA AdmittedStep ==
  ASSUME TypeOK, LineOK, CallsOK, QueueOK, [Next]_vars,
         NEW r \in Requests, Admitted(r)', ~Admitted(r)
  PROVE  EnqueueLocked(r) /\ Admit(r)
<1>1. outcome[r].status \notin {"OUT_OF_ORDER", "OVERLOADED"}
  <2>1. CASE caller[r] = "submitted"
    <3>1. outcome'[r] = outcome[r] \/ outcome[r].status = "PENDING"
      BY OutcomeStep DEF OutcomesMove, Moves
    <3> QED BY <2>1, <3>1 DEF Admitted
  <2>2. CASE caller[r] # "submitted"
    BY <2>2 DEF CallsOK, Pending, Result
  <2> QED BY <2>1, <2>2
<1>2. EnqueueLocked(r) /\ outcome[r] = Pending
  BY <1>1, CallStep DEF Admitted, CallsOK
<1>3. ASSUME RejectOutOfOrder(r) PROVE FALSE
  <2>1. Write(Finish(Book, All({r}, "OUT_OF_ORDER"))) /\ "OUT_OF_ORDER" \in Statuses
    BY <1>3 DEF RejectOutOfOrder, Statuses
  <2>2. IsBook(Book) /\ Book.outcome = outcome /\ outcome[r].status = "PENDING"
    BY <1>2, BookTyped DEF Pending, Result
  <2>3. outcome'[r] = Result("OUT_OF_ORDER", None, None)
    BY <2>1, <2>2, WriteAllEffect
  <2> QED BY <2>3 DEF Admitted, Result
<1>4. ASSUME RejectOverloaded(r) PROVE FALSE
  <2>1. Write(Finish(ExpiredBook, All({r}, "OVERLOADED"))) /\ "OVERLOADED" \in Statuses
    BY <1>4 DEF RejectOverloaded, Statuses, ExpiredBook
  <2>2. r \notin Expired
    BY <1>2, LineHead DEF EnqueueLocked, Expired, QueueOK
  <2>3. IsBook(ExpiredBook) /\ ExpiredBook.outcome[r].status = "PENDING"
    BY <1>2, <2>2, ExpiredEffect DEF Pending, Result
  <2>4. outcome'[r] = Result("OVERLOADED", None, None)
    BY <2>1, <2>3, WriteAllEffect
  <2> QED BY <2>4 DEF Admitted, Result
<1> QED BY <1>2, <1>3, <1>4 DEF EnqueueLocked

\* An admitted sequence number was above every one admitted before it.
LEMMA LatestStep ==
  ASSUME TypeOK, LineOK, CallsOK, QueueOK, LatestOK, [Next]_vars
  PROVE  LatestOK' /\ \A s \in Sessions : Enforce => latest'[s] >= latest[s]
<1>1. ASSUME NEW r \in Requests, Admitted(r)
      PROVE  request'[r] = request[r] /\ request[r] \in Request
  BY <1>1, CallStep DEF Admitted, CallsOK
<1>2. ASSUME NEW r \in Requests, Admitted(r)', ~Admitted(r)
      PROVE  EnqueueLocked(r) /\ Admit(r)
  BY <1>2, AdmittedStep
<1>3. CASE latest' = latest /\ \A r \in Requests : Admitted(r)' => Admitted(r)
  <2>1. LatestOK'
    BY <1>1, <1>3 DEF LatestOK, Admitted
  <2>2. \A s \in Sessions : latest[s] \in Int
    BY SeqNosAreIntegers
  <2> QED BY <1>3, <2>1, <2>2
<1>4. ASSUME NEW q \in Requests, EnqueueLocked(q), Admit(q)
      PROVE  LatestOK' /\ \A s \in Sessions : Enforce => latest'[s] >= latest[s]
  <2>1. request[q] \in Request /\ request' = request /\ caller[q] = "entering"
        /\ latest' = [latest EXCEPT ![request[q].session] = request[q].seq]
    BY <1>4, AdmitQueue
  <2>2. \A s \in Sessions : latest[s] \in Int
    BY SeqNosAreIntegers
  <2>3. \A s \in Sessions : latest'[s] =
          IF s = request[q].session THEN request[q].seq ELSE latest[s]
    BY <2>1 DEF TypeOK
  <2>4. request[q].session \in Sessions /\ request[q].seq \in Int /\ request[q].seq >= 0
    BY <2>1, SeqNosAreIntegers
  <2>5. Enforce => latest[request[q].session] <= request[q].seq
    BY <1>4, <2>2, <2>4 DEF Admit, OutOfOrder, NoSeq
  <2>6. \A s \in Sessions : Enforce => latest'[s] >= latest[s]
    BY <2>2, <2>3, <2>4, <2>5
  <2>7. ASSUME Enforce, NEW r \in Requests, Admitted(r)'
        PROVE  request'[r].seq <= latest'[request'[r].session]
    <3>1. CASE r = q
      BY <2>1, <2>3, <2>4, <3>1
    <3>2. CASE r # q
      <4>1. Admitted(r)
        BY <1>2, <2>7, <3>2, CallStep, <1>4, LineHead DEF EnqueueLocked, HasLock
      <4>2. request[r] \in Request /\ request[r].seq <= latest[request[r].session]
        BY <1>1, <2>7, <4>1 DEF LatestOK
      <4>3. request[r].seq \in Int /\ request[r].session \in Sessions
            /\ latest[request[r].session] \in Int /\ latest'[request[r].session] \in Int
        BY <2>2, <2>3, <2>4, <4>2, SeqNosAreIntegers
      <4> QED BY <2>1, <2>6, <2>7, <4>2, <4>3
    <3> QED BY <3>1, <3>2
  <2> QED BY <2>6, <2>7 DEF LatestOK
<1>5. CASE \E G : Shrinks(G)
  <2>1. CASE \A r \in Requests : Admitted(r)' => Admitted(r)
    BY <1>3, <1>5, <2>1 DEF Shrinks
  <2>2. CASE \E r \in Requests : Admitted(r)' /\ ~Admitted(r)
    BY <1>2, <1>4, <2>2
  <2> QED BY <2>1, <2>2
<1> QED BY <1>4, <1>5, QueueStep

\* An observation that is queued replaces the one its session points to.
LEMMA PointedStep ==
  ASSUME TypeOK, LineOK, CallsOK, QueueOK, QueuedIsPointed, [Next]_vars
  PROVE  QueuedIsPointed'
<1> SUFFICES ASSUME Coalesce, NEW r \in Live' PROVE pendingOf'[request'[r].session] = r
  BY DEF QueuedIsPointed
<1>1. CASE \E G : Shrinks(G)
  <2>1. PICK G : Shrinks(G)
    BY <1>1
  <2>2. r \in Live /\ r \notin G /\ r \in Requests /\ Live' # {}
    BY <2>1 DEF Shrinks, Live, TypeOK
  <2>3. request'[r] = request[r] /\ request[r] \in Request /\ pendingOf[request[r].session] = r
    BY <2>2, CallStep DEF QueueOK, CallsOK, QueuedIsPointed
  <2> QED BY <2>1, <2>2, <2>3 DEF Shrinks, Request
<1>2. ASSUME NEW q \in Requests, EnqueueLocked(q), Admit(q)
      PROVE  pendingOf'[request'[r].session] = r
  <2>1. CASE r = q
    BY <1>2, <2>1, AdmitQueue
  <2>2. CASE r # q
    <3>1. r \in Live /\ r \notin Expired /\ r \in Requests /\ request' = request
      BY <1>2, <2>2, AdmitQueue DEF Live, TypeOK
    <3>2. request[r] \in Request /\ pendingOf[request[r].session] = r /\ active[r]
          /\ ~dispatched[r]
      BY <3>1 DEF QueueOK, CallsOK, QueuedIsPointed, Live
    <3>3. request[r].session # request[q].session
      <4>1. ASSUME request[r].session = request[q].session PROVE FALSE
        <5>1. Previous(q) = r /\ r # None
          BY <3>1, <3>2, <4>1, ConfigAssumption DEF Previous, ConfigAssumption
        <5> QED BY <1>2, <5>1, AdmitQueue
      <4> QED BY <4>1
    <3> QED BY <1>2, <3>1, <3>2, <3>3, AdmitQueue DEF Request
  <2> QED BY <2>1, <2>2
<1> QED BY <1>1, <1>2, QueueStep

\* The observation that enqueue() admits is the newest of its session, and the
\* sweeps only take observations away.
LEMMA NewestStep ==
  ASSUME TypeOK, LineOK, CallsOK, QueueOK, LatestOK, QueuedIsPointed, QueuedIsNewest,
         [Next]_vars
  PROVE  QueuedIsNewest'
<1> SUFFICES ASSUME Coalesce, Enforce, NEW r \in Live', NEW d \in Requests,
                    Admitted(d)', d # r, SameSession(d, r)'
             PROVE  request'[d].seq < request'[r].seq
  BY DEF QueuedIsNewest
<1>1. ASSUME NEW e \in Requests, caller[e] # "new"
      PROVE  request'[e] = request[e] /\ request[e] \in Request
  BY <1>1, CallStep DEF CallsOK
<1>2. ASSUME r \in Live, Admitted(d) PROVE request'[d].seq < request'[r].seq
  <2>1. r \in Requests /\ caller[r] # "new" /\ caller[d] # "new"
    BY <1>2 DEF QueueOK, Live, TypeOK, Admitted
  <2>2. request'[r] = request[r] /\ request'[d] = request[d] /\ SameSession(d, r)
    BY <1>1, <2>1 DEF SameSession
  <2> QED BY <1>2, <2>2 DEF QueuedIsNewest
<1>3. CASE \E q \in Requests : EnqueueLocked(q) /\ Admit(q)
  <2>1. PICK q \in Requests : EnqueueLocked(q) /\ Admit(q)
    BY <1>3
  <2>2. /\ request[q] \in Request /\ request' = request /\ r \in Live \cup {q}
        /\ Previous(q) # r \/ r = None \/ r = q
    BY <2>1, AdmitQueue, ConfigAssumption DEF ConfigAssumption
  <2>3. d # q => Admitted(d)
    BY <2>1, AdmittedStep DEF EnqueueLocked, HasLock
  <2>4. CASE r = q
    <3>1. Admitted(d) /\ request[d] \in Request /\ request[d].session = request[q].session
      BY <1>1, <2>2, <2>3, <2>4 DEF Admitted, SameSession
    <3>2. request[d].seq <= latest[request[q].session]
      BY <3>1 DEF LatestOK
    <3>3. /\ request[d].seq \in Int /\ request[d].seq >= 0 /\ request[q].seq \in Int
          /\ latest[request[q].session] \in Int
      BY <2>2, <3>1, SeqNosAreIntegers
    <3>4. ~(latest[request[q].session] # NoSeq
             /\ request[q].seq <= latest[request[q].session])
      BY <2>1 DEF Admit, OutOfOrder
    <3>5. request[d].seq < request[q].seq
      BY <3>2, <3>3, <3>4 DEF NoSeq
    <3> QED BY <2>2, <2>4, <3>5
  <2>5. CASE r # q
    <3>1. r \in Live /\ r \in Requests /\ caller[r] # "new"
      BY <2>2, <2>5 DEF Live, TypeOK, QueueOK
    <3>2. d # q
      <4>1. SUFFICES ASSUME d = q PROVE FALSE
        OBVIOUS
      <4>2. pendingOf[request[q].session] = r
        BY <1>1, <2>2, <3>1, <4>1 DEF QueuedIsPointed, SameSession
      <4>3. Previous(q) = r /\ r # None
        BY <3>1, <4>2, ConfigAssumption DEF Previous, Live, QueueOK, ConfigAssumption
      <4> QED BY <2>2, <2>5, <4>3
    <3> QED BY <1>2, <2>3, <3>1, <3>2
  <2> QED BY <2>4, <2>5
<1>4. CASE ~ \E q \in Requests : EnqueueLocked(q) /\ Admit(q)
  <2>1. PICK G : Shrinks(G)
    BY <1>4, QueueStep
  <2>2. r \in Live /\ Admitted(d)
    BY <1>4, <2>1, AdmittedStep DEF Shrinks
  <2> QED BY <1>2, <2>2
<1> QED BY <1>3, <1>4

-----------------------------------------------------------------------------
(* The theorems.                                                            *)

\* A scheduler that was just created has no request, so nothing to order.
LEMMA InitIInv == Init => IInv
<1> SUFFICES ASSUME Init PROVE IInv
  OBVIOUS
<1>1. TypeOK
  <2>1. Pending \in Outcome
    BY DEF Pending, Result, Outcome
  <2>2. line \in Seq(Requests \cup Closers \cup Workers) /\ heap \in SUBSET Requests
    BY DEF Init
  <2>3. latest \in [Sessions -> SeqNos \cup {NoSeq}] /\ wake \in [Workers -> Int]
    BY DEF Init, NoTime
  <2> QED BY <2>1, <2>2, <2>3 DEF Init, TypeOK, WorkerStates
<1>2. LineOK
  BY DEF Init, LineOK
<1>3. \A r \in Requests : caller[r] = "new" /\ outcome[r] = Pending /\ ~dispatched[r]
  BY DEF Init
<1>4. Live = {} /\ (\A w \in Workers : batch[w] = {}) /\ (\A s \in Sessions : pendingOf[s] = None)
  BY DEF Init, Live
<1>5. CallsOK /\ QueueOK
  BY <1>3, <1>4 DEF CallsOK, QueueOK, Pending, Result
<1>6. LatestOK /\ QueuedIsPointed /\ QueuedIsNewest
  BY <1>3, <1>4 DEF LatestOK, Admitted, QueuedIsPointed, QueuedIsNewest
<1> QED BY <1>1, <1>2, <1>5, <1>6 DEF IInv

\* Every step keeps the inductive invariant.
LEMMA NextIInv == IInv /\ [Next]_vars => IInv'
BY TypeStep, LineStep, CallsStep, QueueOKStep, LatestStep, PointedStep, NewestStep DEF IInv

\* The invariant on which every safety theorem rests holds in every state.
THEOREM Invariant == Spec => []IInv
BY InitIInv, NextIInv, PTL DEF Spec

\* Every variable keeps its type; no future holds a foreign action.
THEOREM TypeCorrect == Spec => []TypeOK
<1>1. IInv => TypeOK
  BY DEF IInv
<1> QED BY <1>1, Invariant, PTL

\* With coalescing the session pointer finds every queued observation.
THEOREM OnePerSession == Spec => []QueuedIsPointed
<1>1. IInv => QueuedIsPointed
  BY DEF IInv
<1> QED BY <1>1, Invariant, PTL

\* No frame is queued, hence none executed, once a newer one of its session was
\* admitted.
THEOREM NewestOnly == Spec => []QueuedIsNewest
<1>1. IInv => QueuedIsNewest
  BY DEF IInv
<1> QED BY <1>1, Invariant, PTL

\* A future that is resolved stays as it is.
THEOREM ResolvedOnce == Spec => OutcomeFinal
<1>1. IInv /\ [Next]_vars =>
        [\A r \in Requests : outcome[r].status # "PENDING" => outcome'[r] = outcome[r]]_vars
  BY OutcomeStep DEF IInv, OutcomesMove, Moves
<1> QED BY <1>1, Invariant, PTL DEF Spec, OutcomeFinal

\* The newest sequence number of a session never goes back.
THEOREM LatestNeverGoesBack == Spec => SequenceMonotonic
<1>1. IInv /\ [Next]_vars => [Enforce => \A s \in Sessions : latest'[s] >= latest[s]]_vars
  BY LatestStep DEF IInv
<1> QED BY <1>1, Invariant, PTL DEF Spec, SequenceMonotonic

\* No envelope is handed to the backend twice.
THEOREM ExecutedOnce == Spec => DispatchedOnce
<1>1. ASSUME IInv, [Next]_vars, NEW r \in Requests, NEW w \in Workers,
             dispatched[r], r \notin batch[w], r \in batch'[w]
      PROVE  FALSE
  <2>1. r \in Live
    BY <1>1, DispatchStep DEF IInv
  <2> QED BY <1>1, <2>1 DEF IInv, QueueOK
<1>2. IInv /\ [Next]_vars =>
        [\A r \in Requests, w \in Workers :
           dispatched[r] /\ r \notin batch[w] => r \notin batch'[w]]_vars
  BY <1>1
<1> QED BY <1>2, Invariant, PTL DEF Spec, DispatchedOnce

\* An action reaches only the request it names, from the worker that executes
\* it, and in time when late actions are dropped.
THEOREM ActionsSafe == Spec => ActionsAreSafe
<1>1. ASSUME IInv, [Next]_vars, NEW r \in Requests, outcome'[r].action # outcome[r].action
      PROVE  /\ outcome'[r].action = r
             /\ dispatched[r]
             /\ \E w \in Workers : wstate[w] = "executing" /\ r \in batch[w]
             /\ DropMissed => now <= request[r].deadline
  <2>1. Moves(r) /\ outcome[r].action = None
    BY <1>1, OutcomeStep DEF IInv, OutcomesMove, Moves, CallsOK
  <2>2. DoneNow(r)
    BY <1>1, <2>1 DEF Moves, ShedNow, TurnedNow, GivenUp
  <2>3. dispatched[r]
    BY <1>1, <2>2 DEF DoneNow, IInv, QueueOK
  <2> QED BY <1>1, <2>1, <2>2, <2>3 DEF DoneNow
<1>2. IInv /\ [Next]_vars =>
        [\A r \in Requests :
           outcome'[r].action # outcome[r].action =>
             /\ outcome'[r].action = r
             /\ dispatched[r]
             /\ \E w \in Workers : wstate[w] = "executing" /\ r \in batch[w]
             /\ DropMissed => now <= request[r].deadline]_vars
  BY <1>1
<1> QED BY <1>2, Invariant, PTL DEF Spec, ActionsAreSafe

-----------------------------------------------------------------------------
(* The scheduler implements the contract.                                   *)

Stages == [r \in Requests |-> Stage(r)]
Answers == [r \in Requests |-> outcome[r].action]

\* A scheduler that was just created starts the contract.
LEMMA ContractInit == Init => Contract!Init
BY DEF Init, Contract!Init, Stage, Pending, Result

\* The stage of one request changes only as the contract says.
LEMMA StageStep ==
  ASSUME IInv, [Next]_vars, NEW r \in Requests, Stage(r)' # Stage(r)
  PROVE  <<Stage(r), Stage(r)'>> \in Contract!Moves
<1>1. \/ caller'[r] = caller[r]
      \/ caller[r] = "new" /\ caller'[r] = "entering"
      \/ caller[r] = "entering" /\ caller'[r] = "submitted"
  BY CallStep DEF IInv
<1>2. outcome'[r] = outcome[r] \/ Moves(r)
  BY OutcomeStep DEF IInv, OutcomesMove
<1>3. /\ caller[r] # "submitted" => outcome[r].status = "PENDING" /\ ~dispatched[r]
      /\ dispatched'[r] # dispatched[r] =>
           caller[r] = "submitted" /\ ~dispatched[r] /\ dispatched'[r]
  BY DispatchStep DEF IInv, CallsOK, QueueOK, TypeOK, Pending, Result
<1>4. Contract!Moves =
        ({"new"} \X (Contract!TurnedAway \cup {"queued"}))
          \cup ({"queued"} \X (Contract!Shed \cup {"executing"}))
          \cup ({"executing"} \X Contract!Executed)
          \cup ({"queued", "executing"} \X {"ABANDONED"})
  BY DEF Contract!Moves
<1>5. CASE outcome'[r] = outcome[r]
  BY <1>1, <1>3, <1>4, <1>5 DEF Stage
<1>6. CASE Moves(r)
  <2>1. outcome[r].status = "PENDING" /\ outcome'[r].status # "PENDING"
    BY <1>6 DEF Moves, ShedNow, TurnedNow, DoneNow, GivenUp, Contract!Shed,
       Contract!TurnedAway, Contract!Executed
  <2>2. CASE TurnedNow(r)
    <3>1. caller[r] = "entering" /\ caller'[r] = "submitted"
      BY <2>2, LineHead DEF TurnedNow, IInv
    <3> QED BY <1>4, <2>1, <2>2, <3>1 DEF TurnedNow, Stage
  <2>3. CASE ShedNow(r)
    BY <1>1, <1>4, <2>1, <2>3 DEF ShedNow, Stage
  <2>4. CASE DoneNow(r)
    <3>1. caller[r] = "submitted" /\ dispatched[r]
      BY <2>4 DEF DoneNow, IInv, QueueOK
    <3> QED BY <1>1, <1>4, <2>1, <2>4, <3>1 DEF DoneNow, Stage
  <2>5. CASE GivenUp(r)
    BY <1>1, <1>4, <2>1, <2>5 DEF GivenUp, Stage
  <2> QED BY <1>6, <2>2, <2>3, <2>4, <2>5 DEF Moves
<1> QED BY <1>2, <1>5, <1>6

\* An answer is given to a request that is executing, and completes it.
LEMMA AnswerStep ==
  ASSUME IInv, [Next]_vars, NEW r \in Requests
  PROVE  \/ outcome'[r].action = outcome[r].action
         \/ Stage(r) = "executing" /\ Stage(r)' \in Contract!Carries /\ outcome'[r].action = r
<1> SUFFICES ASSUME outcome'[r].action # outcome[r].action
             PROVE  Stage(r) = "executing" /\ Stage(r)' \in Contract!Carries
                    /\ outcome'[r].action = r
  OBVIOUS
<1>1. Moves(r) /\ outcome[r].action = None
  BY OutcomeStep DEF IInv, OutcomesMove, Moves, CallsOK
<1>2. DoneNow(r)
  BY <1>1 DEF Moves, ShedNow, TurnedNow, GivenUp
<1>3. caller[r] = "submitted" /\ dispatched[r]
  BY <1>2 DEF DoneNow, IInv, QueueOK
<1>4. caller'[r] = "submitted"
  BY <1>3, CallStep DEF IInv
<1>5. outcome'[r].action = r /\ outcome'[r].status \in Contract!Carries
  BY <1>1, <1>2 DEF DoneNow
<1>6. outcome'[r].status # "PENDING"
  BY <1>5 DEF Contract!Carries
<1> QED BY <1>1, <1>3, <1>4, <1>5, <1>6 DEF Stage, Moves

\* A step brings in one request at most: the one whose call has the lock.
LEMMA OneEnters ==
  ASSUME IInv, [Next]_vars, NEW r \in Requests, Stage(r) = "new", Stage(r)' # "new"
  PROVE  HasLock(r)
<1>1. caller'[r] = "submitted"
  BY DEF Stage
<1>2. caller[r] # "submitted"
  <2>1. outcome[r].status # "new" \/ caller[r] # "submitted"
    BY DEF IInv, TypeOK, Outcome, Statuses
  <2> QED BY <2>1 DEF Stage
<1> QED BY <1>1, <1>2, CallStep DEF IInv, EnqueueLocked

\* Every step of the scheduler is a step of the contract, or changes neither
\* stages nor answers.
LEMMA ContractStep ==
  ASSUME IInv, [Next]_vars
  PROVE  [Contract!Step]_(Contract!contractVars)
<1>1. TypeOK'
  BY TypeStep DEF IInv
<1>2. Stages' \in [Requests -> {"new", "queued", "executing", "ABANDONED"}
                      \cup Contract!TurnedAway \cup Contract!Shed \cup Contract!Executed]
  <2>1. \A r \in Requests :
          Stage(r)' \in {"new", "queued", "executing", "ABANDONED"}
            \cup Contract!TurnedAway \cup Contract!Shed \cup Contract!Executed
    BY <1>1 DEF TypeOK, Outcome, Statuses, Stage, Contract!TurnedAway, Contract!Shed,
       Contract!Executed
  <2> QED BY <2>1 DEF Stages
<1>3. Answers' \in [Requests -> Requests \cup {None}]
  BY <1>1 DEF Answers, TypeOK, Outcome
<1>4. \A r \in Requests :
        /\ Stages'[r] # Stages[r] => <<Stages[r], Stages'[r]>> \in Contract!Moves
        /\ \/ Answers'[r] = Answers[r]
           \/ /\ Stages[r] = "executing" /\ Stages'[r] \in Contract!Carries
              /\ Answers'[r] = r
  BY StageStep, AnswerStep DEF Stages, Answers
<1>5. \A r, q \in Requests :
        Stages[r] = "new" /\ Stages[q] = "new" /\ Stages'[r] # "new" /\ Stages'[q] # "new"
          => r = q
  <2>1. \A r \in Requests : Stages[r] = "new" /\ Stages'[r] # "new" => HasLock(r)
    BY OneEnters DEF Stages
  <2> QED BY <2>1 DEF HasLock
<1> QED BY <1>2, <1>3, <1>4, <1>5 DEF Contract!Step, Contract!contractVars, Stages, Answers

\* The scheduler keeps its contract: every request is turned away or queued,
\* shed or executed, and resolved once, whatever fails.
THEOREM Refinement == Spec => KeepsContract
BY Invariant, ContractInit, ContractStep, PTL DEF Spec, KeepsContract, Contract!Spec
=============================================================================
