--------------------------- MODULE RequestContract ---------------------------
(***************************************************************************)
(* What a caller of Scheduler.submit() may rely on, whatever the queue,    *)
(* the batches and the worker do: every request is turned away or queued,  *)
(* is shed from the queue or executed, and has one outcome, which depends  *)
(* on how far the request got (src/actserve/types.py, ResultStatus).       *)
(***************************************************************************)
CONSTANTS Requests, None, KeepsMissed   \* KeepsMissed: ~drop_missed_actions

VARIABLES stage, answer
contractVars == <<stage, answer>>

TurnedAway == {"OUT_OF_ORDER", "OVERLOADED"}
Shed       == {"EXPIRED", "UNSERVICEABLE", "REPLACED", "CANCELLED"}
Executed   == {"COMPLETED", "DEADLINE_MISSED", "FAILED"}

\* how the stage of one request may change in a step that changes it
Moves ==
  ({"new"} \X (TurnedAway \cup {"queued"}))
    \cup ({"queued"} \X (Shed \cup {"executing"}))
    \cup ({"executing"} \X Executed)
    \cup ({"queued", "executing"} \X {"ABANDONED"})

Carries == {"COMPLETED"} \cup IF KeepsMissed THEN {"DEADLINE_MISSED"} ELSE {}

Init ==
  /\ stage = [r \in Requests |-> "new"]
  /\ answer = [r \in Requests |-> None]

\* A step moves any number of requests (one handler expires several and queues
\* another), brings in at most one, and answers only those it completes.
Step ==
  /\ stage' \in [Requests -> {"new", "queued", "executing", "ABANDONED"}
                               \cup TurnedAway \cup Shed \cup Executed]
  /\ answer' \in [Requests -> Requests \cup {None}]
  /\ \A r \in Requests :
       /\ stage'[r] # stage[r] => <<stage[r], stage'[r]>> \in Moves
       /\ \/ answer'[r] = answer[r]
          \/ stage[r] = "executing" /\ stage'[r] \in Carries /\ answer'[r] = r
  /\ \A r, q \in Requests :
       stage[r] = "new" /\ stage[q] = "new" /\ stage'[r] # "new" /\ stage'[q] # "new" => r = q

Spec == Init /\ [][Step]_contractVars
=============================================================================
