--------------------------- MODULE InferenceService ---------------------------
(***************************************************************************)
(* What the scheduler may rely on in a backend, whatever thread, socket or *)
(* server is behind it: a call ends once, and an action it returns is one  *)
(* of its own request (InferenceBackend of src/actserve/backend.py and the *)
(* docstrings of src/actserve/integrations/embodied_cpp.py).               *)
(***************************************************************************)
CONSTANTS Calls, None

VARIABLES open, call, answer
serviceVars == <<open, call, answer>>

Ended == {"refused", "returned", "raised", "cancelled"}

Init ==
  /\ open = TRUE
  /\ call = [c \in Calls |-> "idle"]
  /\ answer = [c \in Calls |-> None]

Moves(c, state) ==
  /\ call' = [call EXCEPT ![c] = state]
  /\ answer' = [answer EXCEPT ![c] = IF state = "returned" THEN c ELSE None]
  /\ open' = open

\* An open service accepts, a closed one refuses.
Accept(c) == call[c] = "idle" /\ Moves(c, IF open THEN "running" ELSE "refused")

End(c) == call[c] = "running" /\ \E state \in Ended \ {"refused"} : Moves(c, state)

\* It closes once, and calls that run may still end in any way.
Close == open /\ open' = FALSE /\ UNCHANGED <<call, answer>>

Next == Close \/ \E c \in Calls : Accept(c) \/ End(c)

Spec == Init /\ [][Next]_serviceVars
=============================================================================
