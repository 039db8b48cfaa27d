----------------------------- MODULE Evaluation -----------------------------
(***************************************************************************)
(* What ProcCel promises: a caller asks, and is answered as if there were  *)
(* no cache and no other caller.                                           *)
(***************************************************************************)
EXTENDS CelEngine

CONSTANTS Callers, Nil

VARIABLES req,  \* the request of each caller, or Nil
          res   \* its answer, or Nil

Init ==
  /\ req = [t \in Callers |-> Nil]
  /\ res = [t \in Callers |-> Nil]

Ask(t) ==
  /\ req[t] = Nil
  /\ \E m \in Models : req' = [req EXCEPT ![t] = m]
  /\ UNCHANGED res

Reply(t) ==
  /\ req[t] # Nil
  /\ res[t] = Nil
  /\ res' = [res EXCEPT ![t] = Answer(req[t])]
  /\ UNCHANGED req

Leave(t) ==
  /\ res[t] # Nil
  /\ req' = [req EXCEPT ![t] = Nil]
  /\ res' = [res EXCEPT ![t] = Nil]

Next == \E t \in Callers : Ask(t) \/ Reply(t) \/ Leave(t)

Spec == Init /\ [][Next]_<<req, res>>
=============================================================================
