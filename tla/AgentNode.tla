----------------------------- MODULE AgentNode -----------------------------
(***************************************************************************)
(* What Pipeline assumes of a node that asks an agent about one element    *)
(* after the other (graph/nodes/agents.py): an element is handled once per *)
(* execution, in one step, with a row for the answer or an error; an error *)
(* of cause "systemic" ends the loop; an execution that dies keeps its     *)
(* rows and nothing else.                                                  *)
(***************************************************************************)
EXTENDS Naturals

CONSTANTS Elements, Answers, NoAnswer

VARIABLES
  phase,     \* "idle", "running" or "returned"
  handled,   \* elements done
  errs,      \* [element, cause]
  stopped,   \* the loop was left early
  row        \* the stored answers

nvars == <<phase, handled, errs, stopped, row>>

Causes == {"invalid", "blocked", "systemic"}

NInit ==
  /\ phase = "idle"
  /\ handled = {} /\ errs = {} /\ stopped = FALSE
  /\ row = [e \in Elements |-> NoAnswer]

Execute ==
  /\ phase = "idle"
  /\ phase' = "running"
  /\ UNCHANGED <<handled, errs, stopped, row>>

Answered(e) ==
  /\ phase = "running" /\ ~stopped /\ e \notin handled
  /\ handled' = handled \cup {e}
  /\ \E a \in Answers : row' = [row EXCEPT ![e] = a]
  /\ UNCHANGED <<phase, errs, stopped>>

Failed(e) ==
  /\ phase = "running" /\ ~stopped /\ e \notin handled
  /\ handled' = handled \cup {e}
  /\ \E c \in Causes :
       /\ errs' = errs \cup {[element |-> e, cause |-> c]}
       /\ stopped' = (c = "systemic")
  /\ UNCHANGED <<phase, row>>

NodeEnds ==
  /\ phase = "running" /\ (stopped \/ handled = Elements)
  /\ phase' = "returned"
  /\ UNCHANGED <<handled, errs, stopped, row>>

Die ==
  /\ phase = "running"
  /\ phase' = "idle"
  /\ handled' = {} /\ errs' = {} /\ stopped' = FALSE
  /\ UNCHANGED row

NNext == Execute \/ (\E e \in Elements : Answered(e) \/ Failed(e)) \/ NodeEnds \/ Die

NSpec == NInit /\ [][NNext]_nvars
=============================================================================
