--------------------------- MODULE PlanExecution ---------------------------
(***************************************************************************)
(* What the executor promises of a committed plan: its actions take effect *)
(* one after the other in the order of the plan, none before the effect of *)
(* the one before it is in the journal; success means that every action    *)
(* took effect and is in the journal; a refusal leaves nothing unrecorded. *)
(***************************************************************************)
EXTENDS Naturals

CONSTANTS Exec, Length   \* the executions, and the length of each one's plan

VARIABLES performed, \* the actions of each plan that took effect
          recorded,  \* those of them that are in the journal
          outcome

vars == <<performed, recorded, outcome>>

Init ==
  /\ performed = [e \in Exec |-> {}]
  /\ recorded  = [e \in Exec |-> {}]
  /\ outcome   = [e \in Exec |-> "open"]

Perform(e, i) ==
  /\ outcome[e] = "open"
  /\ performed[e] = 1..(i - 1) /\ recorded[e] = 1..(i - 1)
  /\ performed' = [performed EXCEPT ![e] = 1..i]
  /\ UNCHANGED <<recorded, outcome>>

Record(e) ==
  /\ outcome[e] = "open"
  /\ recorded' = [recorded EXCEPT ![e] = performed[e]]
  /\ UNCHANGED <<performed, outcome>>

End(e, o) ==
  /\ outcome[e] = "open"
  /\ o = "success" => recorded[e] = 1..Length[e]
  /\ o = "refused" => recorded[e] = performed[e]
  /\ outcome' = [outcome EXCEPT ![e] = o]
  /\ UNCHANGED <<performed, recorded>>

Next ==
  \E e \in Exec :
    \/ \E i \in 1..Length[e] : Perform(e, i)
    \/ Record(e)
    \/ \E o \in {"success", "refused", "failed"} : End(e, o)

Spec == Init /\ [][Next]_vars
============================================================================
