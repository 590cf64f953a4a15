----------------------------- MODULE TaskQueue -----------------------------
(***************************************************************************)
(* What the task layer promises when its processes do not overlap: a task  *)
(* waits, people open, shut or cancel it, it starts at most once and only  *)
(* while it is open, and it closes exactly once, with one outcome.         *)
(***************************************************************************)
EXTENDS Naturals

CONSTANTS Task, NoOutcome

VARIABLES stage,     \* "queued", "running" or "closed"
          open,      \* the approval gate of a queued task is open
          cancelled, \* a queued task is cancelled
          outcome, starts

vars == <<stage, open, cancelled, outcome, starts>>

Init ==
  /\ stage  = [t \in Task |-> "queued"]
  /\ open \in [Task -> BOOLEAN] /\ cancelled \in [Task -> BOOLEAN]
  /\ outcome = [t \in Task |-> NoOutcome]
  /\ starts = [t \in Task |-> 0]

\* A person approves, edits or cancels a queued task; a runner that has chosen
\* the task clears nothing but its cancellation mark.
Decide(t) ==
  /\ stage[t] = "queued"
  /\ \E o, c \in BOOLEAN : /\ open' = [open EXCEPT ![t] = o]
                           /\ cancelled' = [cancelled EXCEPT ![t] = c]
  /\ UNCHANGED <<stage, outcome, starts>>

Start(t) ==
  /\ stage[t] = "queued" /\ open[t] /\ ~cancelled[t]
  /\ stage'  = [stage EXCEPT ![t] = "running"]
  /\ starts' = [starts EXCEPT ![t] = @ + 1]
  /\ UNCHANGED <<open, cancelled, outcome>>

Close(t) ==
  /\ \/ /\ stage[t] = "running"
        /\ \E o \in {"completed", "failed"} : outcome' = [outcome EXCEPT ![t] = o]
     \/ /\ stage[t] = "queued" /\ ~open[t] /\ ~cancelled[t]
        /\ outcome' = [outcome EXCEPT ![t] = "refused"]
  /\ stage' = [stage EXCEPT ![t] = "closed"]
  /\ UNCHANGED <<open, cancelled, starts>>

Next == \E t \in Task : Decide(t) \/ Start(t) \/ Close(t)

Spec == Init /\ [][Next]_vars
=============================================================================
