------------------------- MODULE MCTaskRunnerSerial -------------------------
(* An instance of TaskRunnerSerial for TLC. *)
EXTENDS TaskRunnerSerial

CONSTANTS t1, t2, t3, p1, p2, e1

\* What create-safe-move-task and create-recurring-task write, and what
\* approve-task makes of it. Only tasks that mutate ask for confirmation.
MCCreated ==
  [type \in TaskType |->
     IF type = "execute_plan"
       THEN {[status |-> "pending",  approved |-> FALSE,
              requires_confirmation |-> TRUE,  auto_run |-> FALSE],
             [status |-> "approved", approved |-> TRUE,
              requires_confirmation |-> TRUE,  auto_run |-> FALSE]}
       ELSE {[status |-> "scheduled", approved |-> TRUE,
              requires_confirmation |-> FALSE, auto_run |-> TRUE]}]

\* t1 mutates, t2 validates a plan, t3 has a type that runTask does not know.
MCTypeOf ==
  [t \in Task |-> CASE t = t1 -> "execute_plan"
                    [] t = t2 -> "validate_plan"
                    [] OTHER  -> "unsupported"]
=============================================================================
