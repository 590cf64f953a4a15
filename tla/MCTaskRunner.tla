---------------------------- MODULE MCTaskRunner ----------------------------
(* Instances of TaskRunner for TLC. *)
EXTENDS TaskRunner, TLC

CONSTANTS t1, t2, p1, p2, e1

\* What create-task, create-safe-move-task, create-recurring-task and
\* convert-task-draft write, and what approve-task makes of it. Only tasks that
\* mutate ask for confirmation.
MCCreated ==
  [type \in TaskType |->
     IF type = "execute_plan"
       THEN {[status |-> "pending",  approved |-> FALSE,
              requires_confirmation |-> TRUE,  auto_run |-> FALSE],
             [status |-> "approved", approved |-> TRUE,
              requires_confirmation |-> TRUE,  auto_run |-> FALSE]}
       ELSE {[status |-> "scheduled", approved |-> TRUE,
              requires_confirmation |-> FALSE, auto_run |-> TRUE],
             [status |-> "pending",  approved |-> FALSE,
              requires_confirmation |-> FALSE, auto_run |-> FALSE]}]

MCTypeExecute == [t \in Task |-> "execute_plan"]
MCTypeMixed   == [t \in Task |-> IF t = t1 THEN "validate_plan" ELSE "record"]
Symmetry == Permutations(Runner)
=============================================================================
