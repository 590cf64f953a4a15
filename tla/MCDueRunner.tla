---------------------------- MODULE MCDueRunner ----------------------------
(* Instances of DueRunner for TLC. *)
EXTENDS DueRunner, TLC

CONSTANTS s1, s2, u1, u2

MCNoChild == [s \in Startup |-> s1]
MCChildOf == [s \in Startup |-> IF s = u1 THEN s1 ELSE s2]
MCTypeOf  == [t \in Task |-> IF t = 1 THEN "validate_plan" ELSE "record"]
MCKind    == [t \in Task |-> IF t = 1 THEN "recurring" ELSE "scheduled_for"]
MCDueAt   == [t \in Task |-> 1]

\* What create-recurring-task writes; edit-task may set scheduled_for instead.
MCCreated ==
  [t \in Task |-> {[status |-> "scheduled", approved |-> TRUE,
                    requires_confirmation |-> FALSE, auto_run |-> TRUE]}]

Symmetry == Permutations(Sweep)
=============================================================================
