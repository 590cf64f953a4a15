--------------------------- MODULE TaskLifecycle ---------------------------
(***************************************************************************)
(* The status machine of a task: core/tasks/taskLifecycle.ts, and the part *)
(* of the task record (core/tasks/taskTypes.ts) that decides whether and   *)
(* how a task runs.                                                        *)
(***************************************************************************)

Status == {"pending", "scheduled", "approved", "running",
           "completed", "failed", "cancelled", "refused"}

\* The type decides which branch of runTask a task takes. "record" stands for
\* run_diagnostics and export_audit, whose branches differ in wording only;
\* "unsupported" for custom and every unknown type.
TaskType == {"record", "validate_plan", "execute_plan", "unsupported"}

\* The fields of a task file that the guards of the task layer read.
TaskRec == [status: Status, approved: BOOLEAN,
            requires_confirmation: BOOLEAN, auto_run: BOOLEAN]

ALLOWED_TRANSITIONS ==
  [s \in Status |->
     CASE s \in {"pending", "scheduled"} ->
            {"approved", "cancelled", "running", "refused"}
       [] s = "approved" -> {"running", "cancelled", "refused"}
       [] s = "running"  -> {"completed", "failed", "cancelled"}
       [] OTHER          -> {}]

canTransitionTaskStatus(from, to) == to \in ALLOWED_TRANSITIONS[from]

\* assertTaskTransition returns without throwing.
TransitionOk(from, to) == from = to \/ canTransitionTaskStatus(from, to)

\* transitionTaskStatus, when it does not throw.
SetStatus(rec, to) == [rec EXCEPT !.status = to]

\* The approval gate of runTask is open.
Open(rec) == rec.requires_confirmation => rec.approved
============================================================================
