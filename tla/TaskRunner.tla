----------------------------- MODULE TaskRunner -----------------------------
(***************************************************************************)
(* The task layer: operating-system processes that run, approve, cancel    *)
(* and edit tasks and share, without any coordination but the task lock,   *)
(* the files of tasks/queue, tasks/history, runtime/locks and audit.       *)
(*                                                                         *)
(* A runner is one process that loads a task and calls runTask once        *)
(* (scripts/dev/run-task.ts, core/tasks/taskRunner.ts). Every file         *)
(* operation of runTask is a step of its own; what happens in memory       *)
(* between two of them belongs to the first. An editor is one process that *)
(* loads a task, changes it and writes it back (approve-task, cancel-task  *)
(* and edit-task).                                                         *)
(***************************************************************************)
EXTENDS TaskLifecycle, Naturals

CONSTANTS Task, Runner, Editor,
          TypeOf,        \* the type of each task, fixed when it is created
          Created,       \* the records of each type in the queue at first, as a
                         \* script wrote them or as approved since
          EditStatus,    \* the statuses an operator types into edit-task
          NoFile,        \* a file that does not exist
          MaxCrashes, MaxIoErrors   \* bounds on the environment's faults

ASSUME TypeOfAssumption  == TypeOf \in [Task -> TaskType]
ASSUME CreatedAssumption == Created \in [TaskType -> SUBSET TaskRec]
ASSUME EditAssumption    == EditStatus \subseteq Status
ASSUME NoFileAssumption  == /\ NoFile \notin TaskRec
                            /\ NoFile \notin [owner: Runner, expired: BOOLEAN]
                            /\ NoFile \notin Status
ASSUME BoundAssumption   == MaxCrashes \in Nat /\ MaxIoErrors \in Nat

VARIABLES
  queue,     \* tasks/queue/<id>.json
  archived,  \* tasks/history/<id>.task.json
  history,   \* tasks/history/<id>.result.json: the status of the result
  lock,      \* runtime/locks/<id>.lock.json
  audit,     \* the events written about each task in audit/events
  pc, cur, copy, phase, verdict,   \* the runners
  epc, target, draft, command,     \* the editors
  crashes, ioErrors,
  \* History variables: they guard nothing and are read by properties only.
  runs,      \* how often the body of each task has been entered
  consented, \* tasks whose approval gate a person has opened
  tainted    \* tasks whose lock was raced, reset, or expired in use

files   == <<queue, archived, history, lock, audit>>
runners == <<pc, cur, copy, phase, verdict>>
editors == <<epc, target, draft, command>>
ghosts  == <<runs, consented, tainted>>
vars    == <<files, runners, editors, crashes, ioErrors, ghosts>>

Lock    == [owner: Runner, expired: BOOLEAN]
Outcome == {"completed", "failed", "refused"}
Event   == {"approval_required", "locked",
            "executed", "allowed", "refused", "failed", "run_failed"}
\* "done": runTask returned, or threw through its finally block. "thrown": it
\* threw before it took the lock. "aborted": it threw and the lock file stays,
\* between taking the lock and the try block, or on removing the file.
Ended   == {"done", "thrown", "aborted", "dead"}
Pc      == {"start", "gate", "check", "clear", "write", "save", "body",
            "audit", "catch", "archive", "exists", "rename", "release"}
           \cup Ended

TypeOK ==
  /\ queue    \in [Task -> TaskRec \cup {NoFile}]
  /\ archived \in [Task -> TaskRec \cup {NoFile}]
  /\ history  \in [Task -> Outcome \cup {NoFile}]
  /\ lock     \in [Task -> Lock \cup {NoFile}]
  /\ audit    \in [Task -> SUBSET Event]
  /\ pc       \in [Runner -> Pc]
  /\ cur      \in [Runner -> Task]
  /\ copy     \in [Runner -> TaskRec]
  /\ phase    \in [Runner -> {"gate", "try", "catch"}]
  /\ verdict  \in [Runner -> Outcome]
  /\ epc      \in [Editor -> {"start", "write", "done"}]
  /\ target   \in [Editor -> Task]
  /\ draft    \in [Editor -> TaskRec]
  /\ command  \in [Editor -> {"approve", "cancel", "edit"}]
  /\ crashes \in Nat /\ ioErrors \in Nat
  /\ runs \in [Task -> Nat]
  /\ consented \subseteq Task /\ tainted \subseteq Task

\* Runner p has found the lock free and has not written it yet.
InWindow(p, t) == cur[p] = t /\ pc[p] \in {"clear", "write"}
\* Runner p has written the lock and runTask is not over.
Holds(p, t) ==
  /\ cur[p] = t
  /\ phase[p] # "gate"
  /\ pc[p] \in {"save", "body", "audit", "catch", "archive", "exists",
                "rename", "release"}

\* Tasks wait in the queue; no process has started.
Init ==
  /\ queue    \in {q \in [Task -> UNION {Created[type] : type \in TaskType}] :
                     \A t \in Task : q[t] \in Created[TypeOf[t]]}
  /\ archived = [t \in Task |-> NoFile]
  /\ history  = [t \in Task |-> NoFile]
  /\ lock     = [t \in Task |-> NoFile]
  /\ audit    = [t \in Task |-> {}]
  /\ pc       = [p \in Runner |-> "start"]
  /\ cur      \in [Runner -> Task]
  /\ copy     = [p \in Runner |-> queue[cur[p]]]
  /\ phase    = [p \in Runner |-> "gate"]
  /\ verdict  = [p \in Runner |-> "refused"]
  /\ epc      = [e \in Editor |-> "start"]
  /\ target   \in [Editor -> Task]
  /\ draft    = [e \in Editor |-> queue[target[e]]]
  /\ command  \in [Editor -> {"approve", "cancel", "edit"}]
  /\ crashes = 0 /\ ioErrors = 0
  /\ runs      = [t \in Task |-> 0]
  /\ consented = {t \in Task : Open(queue[t])}
  /\ tainted = {}

-----------------------------------------------------------------------------
(***************************************************************************)
(* runTask                                                                 *)
(***************************************************************************)
\* Faulty variants (here and below, each named ...Bug) stand in for the
\* definition after them when a property is tested for being breakable.
LogBug(p, e) == UNCHANGED audit

Goto(p, l) == pc' = [pc EXCEPT ![p] = l]

Log(p, e) == audit' = [audit EXCEPT ![cur[p]] = @ \cup {e}]

\* Where an exception takes runner p: out of the process before the lock is
\* taken, out of it with the lock in place between the lock and the try block
\* or when the lock file cannot be removed, to the catch block inside the try
\* block, to the finally block inside catch.
ThrowTarget(p) ==
  IF pc[p] \in {"save", "release"} THEN "aborted"
  ELSE IF phase[p] = "gate" THEN "thrown"
  ELSE IF phase[p] = "try" /\ pc[p] # "catch" THEN "catch"
  ELSE "release"

\* loadTask in run-task.ts; a missing file ends the process.
Load(p) ==
  /\ pc[p] = "start"
  /\ IF queue[cur[p]] = NoFile
       THEN Goto(p, "done") /\ UNCHANGED copy
       ELSE Goto(p, "gate") /\ copy' = [copy EXCEPT ![p] = queue[cur[p]]]
  /\ UNCHANGED <<files, cur, phase, verdict, editors, crashes, ioErrors, ghosts>>

NeedsApprovalBug(rec) == rec.requires_confirmation /\ ~rec.approved /\ rec.status = "pending"
LockFreeBug(l) == TRUE

\* The two conditions of the approval gate and of the lock.
NeedsApproval(rec) == rec.requires_confirmation /\ ~rec.approved
LockFree(l) == l # NoFile => l.expired

\* A cancelled task ends at once; an unapproved one is audited and refused,
\* or the transition throws; any other goes on to the lock.
Gate(p) ==
  /\ pc[p] = "gate"
  /\ \/ /\ copy[p].status = "cancelled"
        /\ Goto(p, "done")
        /\ UNCHANGED <<audit, copy, verdict>>
     \/ /\ copy[p].status # "cancelled"
        /\ NeedsApproval(copy[p])
        /\ Log(p, "approval_required")
        /\ verdict' = [verdict EXCEPT ![p] = "refused"]
        /\ IF TransitionOk(copy[p].status, "refused")
             THEN /\ copy' = [copy EXCEPT ![p] = SetStatus(@, "refused")]
                  /\ Goto(p, "archive")
             ELSE Goto(p, "thrown") /\ UNCHANGED copy
     \/ /\ copy[p].status # "cancelled"
        /\ ~NeedsApproval(copy[p])
        /\ Goto(p, "check")
        /\ UNCHANGED <<audit, copy, verdict>>
  /\ UNCHANGED <<queue, archived, history, lock, cur, phase, editors,
                 crashes, ioErrors, ghosts>>

\* The first half of acquireTaskLock: read the lock file and decide.
CheckLock(p) ==
  /\ pc[p] = "check"
  /\ LET l == lock[cur[p]] IN
       \/ /\ ~LockFree(l)
          /\ Log(p, "locked")
          /\ Goto(p, "done")
          /\ UNCHANGED tainted
       \/ /\ LockFree(l)
          /\ Goto(p, IF l = NoFile THEN "write" ELSE "clear")
          /\ tainted' = tainted \cup
               {t \in {cur[p]} : \E q \in Runner \ {p} : InWindow(q, t)}
          /\ UNCHANGED audit
  /\ UNCHANGED <<queue, archived, history, lock, cur, copy, phase, verdict,
                 editors, crashes, ioErrors, runs, consented>>

\* releaseTaskLock on the expired lock, whoever's it is by now.
ClearLock(p) ==
  /\ pc[p] = "clear"
  /\ lock' = [lock EXCEPT ![cur[p]] = NoFile]
  /\ Goto(p, "write")
  /\ UNCHANGED <<queue, archived, history, audit, cur, copy, phase, verdict,
                 editors, crashes, ioErrors, ghosts>>

\* The second half of acquireTaskLock, and the transition to running, which
\* throws outside the try block when the loaded status is terminal.
WriteLock(p) ==
  /\ pc[p] = "write"
  /\ lock' = [lock EXCEPT ![cur[p]] = [owner |-> p, expired |-> FALSE]]
  /\ IF TransitionOk(copy[p].status, "running")
       THEN /\ copy'  = [copy EXCEPT ![p] = SetStatus(@, "running")]
            /\ phase' = [phase EXCEPT ![p] = "try"]
            /\ Goto(p, "save")
       ELSE Goto(p, "aborted") /\ UNCHANGED <<copy, phase>>
  /\ UNCHANGED <<queue, archived, history, audit, cur, verdict, editors,
                 crashes, ioErrors, ghosts>>

\* updateTask: the copy loaded before the lock was taken replaces the file.
SaveRunning(p) ==
  /\ pc[p] = "save"
  /\ queue' = [queue EXCEPT ![cur[p]] = copy[p]]
  /\ Goto(p, "body")
  /\ UNCHANGED <<archived, history, lock, audit, cur, copy, phase, verdict,
                 editors, crashes, ioErrors, ghosts>>

\* What the branch of each type may come to. The validator and the executor
\* are modules of their own: here either of their answers may come back.
Verdicts(type) ==
  CASE type = "record"        -> {"completed"}
    [] type = "validate_plan" -> {"completed", "refused"}
    [] type = "execute_plan"  -> {"completed", "failed", "refused"}
    [] OTHER                  -> {"refused"}

\* The branch of the task's type up to its audit event; an execute_plan task
\* whose payload lacks a plan or a commit never reaches the executor, and the
\* executor may also throw.
Body(p) ==
  /\ pc[p] = "body"
  /\ runs' = [runs EXCEPT ![cur[p]] = @ + 1]
  /\ \/ \E v \in Verdicts(TypeOf[cur[p]]) :
          /\ verdict' = [verdict EXCEPT ![p] = v]
          /\ Goto(p, "audit")
     \/ /\ TypeOf[cur[p]] \in {"validate_plan", "execute_plan"}
        /\ Goto(p, "catch")
        /\ UNCHANGED verdict
  /\ UNCHANGED <<files, cur, copy, phase, editors, crashes, ioErrors,
                 consented, tainted>>

VerdictEventBug(p) == verdict[p]

VerdictEvent(p) ==
  IF verdict[p] = "completed"
    THEN IF TypeOf[cur[p]] = "validate_plan" THEN "allowed" ELSE "executed"
    ELSE verdict[p]

\* The branch's audit event, and the transition to its verdict: from running
\* to refused it throws, and the catch block takes over.
AuditVerdict(p) ==
  /\ pc[p] = "audit"
  /\ Log(p, VerdictEvent(p))
  /\ IF TransitionOk(copy[p].status, verdict[p])
       THEN /\ copy' = [copy EXCEPT ![p] = SetStatus(@, verdict[p])]
            /\ Goto(p, "archive")
       ELSE Goto(p, "catch") /\ UNCHANGED copy
  /\ UNCHANGED <<queue, archived, history, lock, cur, phase, verdict,
                 editors, crashes, ioErrors, ghosts>>

\* The catch block: audit the failure, and the transition to failed, which
\* throws when the status is already completed.
Catch(p) ==
  /\ pc[p] = "catch"
  /\ Log(p, "run_failed")
  /\ phase' = [phase EXCEPT ![p] = "catch"]
  /\ IF TransitionOk(copy[p].status, "failed")
       THEN /\ copy'    = [copy EXCEPT ![p] = SetStatus(@, "failed")]
            /\ verdict' = [verdict EXCEPT ![p] = "failed"]
            /\ Goto(p, "archive")
       ELSE Goto(p, "release") /\ UNCHANGED <<copy, verdict>>
  /\ UNCHANGED <<queue, archived, history, lock, cur, editors, crashes,
                 ioErrors, ghosts>>

ArchiveBug(p) ==
  /\ pc[p] = "archive"
  /\ Goto(p, "exists")
  /\ UNCHANGED <<files, cur, copy, phase, verdict, editors, crashes, ioErrors,
                 ghosts>>
AfterArchiveBug(p) == "done"

\* archiveTaskResult: write the result, look for the queue file, move it away.
Archive(p) ==
  /\ pc[p] = "archive"
  /\ history' = [history EXCEPT ![cur[p]] = verdict[p]]
  /\ Goto(p, "exists")
  /\ UNCHANGED <<queue, archived, lock, audit, cur, copy, phase, verdict,
                 editors, crashes, ioErrors, ghosts>>

AfterArchive(p) == IF phase[p] = "gate" THEN "done" ELSE "release"

FindQueued(p) ==
  /\ pc[p] = "exists"
  /\ Goto(p, IF queue[cur[p]] # NoFile THEN "rename" ELSE AfterArchive(p))
  /\ UNCHANGED <<files, cur, copy, phase, verdict, editors, crashes,
                 ioErrors, ghosts>>

\* renameSync throws when another process has moved the file meanwhile.
Rename(p) ==
  /\ pc[p] = "rename"
  /\ IF queue[cur[p]] = NoFile
       THEN Goto(p, ThrowTarget(p)) /\ UNCHANGED <<queue, archived>>
       ELSE /\ archived' = [archived EXCEPT ![cur[p]] = queue[cur[p]]]
            /\ queue'    = [queue EXCEPT ![cur[p]] = NoFile]
            /\ Goto(p, AfterArchive(p))
  /\ UNCHANGED <<history, lock, audit, cur, copy, phase, verdict, editors,
                 crashes, ioErrors, ghosts>>

\* The finally block: releaseTaskLock removes the file, whoever wrote it.
Release(p) ==
  /\ pc[p] = "release"
  /\ lock' = [lock EXCEPT ![cur[p]] = NoFile]
  /\ Goto(p, "done")
  /\ UNCHANGED <<queue, archived, history, audit, cur, copy, phase, verdict,
                 editors, crashes, ioErrors, ghosts>>

RunnerStep(p) ==
  \/ Load(p) \/ Gate(p) \/ CheckLock(p) \/ ClearLock(p) \/ WriteLock(p)
  \/ SaveRunning(p) \/ Body(p) \/ AuditVerdict(p) \/ Catch(p) \/ Archive(p)
  \/ FindQueued(p) \/ Rename(p) \/ Release(p)

-----------------------------------------------------------------------------
(***************************************************************************)
(* approve-task, cancel-task and edit-task                                 *)
(***************************************************************************)
\* editTaskField: one field, without any check of the lifecycle.
Edited(rec) ==
  {[rec EXCEPT !.status = s] : s \in EditStatus}
  \cup UNION {{[rec EXCEPT !.approved = b],
               [rec EXCEPT !.requires_confirmation = b],
               [rec EXCEPT !.auto_run = b]} : b \in BOOLEAN}

\* The records a command may make of a task file; none when it throws.
Results(cmd, rec) ==
  CASE cmd = "approve" ->
         {[rec EXCEPT !.approved = TRUE,
                      !.status = IF @ \in {"pending", "scheduled"}
                                   THEN "approved" ELSE @]}
    [] cmd = "cancel" ->
         {r \in {SetStatus(rec, "cancelled")} :
            TransitionOk(rec.status, "cancelled")}
    [] OTHER -> Edited(rec)

\* Load the task and change the copy in memory.
EditLoad(e) ==
  /\ epc[e] = "start"
  /\ LET rec == queue[target[e]]
         new == IF rec = NoFile THEN {} ELSE Results(command[e], rec) IN
       \/ /\ new = {}
          /\ epc' = [epc EXCEPT ![e] = "done"]
          /\ UNCHANGED <<draft, consented>>
       \/ \E r \in new :
          /\ draft' = [draft EXCEPT ![e] = r]
          /\ consented' = consented \cup {t \in {target[e]} : Open(r)}
          /\ epc' = [epc EXCEPT ![e] = "write"]
  /\ UNCHANGED <<files, runners, target, command, crashes, ioErrors, runs,
                 tainted>>

\* updateTask: the copy replaces the file, or recreates it.
EditWrite(e) ==
  /\ epc[e] = "write"
  /\ queue' = [queue EXCEPT ![target[e]] = draft[e]]
  /\ epc'   = [epc EXCEPT ![e] = "done"]
  /\ UNCHANGED <<archived, history, lock, audit, runners, target, draft,
                 command, crashes, ioErrors, runs, consented, tainted>>

-----------------------------------------------------------------------------
(***************************************************************************)
(* The environment                                                         *)
(***************************************************************************)
\* The process dies; what it wrote stays.
Crash(p) ==
  /\ crashes < MaxCrashes
  /\ pc[p] \notin Ended \cup {"start"}
  /\ crashes' = crashes + 1
  /\ Goto(p, "dead")
  /\ UNCHANGED <<files, cur, copy, phase, verdict, editors, ioErrors, ghosts>>

\* A file operation of runTask throws and leaves the file as it was.
IoError(p) ==
  /\ ioErrors < MaxIoErrors
  /\ \/ pc[p] \in {"check", "clear", "write", "save", "audit", "catch",
                   "archive", "rename", "release"}
     \/ pc[p] = "gate" /\ copy[p].status # "cancelled" /\ NeedsApproval(copy[p])
  /\ ioErrors' = ioErrors + 1
  /\ Goto(p, ThrowTarget(p))
  /\ phase' = [phase EXCEPT ![p] = IF pc[p] = "catch" THEN "catch" ELSE @]
  /\ UNCHANGED <<files, cur, copy, verdict, editors, crashes, ghosts>>

\* Five minutes pass since the lock was written; nothing refreshes it.
Expire(t) ==
  /\ lock[t] # NoFile /\ ~lock[t].expired
  /\ lock' = [lock EXCEPT ![t].expired = TRUE]
  /\ tainted' = tainted \cup {s \in {t} : \E p \in Runner : Holds(p, t)}
  /\ UNCHANGED <<queue, archived, history, audit, runners, editors, crashes,
                 ioErrors, runs, consented>>

\* reset-task-lock.ts: an operator removes the lock file.
ResetLock(t) ==
  /\ lock[t] # NoFile
  /\ lock' = [lock EXCEPT ![t] = NoFile]
  /\ tainted' = tainted \cup {s \in {t} : \E p \in Runner : Holds(p, t)}
  /\ UNCHANGED <<queue, archived, history, audit, runners, editors, crashes,
                 ioErrors, runs, consented>>

Next ==
  \/ \E p \in Runner : RunnerStep(p) \/ Crash(p) \/ IoError(p)
  \/ \E e \in Editor : EditLoad(e) \/ EditWrite(e)
  \/ \E t \in Task : Expire(t) \/ ResetLock(t)

Spec == Init /\ [][Next]_vars

-----------------------------------------------------------------------------
(***************************************************************************)
(* Properties                                                              *)
(***************************************************************************)
\* No task body is entered unless a person opened its approval gate: the task
\* was created open, or approved, or edited open. Approvals, edits and stale
\* copies written back in any order do not open it (taskRunner.ts:26-50).
NoRunWithoutConsent == \A t \in Task : runs[t] > 0 => t \in consented

\* Two runners are inside the locked part of runTask on one task only after
\* their acquisitions overlapped, or the lock expired or was reset while it
\* was held. The lock protects in every other interleaving, crashes and
\* expired locks of dead owners included (taskLockManager.ts:33-61).
LockExcludes ==
  \A t \in Task \ tainted : \A p, q \in Runner :
    Holds(p, t) /\ Holds(q, t) => p = q

\* A lock file outlives its runner only if the runner died, threw before the
\* try block or could not remove the file: every other way out of runTask,
\* the exceptions included, removes it (taskRunner.ts:74-78, 331-333).
LockOwnerInside ==
  \A t \in Task : lock[t] # NoFile =>
    LET p == lock[t].owner IN
      Holds(p, t) \/ (cur[p] = t /\ pc[p] \in {"dead", "aborted"})

\* A task file leaves the queue only into the history, with a result beside
\* it, at whatever step a process dies or fails (taskStore.ts:75-87).
NoTaskLost ==
  \A t \in Task :
    queue[t] = NoFile => history[t] # NoFile /\ archived[t] # NoFile

\* The audit event that backs outcome o of task t has been written.
Backed(t, o) ==
  /\ o = "completed" => "executed" \in audit[t] \/ "allowed" \in audit[t]
  /\ o = "failed"    => "failed" \in audit[t] \/ "run_failed" \in audit[t]
  /\ o = "refused"   => "approval_required" \in audit[t]

\* A result in the history is backed by an audit event of the same outcome,
\* in spite of crashes between the two writes and of runners that overwrite
\* each other's result (taskRunner.ts:82-100, 251-273, 308-327).
ResultIsAudited == \A t \in Task : Backed(t, history[t])

\* tasks/history/README.md: the history "stores completed, failed, cancelled,
\* and refused task outcomes". A refusal audited by a branch of runTask is not
\* stored as a failure.
RefusalStoredAsRefused ==
  \A t \in Task : "refused" \in audit[t] => history[t] # "failed"
=============================================================================
