----------------------------- MODULE DueRunner -----------------------------
(***************************************************************************)
(* Sweeps of the task queue: each is one process of                        *)
(* scripts/dev/run-due-tasks.ts, started by hand or as the child of a      *)
(* startup workflow (scripts/dev/run-startup.ts), that runs the due tasks  *)
(* it finds, one after the other, under a global lock                      *)
(* (core/common/globalLock.ts).                                            *)
(*                                                                         *)
(* runTask is in three steps here, with its task lock taken at once: the   *)
(* races inside it are the subject of TaskRunner. Tasks are numbered in    *)
(* the order of their file names.                                          *)
(***************************************************************************)
EXTENDS TaskLifecycle, Naturals

CONSTANTS Task, Sweep, Startup,
          ChildOf,        \* the sweep that each startup workflow spawns
          TypeOf, Kind,   \* the type and the kind of schedule of each task
          DueAt,          \* the minute a task is due: of all time, or of the day
          Created,        \* the records a task file may start with
          AutoRunTypes,   \* allow_auto_run_for without deny_auto_run_for
          NoFile, Ttl, Day,
          MaxTime, MaxFaults   \* bounds

ASSUME TaskAssumption     == Task \subseteq Nat
ASSUME ScheduleAssumption ==
  /\ TypeOf \in [Task -> TaskType] /\ AutoRunTypes \subseteq TaskType
  /\ Kind \in [Task -> {"scheduled_for", "once", "recurring", "none"}]
  /\ DueAt \in [Task -> Nat]
  /\ Created \in [Task -> SUBSET TaskRec]
ASSUME ProcessAssumption  ==
  /\ Sweep \cap Startup = {} /\ ChildOf \in [Startup -> Sweep]
  /\ \A s, r \in Startup : ChildOf[s] = ChildOf[r] => s = r
ASSUME TimeAssumption     ==
  Ttl \in Nat \ {0} /\ Day \in Nat \ {0} /\ {MaxTime, MaxFaults} \subseteq Nat

Proc == Sweep \cup Startup
LockName == {"due-task-runner", "startup-workflow"}
NameOf(p) == IF p \in Startup THEN "startup-workflow" ELSE "due-task-runner"
Lock == [owner: Proc, expires: Nat]

\* What a run of a task may come to. A refusal inside the lock is stored as a
\* failure, like an exception of the body.
Outcomes == {"completed", "failed"}

ASSUME NoFileAssumption == NoFile \notin TaskRec \cup Lock \cup Nat \cup Outcomes

VARIABLES
  clock,      \* the time in minutes
  queue,      \* tasks/queue
  history,    \* tasks/history: the status of the result
  runState,   \* runtime/recurrence: the window of the last run, NoFile if none
  taskLock, globalLock,   \* runtime/locks
  startups,   \* startup events in audit/events, per workflow
  pc,
  work,       \* the due tasks a sweep has yet to treat
  copy,       \* the tasks as the sweep has read them
  faults,     \* how many crashes and exceptions there have been
  \* History variables: they guard nothing and are read by properties only.
  runs,       \* how often the body of each task has been entered
  broken,     \* the runs that ended before their task was archived
  touched,    \* tasks run by hand
  tainted,    \* locks that were raced, reset, or expired in use
  taken       \* the tasks each sweep has started

files  == <<queue, history, runState, taskLock, globalLock, startups>>
procs  == <<pc, work, copy>>
ghosts == <<runs, broken, touched, tainted, taken>>
vars   == <<clock, files, procs, faults, ghosts>>

\* How a process may end. "idle": process.exit(0) of a sweep that found
\* nothing due. "refused": the lock was held.
Ended == {"done", "idle", "refused", "dead"}
Pc == {"unborn", "start", "clear", "write", "list", "next", "take", "run",
       "finish", "record", "spawn", "wait", "complete", "release"} \cup Ended

TypeOK ==
  /\ clock \in Nat
  /\ queue      \in [Task -> TaskRec \cup {NoFile}]
  /\ history    \in [Task -> Outcomes \cup {NoFile}]
  /\ runState   \in [Task -> Nat \cup {NoFile}]
  /\ taskLock   \in [Task -> Lock \cup {NoFile}]
  /\ globalLock \in [LockName -> Lock \cup {NoFile}]
  /\ startups   \in [Startup -> SUBSET {"BEGIN", "COMPLETE"}]
  /\ pc \in [Proc -> Pc]
  /\ work \in [Sweep -> SUBSET Task]
  /\ copy \in [Sweep -> [Task -> TaskRec \cup {NoFile}]]
  /\ faults \in Nat
  /\ runs \in [Task -> Nat] /\ broken \in [Task -> Nat]
  /\ touched \subseteq Task /\ tainted \subseteq LockName
  /\ taken \in [Sweep -> SUBSET Task]

\* Process p is past the acquisition of its lock.
Inside(p) == pc[p] \in {"list", "next", "take", "run", "finish", "record",
                        "spawn", "wait", "complete", "release"}
InWindow(p) == pc[p] \in {"clear", "write"}

Init ==
  /\ clock = 0
  /\ queue \in {q \in [Task -> UNION {Created[t] : t \in Task}] :
                  \A t \in Task : q[t] \in Created[t]}
  /\ history    = [t \in Task |-> NoFile]
  /\ runState   = [t \in Task |-> NoFile]
  /\ taskLock   = [t \in Task |-> NoFile]
  /\ globalLock = [n \in LockName |-> NoFile]
  /\ startups   = [s \in Startup |-> {}]
  /\ pc   = [p \in Proc |-> IF \E s \in Startup : ChildOf[s] = p THEN "unborn" ELSE "start"]
  /\ work = [p \in Sweep |-> {}]
  /\ copy = [p \in Sweep |-> queue]
  /\ faults = 0
  /\ runs = [t \in Task |-> 0] /\ broken = [t \in Task |-> 0]
  /\ touched = {} /\ tainted = {}
  /\ taken = [p \in Sweep |-> {}]

Goto(p, l) == pc' = [pc EXCEPT ![p] = l]

-----------------------------------------------------------------------------
(***************************************************************************)
(* The global lock                                                         *)
(***************************************************************************)
Expired(l) == l.expires <= clock
\* Faulty variants (here and below, each named ...Bug) stand in for the
\* definition after them when a property is tested for being breakable.
FreeBug(l) == TRUE
Free(l) == l # NoFile => Expired(l)

CheckGlobalBug(p) ==
  /\ pc[p] = "start"
  /\ Free(globalLock[NameOf(p)])
  /\ Goto(p, "write")
  /\ UNCHANGED <<clock, files, work, copy, faults, ghosts>>

\* acquireGlobalLock reads the lock file and decides.
CheckGlobal(p) ==
  /\ pc[p] = "start"
  /\ LET l == globalLock[NameOf(p)] IN
       \/ ~Free(l) /\ Goto(p, "refused") /\ UNCHANGED tainted
       \/ /\ Free(l)
          /\ Goto(p, IF l = NoFile THEN "write" ELSE "clear")
          /\ tainted' = tainted \cup {NameOf(q) : q \in
               {r \in Proc \ {p} : NameOf(r) = NameOf(p) /\ InWindow(r)}}
  /\ UNCHANGED <<clock, files, work, copy, faults, runs, broken, touched, taken>>

\* releaseGlobalLock on an expired lock, whoever's it is by now.
ClearGlobal(p) ==
  /\ pc[p] = "clear"
  /\ globalLock' = [globalLock EXCEPT ![NameOf(p)] = NoFile]
  /\ Goto(p, "write")
  /\ UNCHANGED <<clock, queue, history, runState, taskLock, startups, work,
                 copy, faults, ghosts>>

\* The lock file is written. A startup workflow audits its begin; the scripts
\* before the sweep (diagnostics, summaries) change nothing of this model.
WriteGlobal(p) ==
  /\ pc[p] = "write"
  /\ globalLock' = [globalLock EXCEPT ![NameOf(p)] =
                      [owner |-> p, expires |-> clock + Ttl]]
  /\ Goto(p, IF p \in Startup THEN "spawn" ELSE "list")
  /\ UNCHANGED <<clock, queue, history, runState, taskLock, startups, work,
                 copy, faults, ghosts>>

ReleaseGlobalBug(p) ==
  /\ pc[p] = "release"
  /\ Goto(p, "done")
  /\ UNCHANGED <<clock, files, work, copy, faults, ghosts>>

\* The finally block: the lock file goes, whoever wrote it.
ReleaseGlobal(p) ==
  /\ pc[p] = "release"
  /\ globalLock' = [globalLock EXCEPT ![NameOf(p)] = NoFile]
  /\ Goto(p, "done")
  /\ UNCHANGED <<clock, queue, history, runState, taskLock, startups, work,
                 copy, faults, ghosts>>

-----------------------------------------------------------------------------
(***************************************************************************)
(* The sweep                                                               *)
(***************************************************************************)
HasSchedule(t) == Kind[t] \in {"once", "recurring"}

\* isTaskDue; daily and weekly tasks are due in one minute of the period only.
IsTaskDue(rec, t) ==
  /\ rec.status \notin {"cancelled", "completed", "failed", "refused"}
  /\ \/ Kind[t] \in {"scheduled_for", "once"} /\ DueAt[t] <= clock
     \/ Kind[t] = "recurring" /\ clock % Day = DueAt[t]

CanAutoRun(rec, t) ==
  rec.auto_run /\ ~rec.requires_confirmation /\ rec.approved /\ TypeOf[t] \in AutoRunTypes

\* The window of a run is the minute it is asked for.
AlreadyRan(t) == HasSchedule(t) /\ runState[t] = clock

\* listQueuedTasks and the filter. Nothing due: process.exit(0) skips the
\* finally block, and the lock stays.
List(p) ==
  /\ pc[p] = "list"
  /\ copy' = [copy EXCEPT ![p] = queue]
  /\ LET due == {t \in Task : queue[t] # NoFile /\ IsTaskDue(queue[t], t)} IN
       /\ work' = [work EXCEPT ![p] = due]
       /\ Goto(p, IF due = {} THEN "idle" ELSE "next")
  /\ UNCHANGED <<clock, files, faults, ghosts>>

\* The first of the tasks not yet treated.
Current(p) == CHOOSE t \in work[p] : \A s \in work[p] : t <= s

Treated(p) == work' = [work EXCEPT ![p] = @ \ {Current(p)}]

\* The head of the loop: skip the task, or call runTask on it; its approval
\* gate is open, as canAutoRun reads the same fields of the same copy.
NextTask(p) ==
  /\ pc[p] = "next"
  /\ \/ work[p] = {} /\ Goto(p, "release") /\ UNCHANGED work
     \/ /\ work[p] # {}
        /\ LET t == Current(p) IN
             IF CanAutoRun(copy[p][t], t) /\ ~AlreadyRan(t)
               THEN Goto(p, "take") /\ UNCHANGED work
               ELSE Treated(p) /\ UNCHANGED pc
  /\ UNCHANGED <<clock, files, copy, faults, ghosts>>

\* acquireTaskLock; a held lock is answered by a refusal, and the loop goes on.
TakeTask(p) ==
  /\ pc[p] = "take"
  /\ LET t == Current(p) IN
       \/ /\ ~Free(taskLock[t])
          /\ Treated(p) /\ Goto(p, "next")
          /\ UNCHANGED <<taskLock, taken>>
       \/ /\ Free(taskLock[t])
          /\ taskLock' = [taskLock EXCEPT ![t] = [owner |-> p, expires |-> clock + Ttl]]
          /\ taken' = [taken EXCEPT ![p] = @ \cup {t}]
          /\ Goto(p, "run") /\ UNCHANGED work
  /\ UNCHANGED <<clock, queue, history, runState, globalLock, startups, copy,
                 faults, runs, broken, touched, tainted>>

\* updateTask with the status running, from the copy read by List, and the
\* body. The transition is legal from each status that is due.
RunBody(p) ==
  /\ pc[p] = "run"
  /\ LET t == Current(p) IN
       /\ queue' = [queue EXCEPT ![t] = SetStatus(copy[p][t], "running")]
       /\ runs'  = [runs EXCEPT ![t] = @ + 1]
  /\ Goto(p, "finish")
  /\ UNCHANGED <<clock, history, runState, taskLock, globalLock, startups, work,
                 copy, faults, broken, touched, tainted, taken>>

AfterRunRawBug(outcome) == outcome
AfterRunNeverBug(outcome) == "next"
DequeueBug(t) == UNCHANGED queue

AfterRun(outcome) == IF outcome = "completed" THEN "record" ELSE "next"

Dequeue(t) == queue' = [queue EXCEPT ![t] = NoFile]

\* archiveTaskResult, and the release of the task lock.
FinishTask(p) ==
  /\ pc[p] = "finish"
  /\ \E outcome \in Outcomes :
       /\ history' = [history EXCEPT ![Current(p)] = outcome]
       /\ Goto(p, AfterRun(outcome))
       /\ IF AfterRun(outcome) = "next" THEN Treated(p) ELSE UNCHANGED work
  /\ Dequeue(Current(p))
  /\ taskLock' = [taskLock EXCEPT ![Current(p)] = NoFile]
  /\ UNCHANGED <<clock, runState, globalLock, startups, copy, faults, ghosts>>

\* recordTaskRun: the window is that of the minute after the run. Without a
\* schedule the file says null, as a missing file does.
RecordRun(p) ==
  /\ pc[p] = "record"
  /\ runState' = [runState EXCEPT ![Current(p)] =
                    IF HasSchedule(Current(p)) THEN clock ELSE NoFile]
  /\ Treated(p)
  /\ Goto(p, "next")
  /\ UNCHANGED <<clock, queue, history, taskLock, globalLock, startups, copy,
                 faults, ghosts>>

-----------------------------------------------------------------------------
(***************************************************************************)
(* The startup workflow                                                    *)
(***************************************************************************)
\* writeAuditEvent BEGIN, and spawnSync of run-due-tasks.
Spawn(s) ==
  /\ pc[s] = "spawn"
  /\ startups' = [startups EXCEPT ![s] = @ \cup {"BEGIN"}]
  /\ pc' = [pc EXCEPT ![s] = "wait", ![ChildOf[s]] = "start"]
  /\ UNCHANGED <<clock, queue, history, runState, taskLock, globalLock, work,
                 copy, faults, ghosts>>

WaitBug(s) ==
  /\ pc[s] = "wait"
  /\ Goto(s, "complete")
  /\ UNCHANGED <<clock, files, work, copy, faults, ghosts>>

\* spawnSync returns when the child has ended; its exit code is not read.
Wait(s) ==
  /\ pc[s] = "wait"
  /\ pc[ChildOf[s]] \in Ended
  /\ Goto(s, "complete")
  /\ UNCHANGED <<clock, files, work, copy, faults, ghosts>>

\* saveStartupState and writeAuditEvent COMPLETE.
Complete(s) ==
  /\ pc[s] = "complete"
  /\ startups' = [startups EXCEPT ![s] = @ \cup {"COMPLETE"}]
  /\ Goto(s, "release")
  /\ UNCHANGED <<clock, queue, history, runState, taskLock, globalLock, work,
                 copy, faults, ghosts>>

-----------------------------------------------------------------------------
(***************************************************************************)
(* The environment                                                         *)
(***************************************************************************)
\* A lock is tainted when it expires under a process that believes to hold it.
OverdueAt(now, n) == \E p \in Proc :
  NameOf(p) = n /\ Inside(p) /\ globalLock[n] # NoFile /\ globalLock[n].expires <= now

Tick ==
  /\ clock < MaxTime
  /\ clock' = clock + 1
  /\ tainted' = tainted \cup {n \in LockName : OverdueAt(clock + 1, n)}
  /\ UNCHANGED <<files, procs, faults, runs, broken, touched, taken>>

InBody(p) == p \in Sweep /\ pc[p] = "finish"

\* The run of p, if it is in one, will not reach the archive.
Breaks(p) == broken' = [t \in Task |->
  IF InBody(p) /\ t = Current(p) THEN broken[t] + 1 ELSE broken[t]]

\* A process dies. Its locks stay, and a task it was running stays running.
Crash(p) ==
  /\ faults < MaxFaults
  /\ pc[p] \notin Ended \cup {"unborn", "start"}
  /\ faults' = faults + 1
  /\ Goto(p, "dead")
  /\ Breaks(p)
  /\ UNCHANGED <<clock, files, work, copy, runs, touched, tainted, taken>>

\* A file operation throws. Before the try block the process ends, in it the
\* finally block releases the lock. runTask releases its task lock unless the
\* task was not yet written as running.
Throw(p) ==
  /\ faults < MaxFaults
  /\ faults' = faults + 1
  /\ \/ pc[p] \in {"start", "clear", "write", "release"} /\ Goto(p, "dead")
     \/ pc[p] \in {"list", "next", "take", "run", "finish", "record", "spawn", "complete"}
        /\ Goto(p, "release")
  /\ Breaks(p)
  /\ taskLock' = [t \in Task |->
       IF InBody(p) /\ t = Current(p) THEN NoFile ELSE taskLock[t]]
  /\ UNCHANGED <<clock, queue, history, runState, globalLock, startups, work,
                 copy, runs, touched, tainted, taken>>

\* reset-global-lock.ts.
ResetGlobal(n) ==
  /\ globalLock[n] # NoFile
  /\ globalLock' = [globalLock EXCEPT ![n] = NoFile]
  /\ tainted' = tainted \cup {m \in {n} : \E p \in Proc : NameOf(p) = m /\ Inside(p)}
  /\ UNCHANGED <<clock, queue, history, runState, taskLock, startups, procs,
                 faults, runs, broken, touched, taken>>

\* cancel-task; a sweep that has read the task already runs it all the same.
Cancel(t) ==
  /\ queue[t] # NoFile /\ TransitionOk(queue[t].status, "cancelled")
  /\ queue' = [queue EXCEPT ![t] = SetStatus(@, "cancelled")]
  /\ UNCHANGED <<clock, history, runState, taskLock, globalLock, startups,
                 procs, faults, ghosts>>

\* A runTask started by hand, from beginning to end; it records no window. One
\* for each task is enough to leave a sweep with a stale copy.
RunByHand(t) ==
  /\ t \notin touched
  /\ queue[t] # NoFile /\ Free(taskLock[t])
  /\ TransitionOk(queue[t].status, "running") /\ Open(queue[t])
  /\ \E outcome \in Outcomes : history' = [history EXCEPT ![t] = outcome]
  /\ Dequeue(t)
  /\ taskLock' = [taskLock EXCEPT ![t] = NoFile]
  /\ runs' = [runs EXCEPT ![t] = @ + 1]
  /\ touched' = touched \cup {t}
  /\ UNCHANGED <<clock, runState, globalLock, startups, procs, faults, broken,
                 tainted, taken>>

SweepStep(p) ==
  \/ List(p) \/ NextTask(p) \/ TakeTask(p) \/ RunBody(p) \/ FinishTask(p) \/ RecordRun(p)
LockStep(p) == CheckGlobal(p) \/ ClearGlobal(p) \/ WriteGlobal(p) \/ ReleaseGlobal(p)
StartupStep(s) == Spawn(s) \/ Wait(s) \/ Complete(s)

ProcStep(p) ==
  \/ LockStep(p)
  \/ p \in Sweep /\ SweepStep(p)
  \/ p \in Startup /\ StartupStep(p)

Next ==
  \/ \E p \in Proc : ProcStep(p) \/ Crash(p) \/ Throw(p)
  \/ \E t \in Task : Cancel(t) \/ RunByHand(t)
  \/ \E n \in LockName : ResetGlobal(n)
  \/ Tick

Spec == Init /\ [][Next]_vars

\* A process that has started is run by the operating system until it ends.
FairSpec == Spec /\ \A p \in Proc : WF_vars(ProcStep(p))

-----------------------------------------------------------------------------
(***************************************************************************)
(* Properties                                                              *)
(***************************************************************************)
\* Two sweeps, or two startup workflows, are inside the global lock only after
\* their acquisitions overlapped, or the lock expired or was reset under one of
\* them; locks left by dead and idle processes do not break it
\* (globalLock.ts:39-74).
SweepsExclude ==
  \A p, q \in Proc :
    /\ NameOf(p) = NameOf(q) /\ NameOf(p) \notin tainted
    /\ Inside(p) /\ Inside(q)
    => p = q

\* While sweeps exclude each other, a task is run again only when its earlier
\* run was cut off before the archive, or someone ran it by hand: a sweep that
\* finds the status running of a dead one takes the task up, once its lock has
\* expired, and a finished task is not found again (run-due-tasks.ts:15-50).
RunsOncePerBreak ==
  "due-task-runner" \notin tainted =>
    \A t \in Task \ touched : runs[t] <= 1 + broken[t]

\* A sweep that reaches the end of its loop has archived each task it started,
\* and recorded the window of each scheduled one that completed. Only a crash,
\* an exception or a second sweep cuts this short (run-due-tasks.ts:25-50).
SweepThorough ==
  "due-task-runner" \notin tainted =>
    \A p \in Sweep : pc[p] = "release" /\ work[p] = {} =>
      \A t \in taken[p] \ touched :
        /\ history[t] # NoFile
        /\ HasSchedule(t) /\ history[t] = "completed" => runState[t] # NoFile

\* A global lock file outlives its process only if that process died or left by
\* process.exit in the try block; a refused, failed or finished one leaves none
\* (run-due-tasks.ts:9-20, 53-55).
LockOwnerInside ==
  \A n \in LockName : globalLock[n] # NoFile =>
    LET p == globalLock[n].owner IN Inside(p) \/ pc[p] \in {"idle", "dead"}

\* The audit event of a complete startup workflow is written after the sweep it
\* started has ended (run-startup.ts:68-86).
StartupWaits ==
  \A s \in Startup : "COMPLETE" \in startups[s] =>
    "BEGIN" \in startups[s] /\ pc[ChildOf[s]] \in Ended

\* A started process ends: no sweep waits for a lock, and a startup workflow
\* waits for a sweep that ends, refused or not.
EveryProcessEnds == \A p \in Proc : pc[p] = "start" ~> pc[p] \in Ended
=============================================================================
