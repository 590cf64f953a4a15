-------------------------- MODULE TaskRunnerSerial --------------------------
(***************************************************************************)
(* The task layer as one operator drives it from a shell: commands on the  *)
(* same task never overlap, and none fails half-way. Under this discipline *)
(* it implements TaskQueue.                                                *)
(***************************************************************************)
EXTENDS TaskRunner

Busy(t) ==
  \/ \E p \in Runner : cur[p] = t /\ pc[p] \notin Ended \cup {"start"}
  \/ \E e \in Editor : target[e] = t /\ epc[e] = "write"

SerialNext ==
  \/ \E p \in Runner : \/ Load(p) /\ ~Busy(cur[p])
                       \/ pc[p] # "start" /\ RunnerStep(p)
  \/ \E e \in Editor : \/ EditLoad(e) /\ ~Busy(target[e])
                       \/ EditWrite(e)
  \/ \E t \in Task : Expire(t) \/ (ResetLock(t) /\ ~Busy(t))

SerialSpec == Init /\ [][SerialNext]_vars

Stage(t) == CASE queue[t] = NoFile -> "closed"
              [] queue[t] # NoFile /\ runs[t] > 0 -> "running"
              [] OTHER -> "queued"

\* The gate and the mark that a closed task had when it closed.
Last(t) == IF queue[t] = NoFile THEN archived[t] ELSE queue[t]

Abstract == INSTANCE TaskQueue WITH
  NoOutcome <- NoFile,
  stage     <- [t \in Task |-> Stage(t)],
  open      <- [t \in Task |-> Open(Last(t))],
  cancelled <- [t \in Task |-> Last(t).status = "cancelled"],
  outcome   <- [t \in Task |-> IF queue[t] = NoFile THEN history[t] ELSE NoFile],
  starts    <- runs

\* Commands that do not overlap run each task at most once, only while its
\* gate is open and it is not cancelled, and close it once, with one outcome
\* that nothing changes later (taskRunner.ts, taskStore.ts).
ImplementsTaskQueue == Abstract!Spec
=============================================================================
