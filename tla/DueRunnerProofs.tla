-------------------------- MODULE DueRunnerProofs --------------------------
(***************************************************************************)
(* Proofs of safety properties of DueRunner for any tasks, sweeps and      *)
(* startup workflows, any schedules and any number of faults.              *)
(***************************************************************************)
EXTENDS DueRunner, WellFoundedInduction, TLAPS

\* A set of file names has a first.
LEMMA LeastElement ==
  ASSUME NEW S, S \subseteq Nat, S # {}
  PROVE  \E x \in S : \A y \in S : x <= y
<1> DEFINE R == OpToRel(<, Nat)
<1>1. IsWellFoundedOn(R, Nat)
  BY NatLessThanWellFounded, Zenon
<1>2. \A y, x \in Nat : y < x => <<y, x>> \in R
  BY Zenon DEF OpToRel
<1> HIDE DEF R
<1>3. PICK x \in S : \A y \in S : <<y, x>> \notin R
  BY <1>1, WFMin
<1>4. \A y \in S : ~(y < x)
  BY <1>2, <1>3
<1> QED BY <1>4

LEMMA SetStatusType ==
  ASSUME NEW rec \in TaskRec, NEW s \in Status
  PROVE  SetStatus(rec, s) \in TaskRec
BY DEF SetStatus, TaskRec

LEMMA CountUp ==
  ASSUME NEW f \in [Task -> Nat], NEW t \in Task
  PROVE  [f EXCEPT ![t] = f[t] + 1] \in [Task -> Nat]
OBVIOUS

-----------------------------------------------------------------------------
(***************************************************************************)
(* Type correctness                                                        *)
(***************************************************************************)
\* A sweep has read the tasks it has yet to treat, and is at one of them when
\* it is in the body of its loop.
WorkInv ==
  \A p \in Sweep :
    /\ \A t \in work[p] : copy[p][t] \in TaskRec
    /\ pc[p] \in {"take", "run", "finish", "record"} => work[p] # {}

\* Sweeps and startup workflows are at steps of their own.
RoleInv ==
  /\ \A p \in Sweep : pc[p] \notin {"spawn", "wait", "complete"}
  /\ \A s \in Startup : pc[s] \notin {"list", "next", "take", "run", "finish", "record", "idle"}

TypeInv == TypeOK /\ WorkInv /\ RoleInv

LEMMA CurrentType ==
  ASSUME TypeInv, NEW p \in Sweep, work[p] # {}
  PROVE  Current(p) \in work[p] /\ Current(p) \in Task /\ copy[p][Current(p)] \in TaskRec
<1>1. work[p] \subseteq Task /\ work[p] \subseteq Nat
  BY TaskAssumption DEF TypeInv, TypeOK
<1>2. PICK t \in work[p] : \A s \in work[p] : t <= s
  BY <1>1, LeastElement
<1>3. Current(p) \in work[p]
  BY <1>2 DEF Current
<1> QED BY <1>1, <1>3 DEF TypeInv, WorkInv

\* A sweep is done with a task: the rest of its list stays.
WorkShrinks(p) ==
  /\ work' \in [Sweep -> SUBSET Task]
  /\ \A q \in Sweep : work'[q] \subseteq work[q]
  /\ \A q \in Sweep \ {p} : work'[q] = work[q]

LEMMA TreatedFacts ==
  ASSUME TypeInv, NEW p \in Sweep, Treated(p) \/ UNCHANGED work
  PROVE  WorkShrinks(p)
<1>1. work \in [Sweep -> SUBSET Task]
  BY DEF TypeInv, TypeOK
<1>2. CASE Treated(p)
  <2> DEFINE t == Current(p)
  <2>1. work' = [work EXCEPT ![p] = work[p] \ {t}]
    BY <1>2 DEF Treated
  <2> HIDE DEF t
  <2> QED BY <1>1, <2>1 DEF WorkShrinks
<1> QED BY <1>1, <1>2 DEF WorkShrinks

LEMMA TypeInductive == TypeInv /\ [Next]_vars => TypeInv'
<1> SUFFICES ASSUME TypeInv, [Next]_vars PROVE TypeInv'
  OBVIOUS
<1> USE TaskAssumption, ScheduleAssumption, ProcessAssumption, TimeAssumption
<1> USE DEF TypeOK, WorkInv, RoleInv, Pc, Ended, Proc, Goto, files, procs, ghosts
<1>1. ASSUME NEW p \in Proc, CheckGlobal(p) PROVE TypeInv'
  <2>1. tainted' \subseteq LockName
    <3>1. \A q \in Proc : NameOf(q) \in LockName
      BY DEF NameOf, LockName
    <3>2. tainted \subseteq LockName
      BY DEF TypeInv
    <3>3. CASE UNCHANGED tainted
      BY <3>2, <3>3
    <3>4. CASE tainted' = tainted \cup {NameOf(q) : q \in
                 {r \in Proc \ {p} : NameOf(r) = NameOf(p) /\ InWindow(r)}}
      BY <3>1, <3>2, <3>4
    <3> QED BY <1>1, <3>3, <3>4 DEF CheckGlobal
  <2>2. pc' \in [Proc -> Pc] /\ \A q \in Proc : pc'[q] = pc[q] \/ pc'[q] \in {"refused", "write", "clear"}
    BY <1>1 DEF CheckGlobal, TypeInv
  <2>3. UNCHANGED <<clock, files, work, copy, faults, runs, broken, touched, taken>>
    BY <1>1 DEF CheckGlobal
  <2> QED BY <2>1, <2>2, <2>3 DEF TypeInv
<1>2. ASSUME NEW p \in Proc, ClearGlobal(p) PROVE TypeInv'
  BY <1>2 DEF ClearGlobal, TypeInv, LockName, NameOf
<1>3. ASSUME NEW p \in Proc, WriteGlobal(p) PROVE TypeInv'
  <2>1. [owner |-> p, expires |-> clock + Ttl] \in Lock /\ NameOf(p) \in LockName
    BY DEF Lock, TypeInv, LockName, NameOf
  <2>2. globalLock' \in [LockName -> Lock \cup {NoFile}]
    BY <1>3, <2>1 DEF WriteGlobal, TypeInv
  <2>3. pc' = [pc EXCEPT ![p] = IF p \in Startup THEN "spawn" ELSE "list"]
    BY <1>3 DEF WriteGlobal
  <2>4. UNCHANGED <<clock, queue, history, runState, taskLock, startups, work,
                    copy, faults, ghosts>>
    BY <1>3 DEF WriteGlobal
  <2> QED BY <2>2, <2>3, <2>4 DEF TypeInv
<1>4. ASSUME NEW p \in Proc, ReleaseGlobal(p) PROVE TypeInv'
  BY <1>4 DEF ReleaseGlobal, TypeInv, LockName, NameOf
<1>5. ASSUME NEW p \in Sweep, List(p) PROVE TypeInv'
  <2>1. copy' = [copy EXCEPT ![p] = queue] /\ queue \in [Task -> TaskRec \cup {NoFile}]
    BY <1>5 DEF List, TypeInv
  <2>2. work'[p] \subseteq {t \in Task : queue[t] # NoFile} /\ work' \in [Sweep -> SUBSET Task]
        /\ \A q \in Sweep \ {p} : work'[q] = work[q]
    BY <1>5 DEF List, TypeInv
  <2>3. pc' \in [Proc -> Pc] /\ pc'[p] \in {"idle", "next"} /\ \A q \in Proc \ {p} : pc'[q] = pc[q]
    BY <1>5 DEF List, TypeInv
  <2>4. UNCHANGED <<clock, files, faults, ghosts>>
    BY <1>5 DEF List
  <2>5. TypeOK'
    BY <2>1, <2>2, <2>3, <2>4 DEF TypeInv
  <2>6. WorkInv'
    BY <2>1, <2>2, <2>3 DEF TypeInv
  <2>7. RoleInv'
    BY <2>3 DEF TypeInv
  <2> QED BY <2>5, <2>6, <2>7 DEF TypeInv
<1>6. ASSUME NEW p \in Sweep, NextTask(p) PROVE TypeInv'
  <2>1. Treated(p) \/ UNCHANGED work
    BY <1>6 DEF NextTask
  <2>2. WorkShrinks(p)
    BY <2>1, TreatedFacts
  <2>3. \/ pc' \in {pc, [pc EXCEPT ![p] = "release"]} /\ pc[p] = "next"
        \/ pc' = [pc EXCEPT ![p] = "take"] /\ work' = work /\ work[p] # {}
    BY <1>6 DEF NextTask
  <2>4. UNCHANGED <<clock, files, copy, faults, ghosts>>
    BY <1>6 DEF NextTask
  <2>5. pc' \in [Proc -> Pc]
    BY <2>3 DEF TypeInv
  <2>6. \A q \in Proc \ {p} : pc'[q] = pc[q]
    BY <2>3 DEF TypeInv
  <2>7. pc'[p] \in {"next", "release"} \/ (pc'[p] = "take" /\ work'[p] # {})
    BY <2>3 DEF TypeInv
  <2>8. TypeOK'
    BY <2>2, <2>4, <2>5 DEF TypeInv, WorkShrinks
  <2>9. WorkInv'
    BY <2>2, <2>4, <2>6, <2>7 DEF TypeInv, WorkShrinks
  <2>10. RoleInv'
    BY <2>6, <2>7 DEF TypeInv
  <2> QED BY <2>8, <2>9, <2>10 DEF TypeInv
<1>7. ASSUME NEW p \in Sweep, TakeTask(p) PROVE TypeInv'
  <2> DEFINE t == Current(p)
  <2>0. work[p] # {} /\ t \in Task
    BY <1>7, CurrentType DEF TakeTask, TypeInv
  <2>1. Treated(p) \/ UNCHANGED work
    BY <1>7 DEF TakeTask
  <2>2. WorkShrinks(p)
    BY <2>1, TreatedFacts
  <2>3. [owner |-> p, expires |-> clock + Ttl] \in Lock
    BY DEF Lock, TypeInv
  <2>4. \/ pc' = [pc EXCEPT ![p] = "next"] /\ UNCHANGED <<taskLock, taken>>
        \/ /\ pc' = [pc EXCEPT ![p] = "run"] /\ work' = work
           /\ taskLock' = [taskLock EXCEPT ![t] = [owner |-> p, expires |-> clock + Ttl]]
           /\ taken' = [taken EXCEPT ![p] = @ \cup {t}]
    BY <1>7 DEF TakeTask
  <2>5. UNCHANGED <<clock, queue, history, runState, globalLock, startups, copy,
                    faults, runs, broken, touched, tainted>>
    BY <1>7 DEF TakeTask
  <2> HIDE DEF t
  <2>6. taskLock' \in [Task -> Lock \cup {NoFile}] /\ taken' \in [Sweep -> SUBSET Task]
    <3>1. taskLock \in [Task -> Lock \cup {NoFile}] /\ taken \in [Sweep -> SUBSET Task]
      BY DEF TypeInv
    <3> QED BY <2>0, <2>3, <2>4, <3>1
  <2>7. pc' \in [Proc -> Pc]
    <3>1. pc \in [Proc -> Pc]
      BY DEF TypeInv
    <3>2. pc' = [pc EXCEPT ![p] = "next"] \/ pc' = [pc EXCEPT ![p] = "run"]
      BY <2>4
    <3> QED BY <3>1, <3>2
  <2>8. TypeOK'
    BY <2>2, <2>5, <2>6, <2>7 DEF TypeInv, WorkShrinks
  <2>9. /\ \A q \in Proc \ {p} : pc'[q] = pc[q]
        /\ pc'[p] = "next" \/ (pc'[p] = "run" /\ work'[p] # {})
    BY <2>0, <2>4 DEF TypeInv
  <2>10. WorkInv'
    BY <2>2, <2>5, <2>9 DEF TypeInv, WorkShrinks
  <2>11. RoleInv'
    BY <2>9 DEF TypeInv
  <2> QED BY <2>8, <2>10, <2>11 DEF TypeInv
<1>8. ASSUME NEW p \in Sweep, RunBody(p) PROVE TypeInv'
  <2> DEFINE t == Current(p)
  <2>0. work[p] # {} /\ t \in Task /\ SetStatus(copy[p][t], "running") \in TaskRec
    BY <1>8, CurrentType, SetStatusType DEF RunBody, TypeInv, Status
  <2> HIDE DEF t
  <2>1. queue' \in [Task -> TaskRec \cup {NoFile}] /\ runs' \in [Task -> Nat]
    <3>1. queue \in [Task -> TaskRec \cup {NoFile}] /\ runs \in [Task -> Nat]
      BY DEF TypeInv
    <3>2. /\ queue' = [queue EXCEPT ![t] = SetStatus(copy[p][t], "running")]
          /\ runs'  = [runs EXCEPT ![t] = runs[t] + 1]
      BY <1>8 DEF RunBody, t
    <3>3. queue' \in [Task -> TaskRec \cup {NoFile}]
      BY <2>0, <3>1, <3>2, Zenon
    <3>4. runs' \in [Task -> Nat]
      BY <2>0, <3>1, <3>2, CountUp, Zenon
    <3> QED BY <3>3, <3>4
  <2>2. pc' = [pc EXCEPT ![p] = "finish"]
    BY <1>8 DEF RunBody
  <2>3. UNCHANGED <<clock, history, runState, taskLock, globalLock, startups, work,
                    copy, faults, broken, touched, tainted, taken>>
    BY <1>8 DEF RunBody
  <2> QED BY <2>0, <2>1, <2>2, <2>3 DEF TypeInv
<1>9. ASSUME NEW p \in Sweep, FinishTask(p) PROVE TypeInv'
  <2> DEFINE t == Current(p)
  <2>0. work[p] # {} /\ t \in Task
    BY <1>9, CurrentType DEF FinishTask, TypeInv
  <2> HIDE DEF t
  <2>1. /\ history' \in [Task -> Outcomes \cup {NoFile}]
        /\ queue' \in [Task -> TaskRec \cup {NoFile}]
        /\ taskLock' \in [Task -> Lock \cup {NoFile}]
    BY <1>9, <2>0 DEF FinishTask, Dequeue, TypeInv, t
  <2>2. Treated(p) \/ UNCHANGED work
    BY <1>9 DEF FinishTask
  <2>3. WorkShrinks(p)
    BY <2>2, TreatedFacts
  <2>4. \/ pc' = [pc EXCEPT ![p] = "next"]
        \/ pc' = [pc EXCEPT ![p] = "record"] /\ work' = work
    <3>1. PICK outcome \in Outcomes :
             /\ Goto(p, AfterRun(outcome))
             /\ IF AfterRun(outcome) = "next" THEN Treated(p) ELSE UNCHANGED work
      BY <1>9 DEF FinishTask
    <3> QED BY <3>1 DEF AfterRun
  <2>5. UNCHANGED <<clock, runState, globalLock, startups, copy, faults, ghosts>>
    BY <1>9 DEF FinishTask
  <2>6. TypeOK'
    BY <2>1, <2>3, <2>4, <2>5 DEF TypeInv, WorkShrinks
  <2>7. /\ \A q \in Proc \ {p} : pc'[q] = pc[q]
        /\ pc'[p] = "next" \/ (pc'[p] = "record" /\ work'[p] # {})
    BY <2>0, <2>4 DEF TypeInv
  <2>8. WorkInv'
    BY <2>3, <2>5, <2>7 DEF TypeInv, WorkShrinks
  <2>9. RoleInv'
    BY <2>7 DEF TypeInv
  <2> QED BY <2>6, <2>8, <2>9 DEF TypeInv
<1>10. ASSUME NEW p \in Sweep, RecordRun(p) PROVE TypeInv'
  <2>1. runState' \in [Task -> Nat \cup {NoFile}]
    BY <1>10 DEF RecordRun, TypeInv
  <2>2. pc' = [pc EXCEPT ![p] = "next"] /\ WorkShrinks(p)
    BY <1>10, TreatedFacts DEF RecordRun
  <2>3. UNCHANGED <<clock, queue, history, taskLock, globalLock, startups, copy,
                    faults, ghosts>>
    BY <1>10 DEF RecordRun
  <2> QED BY <2>1, <2>2, <2>3 DEF TypeInv, WorkShrinks
<1>11. ASSUME NEW s \in Startup, Spawn(s) PROVE TypeInv'
  BY <1>11 DEF Spawn, TypeInv
<1>12. ASSUME NEW s \in Startup, Wait(s) PROVE TypeInv'
  BY <1>12 DEF Wait, TypeInv
<1>13. ASSUME NEW s \in Startup, Complete(s) PROVE TypeInv'
  BY <1>13 DEF Complete, TypeInv
<1>14. CASE Tick
  BY <1>14 DEF Tick, TypeInv
<1>15. ASSUME NEW p \in Proc, Crash(p) PROVE TypeInv'
  <2>1. broken' \in [Task -> Nat]
    BY <1>15 DEF Crash, Breaks, TypeInv
  <2>2. pc' = [pc EXCEPT ![p] = "dead"] /\ faults' \in Nat
    BY <1>15 DEF Crash, TypeInv
  <2>3. UNCHANGED <<clock, files, work, copy, runs, touched, tainted, taken>>
    BY <1>15 DEF Crash
  <2> QED BY <2>1, <2>2, <2>3 DEF TypeInv
<1>16. ASSUME NEW p \in Proc, Throw(p) PROVE TypeInv'
  <2>1. broken' \in [Task -> Nat]
    BY <1>16 DEF Throw, Breaks, TypeInv
  <2>2. taskLock' \in [Task -> Lock \cup {NoFile}]
    BY <1>16 DEF Throw, TypeInv
  <2>3. (pc' = [pc EXCEPT ![p] = "dead"] \/ pc' = [pc EXCEPT ![p] = "release"]) /\ faults' \in Nat
    BY <1>16 DEF Throw, TypeInv
  <2>4. UNCHANGED <<clock, queue, history, runState, globalLock, startups, work,
                    copy, runs, touched, tainted, taken>>
    BY <1>16 DEF Throw
  <2>5. /\ pc' \in [Proc -> Pc]
        /\ \A q \in Proc : pc'[q] = pc[q] \/ pc'[q] \in {"dead", "release"}
    BY <2>3 DEF TypeInv
  <2>6. TypeOK'
    BY <2>1, <2>2, <2>3, <2>4, <2>5 DEF TypeInv
  <2>7. WorkInv' /\ RoleInv'
    BY <2>4, <2>5 DEF TypeInv
  <2> QED BY <2>6, <2>7 DEF TypeInv
<1>17. ASSUME NEW n \in LockName, ResetGlobal(n) PROVE TypeInv'
  BY <1>17 DEF ResetGlobal, TypeInv
<1>18. ASSUME NEW t \in Task, Cancel(t) PROVE TypeInv'
  <2>1. SetStatus(queue[t], "cancelled") \in TaskRec
    BY <1>18, SetStatusType DEF Cancel, TypeInv, Status
  <2> QED BY <1>18, <2>1 DEF Cancel, TypeInv
<1>19. ASSUME NEW t \in Task, RunByHand(t) PROVE TypeInv'
  BY <1>19 DEF RunByHand, Dequeue, TypeInv
<1>20. CASE UNCHANGED vars
  BY <1>20 DEF vars, TypeInv
<1> QED
  BY <1>1, <1>2, <1>3, <1>4, <1>5, <1>6, <1>7, <1>8, <1>9, <1>10, <1>11, <1>12, <1>13,
     <1>14, <1>15, <1>16, <1>17, <1>18, <1>19, <1>20
  DEF Next, ProcStep, LockStep, SweepStep, StartupStep

LEMMA TypeInitial == Init => TypeInv
<1> SUFFICES ASSUME Init PROVE TypeInv
  OBVIOUS
<1> USE ScheduleAssumption, ProcessAssumption DEF Init
<1>1. queue \in [Task -> TaskRec \cup {NoFile}]
  OBVIOUS
<1>2. pc \in [Proc -> {"unborn", "start"}]
  OBVIOUS
<1> QED BY <1>1, <1>2 DEF TypeInv, TypeOK, WorkInv, RoleInv, Pc, Proc

\* The due-task layer keeps its types (taskTypes.ts, GlobalLock, TaskRunState).
THEOREM TypeCorrect == Spec => []TypeOK
<1>1. TypeInv => TypeOK
  BY DEF TypeInv
<1> QED BY <1>1, TypeInitial, TypeInductive, PTL DEF Spec

-----------------------------------------------------------------------------
(***************************************************************************)
(* What the steps of a process do to the state that processes share        *)
(***************************************************************************)
Loop == {"list", "next", "take", "run", "finish", "record"}

Others(p) == \A q \in Proc \ {p} : pc'[q] = pc[q]

LEMMA SweepFacts ==
  ASSUME TypeInv, NEW p \in Sweep, SweepStep(p)
  PROVE  /\ UNCHANGED <<clock, globalLock, startups, touched, tainted, broken>>
         /\ pc[p] \in Loop /\ pc'[p] \in Loop \cup {"idle", "release"} /\ Others(p)
<1>1. p \in Proc /\ pc \in [Proc -> Pc]
  BY DEF Proc, TypeInv, TypeOK
<1>2. UNCHANGED <<clock, globalLock, startups, touched, tainted, broken>>
  BY DEF SweepStep, List, NextTask, TakeTask, RunBody, FinishTask, RecordRun, files, ghosts
<1>3. pc[p] \in Loop
  BY DEF SweepStep, List, NextTask, TakeTask, RunBody, FinishTask, RecordRun, Loop
<1>4. \E l \in Loop \cup {"idle", "release"} : pc' = [pc EXCEPT ![p] = l]
  <2>1. CASE List(p)
    BY <2>1 DEF List, Goto, Loop
  <2>2. CASE NextTask(p)
    <3>1. pc' = pc => pc' = [pc EXCEPT ![p] = pc[p]]
      BY <1>1
    <3>2. pc' \in {pc, [pc EXCEPT ![p] = "release"], [pc EXCEPT ![p] = "take"]}
      BY <2>2 DEF NextTask, Goto
    <3> QED BY <3>1, <3>2, <1>3 DEF Loop
  <2>3. CASE TakeTask(p)
    BY <2>3 DEF TakeTask, Goto, Loop
  <2>4. CASE RunBody(p)
    BY <2>4 DEF RunBody, Goto, Loop
  <2>5. CASE FinishTask(p)
    <3>1. PICK outcome \in Outcomes : Goto(p, AfterRun(outcome))
      BY <2>5 DEF FinishTask
    <3> QED BY <3>1 DEF AfterRun, Goto, Loop
  <2>6. CASE RecordRun(p)
    BY <2>6 DEF RecordRun, Goto, Loop
  <2> QED BY <2>1, <2>2, <2>3, <2>4, <2>5, <2>6 DEF SweepStep
<1> QED BY <1>1, <1>2, <1>3, <1>4 DEF Others

LEMMA FaultFacts ==
  ASSUME TypeInv, NEW p \in Proc, Crash(p) \/ Throw(p)
  PROVE  /\ UNCHANGED <<clock, globalLock, startups, touched, tainted, queue, work, runs>>
         /\ pc[p] \notin Ended \cup {"unborn"} /\ Breaks(p)
         /\ pc'[p] = "dead" \/ (pc'[p] = "release" /\ Inside(p))
         /\ Others(p)
<1>1. pc \in [Proc -> Pc]
  BY DEF TypeInv, TypeOK
<1>2. CASE Crash(p)
  BY <1>1, <1>2 DEF Crash, Goto, files, Others
<1>3. CASE Throw(p)
  <2>1. \/ pc[p] \in {"start", "clear", "write", "release"} /\ Goto(p, "dead")
        \/ pc[p] \in Loop \cup {"spawn", "complete"} /\ Goto(p, "release")
    BY <1>3 DEF Throw, Loop
  <2>2. pc[p] \notin Ended \cup {"unborn"} /\ Others(p)
        /\ (pc'[p] = "dead" \/ (pc'[p] = "release" /\ Inside(p)))
    BY <1>1, <2>1 DEF Goto, Others, Ended, Inside, Loop
  <2> QED BY <1>3, <2>2 DEF Throw
<1> QED BY <1>2, <1>3

-----------------------------------------------------------------------------
(***************************************************************************)
(* The startup workflow waits for its child                                *)
(***************************************************************************)
StartInv ==
  /\ StartupWaits
  /\ \A s \in Startup :
       /\ pc[s] \in {"start", "clear", "write", "spawn"} =>
            startups[s] = {} /\ pc[ChildOf[s]] = "unborn"
       /\ pc[s] \in {"wait", "complete"} => "BEGIN" \in startups[s]
       /\ pc[s] = "complete" => pc[ChildOf[s]] \in Ended

LEMMA StartInductive == TypeInv /\ StartInv /\ [Next]_vars => StartInv'
<1> SUFFICES ASSUME TypeInv, StartInv, [Next]_vars PROVE StartInv'
  OBVIOUS
<1> USE ProcessAssumption
<1>0. /\ pc \in [Proc -> Pc] /\ DOMAIN startups = Startup
      /\ \A s \in Startup : s \in Proc /\ ChildOf[s] \in Proc /\ ChildOf[s] \in Sweep
      /\ \A p \in Proc : p \in Sweep \/ p \in Startup
  BY DEF TypeInv, TypeOK, Proc
\* A step of a process that stays before, or past, the spawn.
<1>1. ASSUME UNCHANGED startups, NEW p \in Proc, Others(p),
             pc[p] \notin Ended \cup {"unborn", "wait"}, pc'[p] \notin {"start", "unborn", "wait", "complete"},
             pc'[p] \in {"clear", "write", "spawn"} => pc[p] \in {"start", "clear", "write", "spawn"}
      PROVE  StartInv'
  BY <1>0, <1>1, SMTT(30) DEF StartInv, StartupWaits, Others, Ended
<1>2. ASSUME UNCHANGED <<pc, startups>> PROVE StartInv'
  BY <1>2 DEF StartInv, StartupWaits
<1>3. ASSUME NEW p \in Proc, LockStep(p) PROVE StartInv'
  <2>1. UNCHANGED startups
    BY <1>3 DEF LockStep, CheckGlobal, ClearGlobal, WriteGlobal, ReleaseGlobal, files
  <2>2. pc[p] \in {"start", "clear", "write", "release"}
    BY <1>3 DEF LockStep, CheckGlobal, ClearGlobal, WriteGlobal, ReleaseGlobal
  <2>3. \E l \in {"refused", "write", "clear", "spawn", "list", "done"} :
          pc' = [pc EXCEPT ![p] = l] /\ (pc[p] = "release" => l = "done")
    BY <1>3 DEF LockStep, CheckGlobal, ClearGlobal, WriteGlobal, ReleaseGlobal, Goto
  <2>4. /\ Others(p) /\ pc'[p] \in {"refused", "write", "clear", "spawn", "list", "done"}
        /\ pc[p] = "release" => pc'[p] = "done"
    BY <1>0, <2>3 DEF Others
  <2> QED BY <1>1, <2>1, <2>2, <2>4 DEF Ended
<1>4. ASSUME NEW p \in Sweep, SweepStep(p) PROVE StartInv'
  <2>1. p \in Proc
    BY DEF Proc
  <2> QED BY <1>1, <1>4, <2>1, SweepFacts DEF Loop, Ended
<1>5. ASSUME NEW s \in Startup, Spawn(s) PROVE StartInv'
  <2>1. /\ startups' = [startups EXCEPT ![s] = @ \cup {"BEGIN"}] /\ pc[s] = "spawn"
        /\ pc' = [pc EXCEPT ![s] = "wait", ![ChildOf[s]] = "start"]
    BY <1>5 DEF Spawn
  <2>2. s # ChildOf[s] /\ \A r \in Startup \ {s} : ChildOf[r] # s /\ ChildOf[r] # ChildOf[s] /\ r # ChildOf[s]
    BY <1>0
  <2>3. pc'[s] = "wait" /\ \A r \in Startup \ {s} : pc'[r] = pc[r] /\ pc'[ChildOf[r]] = pc[ChildOf[r]]
    BY <1>0, <2>1, <2>2
  <2>4. startups'[s] = {"BEGIN"} /\ \A r \in Startup \ {s} : startups'[r] = startups[r]
    BY <1>0, <2>1 DEF StartInv
  <2> QED BY <2>3, <2>4 DEF StartInv, StartupWaits
<1>6. ASSUME NEW s \in Startup, Wait(s) PROVE StartInv'
  <2>1. /\ UNCHANGED startups /\ pc[s] = "wait" /\ pc[ChildOf[s]] \in Ended
        /\ pc' = [pc EXCEPT ![s] = "complete"]
    BY <1>6 DEF Wait, Goto, files
  <2>2. pc'[s] = "complete" /\ \A p \in Proc \ {s} : pc'[p] = pc[p]
    BY <1>0, <2>1
  <2>3. \A r \in Startup : pc'[ChildOf[r]] = pc[ChildOf[r]]
    BY <1>0, <2>2
  <2> QED BY <1>0, <2>1, <2>2, <2>3 DEF StartInv, StartupWaits
<1>7. ASSUME NEW s \in Startup, Complete(s) PROVE StartInv'
  <2>1. /\ startups' = [startups EXCEPT ![s] = @ \cup {"COMPLETE"}] /\ pc[s] = "complete"
        /\ pc' = [pc EXCEPT ![s] = "release"]
    BY <1>7 DEF Complete, Goto
  <2>2. pc'[s] = "release" /\ \A p \in Proc \ {s} : pc'[p] = pc[p]
    BY <1>0, <2>1
  <2>3. \A r \in Startup : pc'[ChildOf[r]] = pc[ChildOf[r]]
    BY <1>0, <2>2
  <2>4. startups'[s] = startups[s] \cup {"COMPLETE"} /\ \A r \in Startup \ {s} : startups'[r] = startups[r]
    BY <1>0, <2>1
  <2> QED BY <1>0, <2>1, <2>2, <2>3, <2>4 DEF StartInv, StartupWaits
<1>8. ASSUME NEW p \in Proc, Crash(p) \/ Throw(p) PROVE StartInv'
  <2>1. /\ UNCHANGED startups /\ Others(p) /\ pc[p] \notin Ended \cup {"unborn"}
        /\ pc'[p] \in {"dead", "release"}
    BY <1>8, FaultFacts
  <2> QED BY <1>0, <2>1, SMTT(30) DEF StartInv, StartupWaits, Others, Ended
<1>9. CASE Tick
  BY <1>2, <1>9 DEF Tick, files, procs
<1>10. ASSUME NEW n \in LockName, ResetGlobal(n) PROVE StartInv'
  BY <1>2, <1>10 DEF ResetGlobal, procs
<1>11. ASSUME NEW t \in Task, Cancel(t) \/ RunByHand(t) PROVE StartInv'
  BY <1>2, <1>11 DEF Cancel, RunByHand, procs
<1>12. CASE UNCHANGED vars
  BY <1>2, <1>12 DEF vars, files, procs
<1> QED
  BY <1>3, <1>4, <1>5, <1>6, <1>7, <1>8, <1>9, <1>10, <1>11, <1>12
  DEF Next, ProcStep, StartupStep

LEMMA StartInitial == Init => StartInv
BY ProcessAssumption DEF Init, StartInv, StartupWaits, Proc

\* The audit event of a complete startup comes after the end of its sweep,
\* whatever becomes of either (run-startup.ts).
THEOREM StartupCorrect == Spec => []StartupWaits
<1>1. StartInv => StartupWaits
  BY DEF StartInv
<1> QED BY <1>1, TypeInitial, TypeInductive, StartInitial, StartInductive, PTL DEF Spec

-----------------------------------------------------------------------------
(***************************************************************************)
(* The global lock                                                         *)
(***************************************************************************)
Held(p) == Inside(p) \/ InWindow(p)

\* On an untainted name one process at most is past its check, and inside the
\* lock the file is there and has not expired.
LockInv ==
  \A n \in LockName \ tainted :
    /\ \A p, q \in Proc : NameOf(p) = n /\ NameOf(q) = n /\ Held(p) /\ Held(q) => p = q
    /\ \A p \in Proc : NameOf(p) = n /\ Inside(p) =>
         globalLock[n] # NoFile /\ globalLock[n].expires > clock

LEMMA LockInductive == TypeInv /\ LockInv /\ [Next]_vars => LockInv'
<1> SUFFICES ASSUME TypeInv, LockInv, [Next]_vars PROVE LockInv'
  OBVIOUS
<1> USE ProcessAssumption, TimeAssumption
<1>0. /\ pc \in [Proc -> Pc] /\ globalLock \in [LockName -> Lock \cup {NoFile}] /\ clock \in Nat
      /\ \A p \in Proc : NameOf(p) \in LockName
      /\ \A s \in Startup : s \in Proc /\ ChildOf[s] \in Proc
  BY DEF TypeInv, TypeOK, Proc, NameOf, LockName
\* A step that touches neither lock nor clock and lets nobody in.
<1>1. ASSUME UNCHANGED <<globalLock, clock>>, tainted \subseteq tainted',
             \A p \in Proc : (Held(p)' => Held(p)) /\ (Inside(p)' => Inside(p))
      PROVE  LockInv'
  BY <1>1 DEF LockInv
<1>2. ASSUME NEW p \in Proc, CheckGlobal(p) PROVE LockInv'
  <2>1. UNCHANGED <<globalLock, clock>> /\ pc[p] = "start" /\ tainted \subseteq tainted'
    BY <1>2 DEF CheckGlobal, files
  <2>2. CASE pc' = [pc EXCEPT ![p] = "refused"]
    BY <1>0, <1>1, <2>1, <2>2 DEF Held, Inside, InWindow
  <2>3. CASE /\ Free(globalLock[NameOf(p)]) /\ pc' \in {[pc EXCEPT ![p] = "write"], [pc EXCEPT ![p] = "clear"]}
             /\ tainted' = tainted \cup {NameOf(q) : q \in
                  {r \in Proc \ {p} : NameOf(r) = NameOf(p) /\ InWindow(r)}}
    <3>1. /\ \A q \in Proc \ {p} : (Held(q)' <=> Held(q)) /\ (Inside(q)' <=> Inside(q))
          /\ ~Inside(p)'
      BY <1>0, <2>3 DEF Held, Inside, InWindow
    <3>2. NameOf(p) \notin tainted' => \A q \in Proc \ {p} : NameOf(q) = NameOf(p) => ~Held(q)
      <4> SUFFICES ASSUME NameOf(p) \notin tainted', NEW q \in Proc \ {p}, NameOf(q) = NameOf(p)
                   PROVE  ~Held(q)
        OBVIOUS
      <4>1. ~InWindow(q)
        BY <2>3
      <4>2. ~Inside(q)
        <5>1. NameOf(p) \in LockName \ tainted
          BY <1>0, <2>1
        <5>2. ~(globalLock[NameOf(p)] # NoFile /\ globalLock[NameOf(p)].expires > clock)
          BY <1>0, <2>3 DEF Free, Expired, Lock
        <5> QED BY <5>1, <5>2 DEF LockInv
      <4> QED BY <4>1, <4>2 DEF Held
    <3> QED BY <2>1, <3>1, <3>2 DEF LockInv
  <2> QED BY <1>2, <2>2, <2>3 DEF CheckGlobal, Goto
<1>3. ASSUME NEW p \in Proc, ClearGlobal(p) PROVE LockInv'
  <2>1. /\ UNCHANGED <<clock, tainted>> /\ pc[p] = "clear" /\ pc' = [pc EXCEPT ![p] = "write"]
        /\ globalLock' = [globalLock EXCEPT ![NameOf(p)] = NoFile]
    BY <1>3 DEF ClearGlobal, Goto, ghosts
  <2>2. /\ \A q \in Proc : (Held(q)' <=> Held(q)) /\ (Inside(q)' <=> Inside(q))
        /\ Held(p) /\ ~Inside(p)
    BY <1>0, <2>1 DEF Held, Inside, InWindow
  <2>3. \A n \in LockName \ {NameOf(p)} : globalLock'[n] = globalLock[n]
    BY <1>0, <2>1
  <2>4. NameOf(p) \notin tainted => \A q \in Proc : NameOf(q) = NameOf(p) => ~Inside(q)
    BY <1>0, <2>2 DEF LockInv, Held
  <2> QED BY <2>1, <2>2, <2>3, <2>4 DEF LockInv
<1>4. ASSUME NEW p \in Proc, WriteGlobal(p) PROVE LockInv'
  <2>1. /\ UNCHANGED <<clock, tainted>> /\ pc[p] = "write"
        /\ pc' \in {[pc EXCEPT ![p] = "spawn"], [pc EXCEPT ![p] = "list"]}
        /\ globalLock' = [globalLock EXCEPT ![NameOf(p)] = [owner |-> p, expires |-> clock + Ttl]]
    BY <1>4 DEF WriteGlobal, Goto, ghosts
  <2>2. /\ \A q \in Proc : Held(q)' <=> Held(q)
        /\ \A q \in Proc \ {p} : Inside(q)' <=> Inside(q)
        /\ Held(p) /\ ~Inside(p)
    BY <1>0, <2>1 DEF Held, Inside, InWindow
  <2>3. \A n \in LockName \ {NameOf(p)} : globalLock'[n] = globalLock[n]
    BY <1>0, <2>1
  <2>4. [owner |-> p, expires |-> clock + Ttl] # NoFile
    BY <1>0, NoFileAssumption DEF Lock
  <2>5. globalLock'[NameOf(p)] # NoFile /\ globalLock'[NameOf(p)].expires > clock
    BY <1>0, <2>1, <2>4
  <2>6. NameOf(p) \notin tainted => \A q \in Proc \ {p} : NameOf(q) = NameOf(p) => ~Held(q)
    BY <1>0, <2>2 DEF LockInv
  <2> QED BY <2>1, <2>2, <2>3, <2>5, <2>6 DEF LockInv
<1>5. ASSUME NEW p \in Proc, ReleaseGlobal(p) PROVE LockInv'
  <2>1. /\ UNCHANGED <<clock, tainted>> /\ pc[p] = "release" /\ pc' = [pc EXCEPT ![p] = "done"]
        /\ globalLock' = [globalLock EXCEPT ![NameOf(p)] = NoFile]
    BY <1>5 DEF ReleaseGlobal, Goto, ghosts
  <2>2. /\ \A q \in Proc \ {p} : (Held(q)' <=> Held(q)) /\ (Inside(q)' <=> Inside(q))
        /\ Held(p) /\ ~Held(p)' /\ ~Inside(p)'
    BY <1>0, <2>1 DEF Held, Inside, InWindow
  <2>3. \A n \in LockName \ {NameOf(p)} : globalLock'[n] = globalLock[n]
    BY <1>0, <2>1
  <2>4. NameOf(p) \notin tainted => \A q \in Proc \ {p} : NameOf(q) = NameOf(p) => ~Inside(q)
    BY <1>0, <2>2 DEF LockInv, Held
  <2> QED BY <2>1, <2>2, <2>3, <2>4 DEF LockInv
<1>6. ASSUME NEW p \in Sweep, SweepStep(p) PROVE LockInv'
  <2>1. p \in Proc
    BY DEF Proc
  <2>2. /\ UNCHANGED <<clock, globalLock, tainted>> /\ Others(p)
        /\ pc[p] \in Loop /\ pc'[p] \in Loop \cup {"idle", "release"}
    BY <1>6, SweepFacts
  <2> QED BY <1>1, <2>1, <2>2 DEF Others, Held, Inside, InWindow, Loop
<1>7. ASSUME NEW s \in Startup, StartupStep(s) PROVE LockInv'
  <2>1. CASE Spawn(s)
    BY <1>0, <1>1, <2>1 DEF Spawn, Held, Inside, InWindow, ghosts
  <2>2. CASE Wait(s)
    BY <1>0, <1>1, <2>2 DEF Wait, Goto, Held, Inside, InWindow, files, ghosts
  <2>3. CASE Complete(s)
    BY <1>0, <1>1, <2>3 DEF Complete, Goto, Held, Inside, InWindow, ghosts
  <2> QED BY <1>7, <2>1, <2>2, <2>3 DEF StartupStep
<1>8. ASSUME NEW p \in Proc, Crash(p) \/ Throw(p) PROVE LockInv'
  <2>1. /\ UNCHANGED <<clock, globalLock, tainted>> /\ Others(p)
        /\ pc'[p] = "dead" \/ (pc'[p] = "release" /\ Inside(p))
    BY <1>8, FaultFacts
  <2> QED BY <1>1, <2>1 DEF Others, Held, Inside, InWindow
<1>9. CASE Tick
  <2>1. /\ UNCHANGED <<pc, globalLock>> /\ clock' = clock + 1
        /\ tainted' = tainted \cup {n \in LockName : OverdueAt(clock + 1, n)}
    BY <1>9 DEF Tick, files, procs
  <2>2. \A n \in LockName \ tainted' : n \notin tainted /\ ~OverdueAt(clock + 1, n)
    BY <2>1
  <2>3. \A p \in Proc : (Held(p)' <=> Held(p)) /\ (Inside(p)' <=> Inside(p))
    BY <2>1 DEF Held, Inside, InWindow
  <2>4. ASSUME NEW n \in LockName \ tainted', NEW p \in Proc, NameOf(p) = n, Inside(p)
        PROVE  globalLock[n] # NoFile /\ globalLock[n].expires > clock + 1
    <3>1. globalLock[n] # NoFile
      BY <2>2, <2>4 DEF LockInv
    <3>2. ~(globalLock[n].expires <= clock + 1)
      BY <2>2, <2>4, <3>1 DEF OverdueAt
    <3>3. globalLock[n].expires \in Nat
      BY <1>0, <3>1 DEF Lock
    <3> QED BY <1>0, <3>1, <3>2, <3>3
  <2> QED BY <2>1, <2>2, <2>3, <2>4 DEF LockInv
<1>10. ASSUME NEW n \in LockName, ResetGlobal(n) PROVE LockInv'
  <2>1. /\ UNCHANGED <<pc, clock>> /\ globalLock' = [globalLock EXCEPT ![n] = NoFile]
        /\ tainted' = tainted \cup {m \in {n} : \E p \in Proc : NameOf(p) = m /\ Inside(p)}
    BY <1>10 DEF ResetGlobal, procs
  <2>2. \A p \in Proc : (Held(p)' <=> Held(p)) /\ (Inside(p)' <=> Inside(p))
    BY <2>1 DEF Held, Inside, InWindow
  <2>3. \A m \in LockName \ {n} : globalLock'[m] = globalLock[m]
    BY <1>0, <2>1
  <2>4. n \notin tainted' => \A p \in Proc : NameOf(p) = n => ~Inside(p)
    BY <2>1
  <2> QED BY <2>1, <2>2, <2>3, <2>4 DEF LockInv
<1>11. ASSUME NEW t \in Task, Cancel(t) \/ RunByHand(t) PROVE LockInv'
  BY <1>1, <1>11 DEF Cancel, RunByHand, procs, ghosts, Held, Inside, InWindow
<1>12. CASE UNCHANGED vars
  BY <1>1, <1>12 DEF vars, files, procs, ghosts, Held, Inside, InWindow
<1> QED
  BY <1>2, <1>3, <1>4, <1>5, <1>6, <1>7, <1>8, <1>9, <1>10, <1>11, <1>12
  DEF Next, ProcStep, LockStep

LEMMA LockInitial == Init => LockInv
BY ProcessAssumption DEF Init, LockInv, Held, Inside, InWindow, Proc

\* Sweeps exclude each other, and startups do, except for the three causes that
\* taint a lock (globalLock.ts).
THEOREM ExclusionCorrect == Spec => []SweepsExclude
<1>1. TypeInv /\ LockInv => SweepsExclude
  BY DEF LockInv, SweepsExclude, Held, NameOf, LockName
<1> QED BY <1>1, TypeInitial, TypeInductive, LockInitial, LockInductive, PTL DEF Spec

\* The owner in a lock file is a process of that name, and inside, or left
\* without its finally block.
OwnerInv ==
  \A n \in LockName : globalLock[n] # NoFile =>
    LET p == globalLock[n].owner IN
      p \in Proc /\ NameOf(p) = n /\ (Inside(p) \/ pc[p] \in {"idle", "dead"})

LEMMA OwnerInductive == TypeInv /\ StartInv /\ OwnerInv /\ [Next]_vars => OwnerInv'
<1> SUFFICES ASSUME TypeInv, StartInv, OwnerInv, [Next]_vars PROVE OwnerInv'
  OBVIOUS
<1> USE ProcessAssumption
<1> DEFINE Holds(p) == Inside(p) \/ pc[p] \in {"idle", "dead"}
<1>0. /\ pc \in [Proc -> Pc] /\ globalLock \in [LockName -> Lock \cup {NoFile}]
      /\ \A p \in Proc : NameOf(p) \in LockName
      /\ \A s \in Startup : s \in Proc /\ ChildOf[s] \in Proc
  BY DEF TypeInv, TypeOK, Proc, NameOf, LockName
\* A step after which each lock is gone or as before, with its owner in place.
<1>1. ASSUME \A n \in LockName : globalLock'[n] \in {globalLock[n], NoFile},
             \A p \in Proc : Holds(p) => Holds(p)' \/ globalLock'[NameOf(p)] = NoFile
      PROVE  OwnerInv'
  BY <1>1 DEF OwnerInv
<1>2. ASSUME NEW p \in Proc, CheckGlobal(p) PROVE OwnerInv'
  <2>1. UNCHANGED globalLock /\ pc[p] = "start" /\ \E l \in Pc : pc' = [pc EXCEPT ![p] = l]
    BY <1>2 DEF CheckGlobal, Goto, files, Pc, Ended
  <2>2. \A q \in Proc : Holds(q) => Holds(q)'
    BY <1>0, <2>1 DEF Inside
  <2> QED BY <1>1, <2>1, <2>2
<1>3. ASSUME NEW p \in Proc, ClearGlobal(p) PROVE OwnerInv'
  <2>1. /\ pc[p] = "clear" /\ pc' = [pc EXCEPT ![p] = "write"]
        /\ globalLock' = [globalLock EXCEPT ![NameOf(p)] = NoFile]
    BY <1>3 DEF ClearGlobal, Goto
  <2>2. \A q \in Proc : Holds(q) => Holds(q)'
    BY <1>0, <2>1 DEF Inside
  <2>3. \A n \in LockName : globalLock'[n] \in {globalLock[n], NoFile}
    BY <1>0, <2>1
  <2> QED BY <1>1, <2>2, <2>3
<1>4. ASSUME NEW p \in Proc, WriteGlobal(p) PROVE OwnerInv'
  <2>1. /\ pc[p] = "write"
        /\ pc' \in {[pc EXCEPT ![p] = "spawn"], [pc EXCEPT ![p] = "list"]}
        /\ globalLock' = [globalLock EXCEPT ![NameOf(p)] = [owner |-> p, expires |-> clock + Ttl]]
    BY <1>4 DEF WriteGlobal, Goto
  <2>2. /\ \A q \in Proc : Holds(q) => Holds(q)'
        /\ Holds(p)'
    BY <1>0, <2>1 DEF Inside
  <2>3. \A n \in LockName \ {NameOf(p)} : globalLock'[n] = globalLock[n]
    BY <1>0, <2>1
  <2>4. globalLock'[NameOf(p)].owner = p
    BY <1>0, <2>1
  <2> QED BY <2>2, <2>3, <2>4 DEF OwnerInv
<1>5. ASSUME NEW p \in Proc, ReleaseGlobal(p) PROVE OwnerInv'
  <2>1. /\ pc[p] = "release" /\ pc' = [pc EXCEPT ![p] = "done"]
        /\ globalLock' = [globalLock EXCEPT ![NameOf(p)] = NoFile]
    BY <1>5 DEF ReleaseGlobal, Goto
  <2>2. \A q \in Proc \ {p} : Holds(q) => Holds(q)'
    BY <1>0, <2>1 DEF Inside
  <2>3. /\ \A n \in LockName : globalLock'[n] \in {globalLock[n], NoFile}
        /\ globalLock'[NameOf(p)] = NoFile
    BY <1>0, <2>1
  <2> QED BY <1>1, <2>2, <2>3
<1>6. ASSUME NEW p \in Sweep, SweepStep(p) PROVE OwnerInv'
  <2>1. p \in Proc
    BY DEF Proc
  <2>2. /\ UNCHANGED globalLock /\ Others(p)
        /\ pc'[p] \in Loop \cup {"idle", "release"}
    BY <1>6, SweepFacts
  <2>3. \A q \in Proc : Holds(q) => Holds(q)'
    BY <2>1, <2>2 DEF Others, Inside, Loop
  <2> QED BY <1>1, <2>2, <2>3
<1>7. ASSUME NEW s \in Startup, StartupStep(s) PROVE OwnerInv'
  <2>1. UNCHANGED globalLock
    BY <1>7 DEF StartupStep, Spawn, Wait, Complete, files
  <2>2. \A q \in Proc : Holds(q) => Holds(q)'
    <3>1. CASE Spawn(s)
      <4>1. /\ pc[s] = "spawn" /\ pc' = [pc EXCEPT ![s] = "wait", ![ChildOf[s]] = "start"]
            /\ pc[ChildOf[s]] = "unborn"
        BY <3>1 DEF Spawn, StartInv
      <4> QED BY <1>0, <4>1 DEF Inside
    <3>2. CASE Wait(s)
      BY <1>0, <3>2 DEF Wait, Goto, Inside
    <3>3. CASE Complete(s)
      BY <1>0, <3>3 DEF Complete, Goto, Inside
    <3> QED BY <1>7, <3>1, <3>2, <3>3 DEF StartupStep
  <2> QED BY <1>1, <2>1, <2>2
<1>8. ASSUME NEW p \in Proc, Crash(p) \/ Throw(p) PROVE OwnerInv'
  <2>1. UNCHANGED globalLock /\ Others(p) /\ pc'[p] \in {"dead", "release"}
    BY <1>8, FaultFacts
  <2>2. \A q \in Proc : Holds(q) => Holds(q)'
    BY <2>1 DEF Others, Inside
  <2> QED BY <1>1, <2>1, <2>2
<1>9. CASE Tick
  BY <1>1, <1>9 DEF Tick, files, procs, Inside
<1>10. ASSUME NEW n \in LockName, ResetGlobal(n) PROVE OwnerInv'
  <2>1. UNCHANGED pc /\ globalLock' = [globalLock EXCEPT ![n] = NoFile]
    BY <1>10 DEF ResetGlobal, procs
  <2>2. \A m \in LockName : globalLock'[m] \in {globalLock[m], NoFile}
    BY <1>0, <2>1
  <2>3. \A q \in Proc : Holds(q) => Holds(q)'
    BY <2>1 DEF Inside
  <2> QED BY <1>1, <2>2, <2>3
<1>11. ASSUME NEW t \in Task, Cancel(t) \/ RunByHand(t) PROVE OwnerInv'
  BY <1>1, <1>11 DEF Cancel, RunByHand, procs, Inside
<1>12. CASE UNCHANGED vars
  BY <1>1, <1>12 DEF vars, files, procs, Inside
<1> QED
  BY <1>2, <1>3, <1>4, <1>5, <1>6, <1>7, <1>8, <1>9, <1>10, <1>11, <1>12
  DEF Next, ProcStep, LockStep

\* A lock file is left behind only by a death or by process.exit in the try
\* block (run-due-tasks.ts, globalLock.ts).
THEOREM OwnerCorrect == Spec => []LockOwnerInside
<1>1. Init => OwnerInv
  BY DEF Init, OwnerInv
<1>2. OwnerInv => LockOwnerInside
  BY DEF OwnerInv, LockOwnerInside
<1> QED BY <1>1, <1>2, TypeInitial, TypeInductive, StartInitial, StartInductive, OwnerInductive, PTL DEF Spec

-----------------------------------------------------------------------------
(***************************************************************************)
(* No task runs twice without cause                                        *)
(***************************************************************************)
AtTask == {"next", "take", "run", "finish", "record"}
RunsNow(p, t) == pc[p] = "finish" /\ t = Current(p)

\* The list of a sweep names files that are there, except for the task it has
\* just archived; a file that is there and not being run has no run to its name
\* but broken ones.
RunsInv ==
  "due-task-runner" \notin tainted =>
    \A t \in Task \ touched :
      /\ runs[t] <= 1 + broken[t]
      /\ queue[t] # NoFile /\ (\A p \in Sweep : ~RunsNow(p, t)) => runs[t] <= broken[t]
      /\ \A p \in Sweep :
           pc[p] \in AtTask /\ t \in work[p] /\ ~(pc[p] = "record" /\ t = Current(p))
             => queue[t] # NoFile

LEMMA RunsInductive == TypeInv /\ StartInv /\ LockInv /\ RunsInv /\ [Next]_vars => RunsInv'
<1> SUFFICES ASSUME TypeInv, StartInv, LockInv, RunsInv, [Next]_vars,
                    "due-task-runner" \notin tainted', NEW t \in Task \ touched'
             PROVE  /\ runs'[t] <= 1 + broken'[t]
                    /\ queue'[t] # NoFile /\ (\A p \in Sweep : ~RunsNow(p, t)') => runs'[t] <= broken'[t]
                    /\ \A p \in Sweep :
                         pc'[p] \in AtTask /\ t \in work'[p] /\ ~(pc'[p] = "record" /\ t = Current(p)')
                           => queue'[t] # NoFile
  BY DEF RunsInv
<1> DEFINE Goal == /\ runs'[t] <= 1 + broken'[t]
                   /\ queue'[t] # NoFile /\ (\A p \in Sweep : ~RunsNow(p, t)') => runs'[t] <= broken'[t]
                   /\ \A p \in Sweep :
                        pc'[p] \in AtTask /\ t \in work'[p] /\ ~(pc'[p] = "record" /\ t = Current(p)')
                          => queue'[t] # NoFile
           Marks == tainted \subseteq tainted' /\ touched \subseteq touched'
<1>0. /\ pc \in [Proc -> Pc] /\ queue \in [Task -> TaskRec \cup {NoFile}]
      /\ work \in [Sweep -> SUBSET Task] /\ runs \in [Task -> Nat] /\ broken \in [Task -> Nat]
      /\ Sweep \subseteq Proc
  BY DEF TypeInv, TypeOK, Proc
\* What the invariant says of t before the step.
<1>1. ASSUME Marks
      PROVE  /\ runs[t] <= 1 + broken[t]
             /\ queue[t] # NoFile /\ (\A p \in Sweep : ~RunsNow(p, t)) => runs[t] <= broken[t]
             /\ \A p \in Sweep :
                  pc[p] \in AtTask /\ t \in work[p] /\ ~(pc[p] = "record" /\ t = Current(p))
                    => queue[t] # NoFile
  BY <1>1 DEF RunsInv
\* Two sweeps at their tasks are one.
<1>2. ASSUME Marks, NEW p \in Sweep, NEW q \in Sweep, pc[p] \in AtTask, pc[q] \in AtTask
      PROVE  p = q
  <2>1. NameOf(p) = "due-task-runner" /\ NameOf(q) = "due-task-runner"
    BY ProcessAssumption DEF NameOf
  <2>2. Held(p) /\ Held(q)
    BY <1>2 DEF Held, Inside, AtTask
  <2>3. "due-task-runner" \in LockName \ tainted
    BY <1>2 DEF LockName
  <2> QED BY <1>0, <2>1, <2>2, <2>3 DEF LockInv
<1>3. ASSUME NEW p \in Sweep, work'[p] = work[p] PROVE Current(p)' = Current(p)
  BY <1>3 DEF Current
\* A step that changes no task and puts no sweep at another step of its loop.
<1>4. ASSUME Marks, UNCHANGED <<queue, work, runs, broken>>,
             \A p \in Sweep : pc[p] \in AtTask \/ pc'[p] \in AtTask => pc'[p] = pc[p]
      PROVE  Goal
  <2>1. \A p \in Sweep : Current(p)' = Current(p)
    BY <1>3, <1>4
  <2>2. \A p \in Sweep : RunsNow(p, t)' <=> RunsNow(p, t)
    BY <1>4, <2>1 DEF RunsNow, AtTask
  <2> QED BY <1>1, <1>4, <2>1, <2>2
<1>5. ASSUME NEW p \in Proc, LockStep(p) PROVE Goal
  <2>1. UNCHANGED <<queue, work, runs, broken, touched>> /\ tainted \subseteq tainted'
    BY <1>5 DEF LockStep, CheckGlobal, ClearGlobal, WriteGlobal, ReleaseGlobal, files, ghosts
  <2>2. /\ pc[p] \in {"start", "clear", "write", "release"}
        /\ \E l \in {"refused", "write", "clear", "spawn", "list", "done"} : pc' = [pc EXCEPT ![p] = l]
    BY <1>5 DEF LockStep, CheckGlobal, ClearGlobal, WriteGlobal, ReleaseGlobal, Goto
  <2>3. \A q \in Sweep : pc[q] \in AtTask \/ pc'[q] \in AtTask => pc'[q] = pc[q]
    BY <1>0, <2>2 DEF AtTask
  <2> QED BY <1>4, <2>1, <2>3
<1>6. ASSUME NEW p \in Sweep, List(p) PROVE Goal
  <2>1. UNCHANGED <<queue, runs, broken, touched, tainted>> /\ pc[p] = "list"
    BY <1>6 DEF List, files, ghosts
  <2>2. \A s \in work'[p] : queue[s] # NoFile
    BY <1>0, <1>6 DEF List
  <2>3. \A q \in Sweep \ {p} : pc'[q] = pc[q] /\ work'[q] = work[q]
    BY <1>0, <1>6 DEF List, Goto
  <2>4. pc'[p] \in {"idle", "next"}
    BY <1>0, <1>6 DEF List, Goto
  <2>5. \A q \in Sweep \ {p} : Current(q)' = Current(q)
    BY <1>3, <2>3
  <2>6. \A q \in Sweep : RunsNow(q, t)' <=> RunsNow(q, t)
    BY <2>1, <2>3, <2>4, <2>5 DEF RunsNow
  <2> QED BY <1>1, <2>1, <2>2, <2>3, <2>4, <2>5, <2>6
<1>7. ASSUME NEW p \in Sweep, NextTask(p) \/ TakeTask(p) PROVE Goal
  <2>1. UNCHANGED <<queue, runs, broken, touched, tainted>> /\ pc[p] \in {"next", "take"}
    BY <1>7 DEF NextTask, TakeTask, files, ghosts
  <2>2. WorkShrinks(p)
    BY <1>7, TreatedFacts DEF NextTask, TakeTask
  <2>3. \A q \in Sweep \ {p} : pc'[q] = pc[q]
    BY <1>0, <1>7 DEF NextTask, TakeTask, Goto
  <2>4. pc'[p] \in {"next", "take", "run", "release"}
    BY <1>0, <1>7 DEF NextTask, TakeTask, Goto
  <2>5. \A q \in Sweep \ {p} : Current(q)' = Current(q)
    BY <1>3, <2>2 DEF WorkShrinks
  <2>6. \A q \in Sweep : RunsNow(q, t)' <=> RunsNow(q, t)
    BY <2>1, <2>3, <2>4, <2>5 DEF RunsNow
  <2>7. \A q \in Sweep : work'[q] \subseteq work[q]
    BY <2>2 DEF WorkShrinks
  <2> QED BY <1>1, <2>1, <2>3, <2>4, <2>5, <2>6, <2>7 DEF AtTask
<1>8. ASSUME NEW p \in Sweep, RunBody(p) PROVE Goal
  <2> DEFINE c == Current(p)
  <2>1. /\ UNCHANGED <<work, broken, touched, tainted>> /\ pc[p] = "run"
        /\ queue' = [queue EXCEPT ![c] = SetStatus(copy[p][c], "running")]
        /\ runs' = [runs EXCEPT ![c] = @ + 1]
        /\ pc' = [pc EXCEPT ![p] = "finish"]
    BY <1>8 DEF RunBody, Goto
  <2>2. work[p] # {}
    BY <2>1 DEF TypeInv, WorkInv
  <2>3. c \in work[p] /\ c \in Task /\ SetStatus(copy[p][c], "running") \in TaskRec
    BY <2>2, CurrentType, SetStatusType DEF Status
  <2>4. \A q \in Sweep : Current(q)' = Current(q)
    BY <1>3, <2>1
  <2> HIDE DEF c
  <2>5. queue'[c] # NoFile /\ \A s \in Task \ {c} : queue'[s] = queue[s] /\ runs'[s] = runs[s]
    BY <1>0, <2>1, <2>3, NoFileAssumption
  <2>6. pc'[p] = "finish" /\ \A q \in Sweep \ {p} : pc'[q] = pc[q]
    BY <1>0, <2>1
  <2>7. \A q \in Sweep \ {p} : pc[q] \notin AtTask
    BY <1>2, <2>1 DEF AtTask
  <2>8. CASE t # c
    <3>1. \A q \in Sweep : RunsNow(q, t)' <=> RunsNow(q, t)
      BY <2>1, <2>4, <2>6, <2>8 DEF RunsNow, c
    <3> QED BY <1>1, <2>1, <2>4, <2>5, <2>6, <2>7, <2>8, <3>1 DEF AtTask
  <2>9. CASE t = c
    <3>1. queue[t] # NoFile
      BY <1>1, <2>1, <2>3, <2>9 DEF AtTask
    <3>2. \A q \in Sweep : ~RunsNow(q, t)
      BY <2>1, <2>7 DEF RunsNow, AtTask
    <3>3. runs[t] <= broken[t]
      BY <1>1, <2>1, <3>1, <3>2
    <3>4. runs'[t] = runs[t] + 1
      BY <1>0, <2>1, <2>3, <2>9
    <3>5. runs'[t] <= 1 + broken'[t]
      BY <1>0, <2>1, <3>3, <3>4
    <3>6. RunsNow(p, t)'
      BY <2>4, <2>6, <2>9 DEF RunsNow, c
    <3> QED BY <2>5, <2>9, <3>5, <3>6
  <2> QED BY <2>8, <2>9
<1>9. ASSUME NEW p \in Sweep, FinishTask(p) PROVE Goal
  <2> DEFINE c == Current(p)
  <2>1. /\ UNCHANGED <<runs, broken, touched, tainted>> /\ pc[p] = "finish"
        /\ queue' = [queue EXCEPT ![c] = NoFile]
    BY <1>9 DEF FinishTask, Dequeue, ghosts
  <2>2. PICK outcome \in Outcomes :
          /\ Goto(p, AfterRun(outcome))
          /\ IF AfterRun(outcome) = "next" THEN Treated(p) ELSE UNCHANGED work
    BY <1>9 DEF FinishTask
  <2>3. \/ pc' = [pc EXCEPT ![p] = "next"] /\ work' = [work EXCEPT ![p] = work[p] \ {c}]
        \/ pc' = [pc EXCEPT ![p] = "record"] /\ work' = work
    BY <2>2 DEF Goto, AfterRun, Treated
  <2>4. work[p] # {}
    BY <2>1 DEF TypeInv, WorkInv
  <2>5. c \in Task
    BY <2>4, CurrentType
  <2>6. work'[p] = work[p] => Current(p)' = c
    BY <1>3
  <2> HIDE DEF c
  <2>7. \A q \in Sweep \ {p} : pc[q] \notin AtTask /\ pc'[q] = pc[q]
    BY <1>0, <1>2, <2>1, <2>3 DEF AtTask
  <2>8. \A s \in Task \ {c} : queue'[s] = queue[s]
    BY <1>0, <2>1
  <2>9. \/ pc'[p] = "next" /\ work'[p] = work[p] \ {c}
        \/ pc'[p] = "record" /\ work'[p] = work[p] /\ Current(p)' = c
    BY <1>0, <2>3, <2>6
  <2>10. CASE t # c
    <3>1. \A q \in Sweep : ~RunsNow(q, t)
      BY <2>1, <2>7, <2>10 DEF RunsNow, AtTask, c
    <3>2. \A q \in Sweep : pc'[q] \in AtTask /\ t \in work'[q] => q = p /\ t \in work[p]
      BY <2>7, <2>9
    <3> QED BY <1>1, <2>1, <2>8, <2>10, <3>1, <3>2 DEF AtTask
  <2>11. CASE t = c
    <3>1. queue'[t] = NoFile
      BY <1>0, <2>1, <2>5, <2>11
    <3>2. \A q \in Sweep : pc'[q] \in AtTask /\ t \in work'[q] => pc'[q] = "record" /\ t = Current(q)'
      BY <2>7, <2>9, <2>11
    <3> QED BY <1>1, <2>1, <3>1, <3>2
  <2> QED BY <2>10, <2>11
<1>10. ASSUME NEW p \in Sweep, RecordRun(p) PROVE Goal
  <2> DEFINE c == Current(p)
  <2>1. /\ UNCHANGED <<queue, runs, broken, touched, tainted>> /\ pc[p] = "record"
        /\ pc' = [pc EXCEPT ![p] = "next"] /\ work' = [work EXCEPT ![p] = work[p] \ {c}]
    BY <1>10 DEF RecordRun, Goto, Treated, ghosts
  <2> HIDE DEF c
  <2>2. /\ pc'[p] = "next" /\ work'[p] = work[p] \ {c}
        /\ \A q \in Sweep \ {p} : pc'[q] = pc[q] /\ work'[q] = work[q]
    BY <1>0, <2>1
  <2>3. \A q \in Sweep \ {p} : Current(q)' = Current(q)
    BY <1>3, <2>2
  <2>4. \A q \in Sweep : RunsNow(q, t)' <=> RunsNow(q, t)
    BY <2>1, <2>2, <2>3 DEF RunsNow
  <2>5. t \in work'[p] => t \in work[p] /\ t # Current(p)
    BY <2>2 DEF c
  <2> QED BY <1>1, <2>1, <2>2, <2>3, <2>4, <2>5 DEF AtTask
<1>11. ASSUME NEW s \in Startup, StartupStep(s) PROVE Goal
  <2>1. UNCHANGED <<queue, work, runs, broken, touched, tainted>>
    BY <1>11 DEF StartupStep, Spawn, Wait, Complete, files, ghosts
  <2>2. \A q \in Sweep : pc[q] \in AtTask \/ pc'[q] \in AtTask => pc'[q] = pc[q]
    <3>0. s \in Proc /\ ChildOf[s] \in Proc /\ s \notin Sweep
      BY ProcessAssumption DEF Proc
    <3>1. CASE Spawn(s)
      <4>1. pc[s] = "spawn" /\ pc' = [pc EXCEPT ![s] = "wait", ![ChildOf[s]] = "start"]
        BY <3>1 DEF Spawn
      <4>2. pc[ChildOf[s]] \notin AtTask
        BY <4>1 DEF StartInv, AtTask
      <4> QED BY <1>0, <3>0, <4>1, <4>2 DEF AtTask
    <3>2. CASE Wait(s)
      BY <1>0, <3>0, <3>2 DEF Wait, Goto
    <3>3. CASE Complete(s)
      BY <1>0, <3>0, <3>3 DEF Complete, Goto
    <3> QED BY <1>11, <3>1, <3>2, <3>3 DEF StartupStep
  <2> QED BY <1>4, <2>1, <2>2
<1>12. ASSUME NEW p \in Proc, Crash(p) \/ Throw(p) PROVE Goal
  <2>1. /\ UNCHANGED <<queue, work, runs, touched, tainted>> /\ Breaks(p) /\ Others(p)
        /\ pc'[p] \notin AtTask
    BY <1>12, FaultFacts DEF AtTask
  <2>2. \A q \in Sweep : Current(q)' = Current(q)
    BY <1>3, <2>1
  <2>3. broken'[t] = IF InBody(p) /\ t = Current(p) THEN broken[t] + 1 ELSE broken[t]
    BY <2>1 DEF Breaks
  <2>4. \A q \in Sweep : pc'[q] \in AtTask => q # p /\ pc'[q] = pc[q]
    BY <1>0, <2>1 DEF Others
  <2>5. CASE InBody(p) /\ t = Current(p)
    <3>1. broken'[t] = broken[t] + 1
      BY <2>3, <2>5
    <3>2. runs'[t] <= broken'[t] /\ broken'[t] \in Nat /\ runs'[t] \in Nat
      BY <1>0, <1>1, <2>1, <3>1
    <3> QED BY <1>1, <2>1, <2>2, <2>4, <3>2
  <2>6. CASE ~(InBody(p) /\ t = Current(p))
    <3>1. broken'[t] = broken[t]
      BY <2>3, <2>6
    <3>2. \A q \in Sweep : RunsNow(q, t) => RunsNow(q, t)'
      <4> SUFFICES ASSUME NEW q \in Sweep, RunsNow(q, t) PROVE RunsNow(q, t)'
        OBVIOUS
      <4>1. q # p
        BY <2>6 DEF InBody, RunsNow
      <4> QED BY <1>0, <2>1, <2>2, <4>1 DEF RunsNow, Others
    <3> QED BY <1>1, <2>1, <2>2, <2>4, <3>1, <3>2
  <2> QED BY <2>5, <2>6
<1>13. CASE Tick
  BY <1>4, <1>13 DEF Tick, files, procs
<1>14. ASSUME NEW n \in LockName, ResetGlobal(n) PROVE Goal
  BY <1>4, <1>14 DEF ResetGlobal, procs
<1>15. ASSUME NEW s \in Task, Cancel(s) PROVE Goal
  <2>1. /\ UNCHANGED <<pc, work, runs, broken, touched, tainted>> /\ queue[s] # NoFile
        /\ queue' = [queue EXCEPT ![s] = SetStatus(queue[s], "cancelled")]
    BY <1>15 DEF Cancel, procs, ghosts
  <2>2. SetStatus(queue[s], "cancelled") \in TaskRec
    BY <1>0, <2>1, SetStatusType DEF Status
  <2>3. queue'[t] # NoFile <=> queue[t] # NoFile
    BY <1>0, <2>1, <2>2, NoFileAssumption
  <2>4. \A q \in Sweep : Current(q)' = Current(q)
    BY <1>3, <2>1
  <2>5. \A q \in Sweep : RunsNow(q, t)' <=> RunsNow(q, t)
    BY <2>1, <2>4 DEF RunsNow
  <2> QED BY <1>1, <2>1, <2>3, <2>4, <2>5
<1>16. ASSUME NEW s \in Task, RunByHand(s) PROVE Goal
  <2>1. /\ UNCHANGED <<pc, work, broken, tainted>> /\ touched' = touched \cup {s}
        /\ queue' = [queue EXCEPT ![s] = NoFile] /\ runs' = [runs EXCEPT ![s] = @ + 1]
    BY <1>16 DEF RunByHand, Dequeue, procs
  <2>2. t # s /\ queue'[t] = queue[t] /\ runs'[t] = runs[t]
    BY <1>0, <2>1
  <2>3. \A q \in Sweep : Current(q)' = Current(q)
    BY <1>3, <2>1
  <2>4. \A q \in Sweep : RunsNow(q, t)' <=> RunsNow(q, t)
    BY <2>1, <2>3 DEF RunsNow
  <2> QED BY <1>1, <2>1, <2>2, <2>3, <2>4
<1>17. CASE UNCHANGED vars
  BY <1>4, <1>17 DEF vars, files, procs, ghosts
<1>18. Goal
  BY <1>5, <1>6, <1>7, <1>8, <1>9, <1>10, <1>11, <1>12, <1>13, <1>14, <1>15, <1>16, <1>17
  DEF Next, ProcStep, SweepStep
<1> QED BY <1>18

\* While sweeps exclude each other, a task that nobody runs by hand is run again
\* only after a run of it was cut off (run-due-tasks.ts).
THEOREM RunsCorrect == Spec => []RunsOncePerBreak
<1>1. Init => RunsInv
  BY DEF Init, RunsInv, RunsNow, AtTask
<1>2. RunsInv => RunsOncePerBreak
  BY DEF RunsInv, RunsOncePerBreak
<1> QED BY <1>1, <1>2, TypeInitial, TypeInductive, StartInitial, StartInductive,
           LockInitial, LockInductive, RunsInductive, PTL DEF Spec

-----------------------------------------------------------------------------
(***************************************************************************)
(* A sweep accounts for each task it has started                           *)
(***************************************************************************)
Fresh == {"unborn", "start", "clear", "write", "list"}

\* The result of t is archived, and the window of a completed run recorded.
Accounted(t) ==
  /\ history[t] # NoFile
  /\ HasSchedule(t) /\ history[t] = "completed" => runState[t] # NoFile

\* The sweep p has t at hand, and its result archived before it records.
AtHand(p, t) ==
  /\ t \in work[p] /\ t = Current(p)
  /\ pc[p] \in {"run", "finish", "record", "release"}
  /\ pc[p] = "record" => history[t] # NoFile

\* A sweep starts nothing before its loop; inside it, what it has started is
\* at hand or accounted for.
ThoroughInv ==
  /\ \A p \in Sweep : pc[p] \in Fresh => taken[p] = {}
  /\ "due-task-runner" \notin tainted =>
       \A p \in Sweep : Inside(p) =>
         \A t \in taken[p] \ touched : (t \notin work[p] /\ Accounted(t)) \/ AtHand(p, t)

LEMMA ThoroughInductive ==
  TypeInv /\ StartInv /\ LockInv /\ ThoroughInv /\ [Next]_vars => ThoroughInv'
<1> SUFFICES ASSUME TypeInv, StartInv, LockInv, ThoroughInv, [Next]_vars PROVE ThoroughInv'
  OBVIOUS
<1> DEFINE Marks == tainted \subseteq tainted' /\ touched \subseteq touched'
           Fine(p) == \A t \in taken[p] \ touched :
                        (t \notin work[p] /\ Accounted(t)) \/ AtHand(p, t)
<1>0. /\ pc \in [Proc -> Pc] /\ work \in [Sweep -> SUBSET Task] /\ taken \in [Sweep -> SUBSET Task]
      /\ history \in [Task -> Outcomes \cup {NoFile}] /\ runState \in [Task -> Nat \cup {NoFile}]
      /\ Sweep \subseteq Proc /\ clock \in Nat /\ NoFile \notin Outcomes /\ NoFile \notin Nat
  BY NoFileAssumption DEF TypeInv, TypeOK, Proc
<1>1. ASSUME NEW p \in Sweep, work'[p] = work[p] PROVE Current(p)' = Current(p)
  BY <1>1 DEF Current
\* A sweep whose own state and whose results are as before.
<1>2. ASSUME Marks, NEW p \in Sweep, Fine(p), taken'[p] = taken[p], work'[p] = work[p],
             UNCHANGED runState, \A t \in Task \ touched' : history'[t] = history[t],
             pc'[p] = pc[p] \/ pc'[p] = "release" \/ (pc[p] = "run" /\ pc'[p] = "finish")
      PROVE  Fine(p)'
  <2>1. Current(p)' = Current(p)
    BY <1>1, <1>2
  <2> SUFFICES ASSUME NEW t \in taken'[p] \ touched'
               PROVE  (t \notin work'[p] /\ Accounted(t)') \/ AtHand(p, t)'
    OBVIOUS
  <2>2. t \in Task /\ t \in taken[p] \ touched /\ history'[t] = history[t]
    BY <1>0, <1>2
  <2>3. (t \notin work[p] /\ Accounted(t)) \/ AtHand(p, t)
    BY <1>2, <2>2
  <2> QED BY <1>2, <2>1, <2>2, <2>3 DEF Accounted, AtHand
\* A step in which the results stay, no list of a sweep changes, and each sweep
\* stays at its step, or ends, or goes to the last step of its own.
<1>3. ASSUME Marks, UNCHANGED <<work, taken, runState>>,
             \A t \in Task \ touched' : history'[t] = history[t],
             \A p \in Sweep :
               /\ pc'[p] \in Fresh => pc[p] \in Fresh
               /\ Inside(p)' => \/ Inside(p) /\ pc'[p] \in {pc[p], "release"}
                                \/ pc[p] \in Fresh
      PROVE  ThoroughInv'
  <2>1. \A p \in Sweep : pc'[p] \in Fresh => taken'[p] = {}
    BY <1>3 DEF ThoroughInv
  <2>2. ASSUME "due-task-runner" \notin tainted', NEW p \in Sweep, Inside(p)'
        PROVE  Fine(p)'
    <3>1. CASE pc[p] \in Fresh
      BY <1>3, <3>1 DEF ThoroughInv
    <3>2. CASE Inside(p) /\ pc'[p] \in {pc[p], "release"}
      <4>1. Fine(p)
        BY <1>3, <2>2, <3>2 DEF ThoroughInv
      <4> HIDE DEF Fine
      <4> QED BY <1>2, <1>3, <3>2, <4>1
    <3> QED BY <1>3, <2>2, <3>1, <3>2
  <2> QED BY <2>1, <2>2 DEF ThoroughInv
\* A step of one sweep inside its lock, where all others are out.
<1>4. ASSUME NEW p \in Sweep, SweepStep(p), pc'[p] \notin Fresh,
             \A q \in Sweep \ {p} : taken'[q] = taken[q],
             "due-task-runner" \notin tainted /\ Fine(p) => Fine(p)'
      PROVE  ThoroughInv'
  <2>1. /\ UNCHANGED <<touched, tainted>> /\ Inside(p) /\ Others(p)
    BY <1>4, SweepFacts DEF Loop, Inside
  <2>2. \A q \in Sweep : pc'[q] \in Fresh => taken'[q] = {}
    BY <1>0, <1>4, <2>1 DEF ThoroughInv, Others
  <2>3. ASSUME "due-task-runner" \notin tainted', NEW q \in Sweep, Inside(q)'
        PROVE  q = p
    <3>1. "due-task-runner" \in LockName \ tainted
      BY <2>1, <2>3 DEF LockName
    <3>2. NameOf(p) = "due-task-runner" /\ NameOf(q) = "due-task-runner"
      BY ProcessAssumption DEF NameOf
    <3>3. q # p => Inside(q)
      BY <1>0, <2>1, <2>3 DEF Others, Inside
    <3> QED BY <1>0, <2>1, <3>1, <3>2, <3>3 DEF LockInv, Held
  <2>4. "due-task-runner" \notin tainted => Fine(p)
    BY <2>1 DEF ThoroughInv
  <2>5. "due-task-runner" \notin tainted' => Fine(p)'
    BY <1>4, <2>1, <2>4
  <2> HIDE DEF Fine
  <2>6. "due-task-runner" \notin tainted' => \A q \in Sweep : Inside(q)' => Fine(q)'
    BY <2>3, <2>5
  <2> USE DEF Fine
  <2> QED BY <2>2, <2>6 DEF ThoroughInv
<1>5. ASSUME NEW p \in Proc, LockStep(p) PROVE ThoroughInv'
  <2>1. UNCHANGED <<history, work, taken, runState, touched>> /\ tainted \subseteq tainted'
    BY <1>5 DEF LockStep, CheckGlobal, ClearGlobal, WriteGlobal, ReleaseGlobal, files, ghosts
  <2>2. /\ pc[p] \in {"start", "clear", "write", "release"}
        /\ \E l \in {"refused", "write", "clear", "spawn", "list", "done"} :
             pc' = [pc EXCEPT ![p] = l] /\ (pc[p] = "release" => l = "done")
    BY <1>5 DEF LockStep, CheckGlobal, ClearGlobal, WriteGlobal, ReleaseGlobal, Goto
  <2>3. \A q \in Sweep : /\ pc'[q] \in Fresh => pc[q] \in Fresh
                         /\ Inside(q)' => (Inside(q) /\ pc'[q] = pc[q]) \/ pc[q] \in Fresh
    BY <1>0, <2>2 DEF Fresh, Inside
  <2> QED BY <1>3, <2>1, <2>3
<1>6. ASSUME NEW p \in Sweep, List(p) PROVE ThoroughInv'
  <2>1. UNCHANGED <<history, runState, taken, touched, tainted>> /\ pc[p] = "list"
    BY <1>6 DEF List, files, ghosts
  <2>2. pc'[p] \in {"idle", "next"} /\ taken[p] = {}
    BY <1>0, <1>6, <2>1 DEF List, Goto, ThoroughInv, Fresh
  <2>3. SweepStep(p)
    BY <1>6 DEF SweepStep
  <2> QED BY <1>4, <2>1, <2>2, <2>3 DEF Fresh
<1>7. ASSUME NEW p \in Sweep, NextTask(p) \/ TakeTask(p) PROVE ThoroughInv'
  <2> DEFINE c == Current(p)
  <2>1. UNCHANGED <<history, runState, touched, tainted>> /\ pc[p] \in {"next", "take"}
    BY <1>7 DEF NextTask, TakeTask, files, ghosts
  <2>2. WorkShrinks(p)
    BY <1>7, TreatedFacts DEF NextTask, TakeTask
  <2>3. SweepStep(p)
    BY <1>7 DEF SweepStep
  <2>4. \/ UNCHANGED taken /\ pc'[p] \in {"next", "take", "release"}
        \/ /\ taken' = [taken EXCEPT ![p] = @ \cup {c}] /\ pc'[p] = "run" /\ work' = work
           /\ pc[p] = "take"
    BY <1>0, <1>7 DEF NextTask, TakeTask, Goto, ghosts
  <2>5. work[p] # {} /\ pc'[p] = "run" => c \in work[p] /\ c \in Task
    BY CurrentType
  <2>6. pc[p] = "take" => work[p] # {}
    BY DEF TypeInv, WorkInv
  <2>7. ASSUME Fine(p) PROVE Fine(p)'
    <3> SUFFICES ASSUME NEW t \in taken'[p] \ touched'
                 PROVE  (t \notin work'[p] /\ Accounted(t)') \/ AtHand(p, t)'
      OBVIOUS
    <3>1. CASE t \in taken[p]
      <4>1. t \notin work[p] /\ Accounted(t)
        BY <2>1, <2>7, <3>1 DEF AtHand
      <4>2. t \notin work'[p]
        BY <2>2, <4>1 DEF WorkShrinks
      <4> QED BY <2>1, <4>1, <4>2 DEF Accounted
    <3>2. CASE t \notin taken[p]
      <4>1. t = c /\ pc'[p] = "run" /\ work' = work /\ pc[p] = "take"
        BY <1>0, <2>4, <3>2
      <4>2. t \in work'[p] /\ t = Current(p)'
        BY <1>1, <2>5, <2>6, <4>1
      <4> QED BY <4>1, <4>2 DEF AtHand
    <3> QED BY <3>1, <3>2
  <2>8. \A q \in Sweep \ {p} : taken'[q] = taken[q]
    BY <1>0, <2>4
  <2>9. pc'[p] \notin Fresh
    BY <2>4 DEF Fresh
  <2> HIDE DEF Fine, c
  <2> QED BY <1>4, <2>3, <2>7, <2>8, <2>9
<1>8. ASSUME NEW p \in Sweep, RunBody(p) PROVE ThoroughInv'
  <2>1. UNCHANGED <<history, runState, work, taken, touched, tainted>> /\ pc[p] = "run"
    BY <1>8 DEF RunBody
  <2>2. pc'[p] = "finish" /\ SweepStep(p)
    BY <1>0, <1>8 DEF RunBody, Goto, SweepStep
  <2>3. pc'[p] \notin Fresh
    BY <2>2 DEF Fresh
  <2> HIDE DEF Fine
  <2>4. Fine(p) => Fine(p)'
    BY <1>2, <2>1, <2>2
  <2> QED BY <1>4, <2>1, <2>2, <2>3, <2>4
<1>9. ASSUME NEW p \in Sweep, FinishTask(p) PROVE ThoroughInv'
  <2> DEFINE c == Current(p)
  <2>1. UNCHANGED <<runState, taken, touched, tainted>> /\ pc[p] = "finish"
    BY <1>9 DEF FinishTask, ghosts
  <2>2. PICK outcome \in Outcomes :
          /\ history' = [history EXCEPT ![c] = outcome]
          /\ Goto(p, AfterRun(outcome))
          /\ IF AfterRun(outcome) = "next" THEN Treated(p) ELSE UNCHANGED work
    BY <1>9 DEF FinishTask
  <2>3. c \in work[p] /\ c \in Task
    BY <2>1, CurrentType DEF TypeInv, WorkInv
  <2>4. Treated(p) => work'[p] = work[p] \ {c}
    BY <1>0 DEF Treated
  <2>5. work'[p] = work[p] => Current(p)' = c
    BY <1>1
  <2> HIDE DEF c
  <2>6. history'[c] = outcome /\ outcome # NoFile /\ \A t \in Task \ {c} : history'[t] = history[t]
    BY <1>0, <2>2, <2>3
  <2>7. \/ pc'[p] = "next" /\ work'[p] = work[p] \ {c} /\ outcome # "completed"
        \/ pc'[p] = "record" /\ work'[p] = work[p] /\ Current(p)' = c
    BY <1>0, <2>2, <2>4, <2>5 DEF Goto, AfterRun
  <2>8. ASSUME Fine(p) PROVE Fine(p)'
    <3> SUFFICES ASSUME NEW t \in taken'[p] \ touched'
                 PROVE  (t \notin work'[p] /\ Accounted(t)') \/ AtHand(p, t)'
      OBVIOUS
    <3>1. CASE t = c
      BY <2>3, <2>6, <2>7, <3>1 DEF Accounted, AtHand
    <3>2. CASE t # c
      <4>1. t \notin work[p] /\ Accounted(t)
        BY <2>1, <2>8, <3>2 DEF AtHand, c
      <4>2. t \notin work'[p] /\ history'[t] = history[t]
        BY <1>0, <2>1, <2>6, <2>7, <3>2, <4>1
      <4> QED BY <2>1, <4>1, <4>2 DEF Accounted
    <3> QED BY <3>1, <3>2
  <2>9. pc'[p] \notin Fresh /\ SweepStep(p)
    BY <1>9, <2>7 DEF Fresh, SweepStep
  <2> HIDE DEF Fine
  <2> QED BY <1>4, <2>1, <2>8, <2>9
<1>10. ASSUME NEW p \in Sweep, RecordRun(p) PROVE ThoroughInv'
  <2> DEFINE c == Current(p)
  <2>1. /\ UNCHANGED <<history, taken, touched, tainted>> /\ pc[p] = "record"
        /\ runState' = [runState EXCEPT ![c] = IF HasSchedule(c) THEN clock ELSE NoFile]
    BY <1>10 DEF RecordRun, ghosts
  <2>2. c \in work[p] /\ c \in Task
    BY <2>1, CurrentType DEF TypeInv, WorkInv
  <2>3. pc'[p] = "next" /\ work'[p] = work[p] \ {c}
    BY <1>0, <1>10 DEF RecordRun, Goto, Treated
  <2> HIDE DEF c
  <2>4. /\ HasSchedule(c) => runState'[c] # NoFile
        /\ \A t \in Task \ {c} : runState'[t] = runState[t]
    BY <1>0, <2>1, <2>2
  <2>5. ASSUME Fine(p) PROVE Fine(p)'
    <3> SUFFICES ASSUME NEW t \in taken'[p] \ touched'
                 PROVE  (t \notin work'[p] /\ Accounted(t)') \/ AtHand(p, t)'
      OBVIOUS
    <3>1. CASE t = c
      <4>1. history[t] # NoFile
        BY <2>1, <2>2, <2>5, <3>1 DEF AtHand, Accounted
      <4> QED BY <2>1, <2>3, <2>4, <3>1, <4>1 DEF Accounted, HasSchedule
    <3>2. CASE t # c
      <4>1. t \notin work[p] /\ Accounted(t)
        BY <2>1, <2>5, <3>2 DEF AtHand, c
      <4>2. t \notin work'[p] /\ runState'[t] = runState[t]
        BY <1>0, <2>1, <2>3, <2>4, <3>2, <4>1
      <4> QED BY <2>1, <4>1, <4>2 DEF Accounted, HasSchedule
    <3> QED BY <3>1, <3>2
  <2>6. pc'[p] \notin Fresh /\ SweepStep(p)
    BY <1>10, <2>3 DEF Fresh, SweepStep
  <2> HIDE DEF Fine
  <2> QED BY <1>4, <2>1, <2>5, <2>6
<1>11. ASSUME NEW s \in Startup, StartupStep(s) PROVE ThoroughInv'
  <2>1. UNCHANGED <<history, runState, work, taken, touched, tainted>>
    BY <1>11 DEF StartupStep, Spawn, Wait, Complete, files, ghosts
  <2>2. \A q \in Sweep : /\ pc'[q] \in Fresh => pc[q] \in Fresh
                         /\ Inside(q)' => Inside(q) /\ pc'[q] = pc[q]
    <3>0. s \in Proc /\ ChildOf[s] \in Proc /\ s \notin Sweep
      BY ProcessAssumption DEF Proc
    <3>1. CASE Spawn(s)
      <4>1. pc[s] = "spawn" /\ pc' = [pc EXCEPT ![s] = "wait", ![ChildOf[s]] = "start"]
        BY <3>1 DEF Spawn
      <4>2. pc[ChildOf[s]] = "unborn"
        BY <4>1 DEF StartInv
      <4> QED BY <1>0, <3>0, <4>1, <4>2 DEF Fresh, Inside
    <3>2. CASE Wait(s)
      BY <1>0, <3>0, <3>2 DEF Wait, Goto, Inside
    <3>3. CASE Complete(s)
      BY <1>0, <3>0, <3>3 DEF Complete, Goto, Inside
    <3> QED BY <1>11, <3>1, <3>2, <3>3 DEF StartupStep
  <2> QED BY <1>3, <2>1, <2>2
<1>12. ASSUME NEW p \in Proc, Crash(p) \/ Throw(p) PROVE ThoroughInv'
  <2>1. /\ UNCHANGED <<work, touched, tainted>> /\ Others(p)
        /\ pc'[p] = "dead" \/ (pc'[p] = "release" /\ Inside(p))
    BY <1>12, FaultFacts
  <2>2. UNCHANGED <<history, runState, taken>>
    BY <1>12 DEF Crash, Throw, files
  <2>3. \A q \in Sweep : /\ pc'[q] \in Fresh => pc[q] \in Fresh
                         /\ Inside(q)' => Inside(q) /\ pc'[q] \in {pc[q], "release"}
    BY <1>0, <2>1 DEF Others, Fresh, Inside
  <2> QED BY <1>3, <2>1, <2>2, <2>3
<1>13. CASE Tick
  BY <1>3, <1>13 DEF Tick, files, procs, Inside
<1>14. ASSUME NEW n \in LockName, ResetGlobal(n) PROVE ThoroughInv'
  BY <1>3, <1>14 DEF ResetGlobal, procs, Inside
<1>15. ASSUME NEW s \in Task, Cancel(s) PROVE ThoroughInv'
  BY <1>3, <1>15 DEF Cancel, procs, ghosts, Inside
<1>16. ASSUME NEW s \in Task, RunByHand(s) PROVE ThoroughInv'
  <2>1. /\ UNCHANGED <<pc, work, runState, taken, tainted>> /\ touched' = touched \cup {s}
        /\ \A t \in Task \ touched' : history'[t] = history[t]
    BY <1>0, <1>16 DEF RunByHand, procs
  <2> QED BY <1>3, <2>1 DEF Inside
<1>17. CASE UNCHANGED vars
  BY <1>3, <1>17 DEF vars, files, procs, ghosts, Inside
<1> HIDE DEF Fine
<1> QED
  BY <1>5, <1>6, <1>7, <1>8, <1>9, <1>10, <1>11, <1>12, <1>13, <1>14, <1>15, <1>16, <1>17
  DEF Next, ProcStep, SweepStep

\* A sweep that reaches the end of its loop alone has archived what it started
\* and recorded the windows of what completed, whatever was cancelled, expired
\* or thrown meanwhile (run-due-tasks.ts).
THEOREM ThoroughCorrect == Spec => []SweepThorough
<1>1. Init => ThoroughInv
  BY ProcessAssumption DEF Init, ThoroughInv, Inside, Proc
<1>2. ThoroughInv => SweepThorough
  BY DEF ThoroughInv, SweepThorough, Inside, Accounted, AtHand
<1> QED BY <1>1, <1>2, TypeInitial, TypeInductive, StartInitial, StartInductive,
           LockInitial, LockInductive, ThoroughInductive, PTL DEF Spec
=============================================================================
