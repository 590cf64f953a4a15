----------------------- MODULE TaskRunnerSerialProofs -----------------------
(***************************************************************************)
(* Proof that the task layer, driven by commands that do not overlap,      *)
(* implements TaskQueue, for every number of tasks, runners and editors.   *)
(***************************************************************************)
EXTENDS TaskRunnerSerial, TaskRunnerProofs

\* Runner p works on task t, and editor e is about to write it back.
Active(p, t) == cur[p] = t /\ pc[p] \notin Ended \cup {"start"}
Writing(e, t) == target[e] = t /\ epc[e] = "write"

\* Nobody else works on a task that somebody works on.
Alone ==
  \A t \in Task :
    /\ \A p, q \in Runner : Active(p, t) /\ Active(q, t) => p = q
    /\ \A e, f \in Editor : Writing(e, t) /\ Writing(f, t) => e = f
    /\ \A p \in Runner, e \in Editor : ~(Active(p, t) /\ Writing(e, t))

Closing == {"archive", "exists", "rename"}

\* A runner works on a task in the queue, and on what it has read of it, until
\* it holds the lock; what it will archive is its verdict, failed or completed
\* once the body was entered, refused of a closed gate otherwise.
Track(p) ==
  LET t == cur[p] IN
    /\ pc[p] \notin Ended \cup {"start", "release"} => queue[t] # NoFile
    /\ pc[p] \in {"gate", "check", "clear", "write"} => copy[p] = queue[t]
    /\ pc[p] \in {"check", "clear", "write", "save"} =>
         Open(copy[p]) /\ copy[p].status # "cancelled"
    /\ pc[p] = "body" => Open(queue[t]) /\ queue[t].status = "running"
    /\ pc[p] \in {"save", "body", "audit", "catch"} => copy[p].status = "running"
    /\ pc[p] \in {"audit", "catch"} => runs[t] > 0
    /\ pc[p] \in Closing => IF phase[p] = "gate"
         THEN verdict[p] = "refused" /\ ~Open(queue[t]) /\ queue[t].status # "cancelled"
         ELSE verdict[p] \in {"completed", "failed"} /\ runs[t] > 0
    /\ pc[p] \in {"exists", "rename"} => history[t] = verdict[p]

\* A task in the queue has been run only by a runner that has not finished.
Unfinished(t) ==
  queue[t] # NoFile /\ runs[t] # 0 =>
    \E p \in Runner :
      cur[p] = t /\ phase[p] # "gate" /\ pc[p] \in {"audit", "catch"} \cup Closing

SerialInv ==
  /\ Alone
  /\ \A p \in Runner : Track(p)
  /\ \A t \in Task : Unfinished(t)
  /\ \A e \in Editor : epc[e] = "write" => queue[target[e]] # NoFile

-----------------------------------------------------------------------------
(***************************************************************************)
(* What a step of one runner leaves alone                                  *)
(***************************************************************************)
\* A file is not a task record when it does not exist.
LEMMA FileOrNone ==
  ASSUME TypeOK, NEW t \in Task
  PROVE  queue[t] = NoFile \/ queue[t] \in TaskRec
BY DEF TypeOK

\* A runner at work on a task in the queue that has been run is the one that
\* ran it.
LEMMA RunByItself ==
  ASSUME SerialInv, NEW p \in Runner, cur[p] \in Task, Active(p, cur[p]),
         queue[cur[p]] # NoFile, runs[cur[p]] # 0
  PROVE  phase[p] # "gate" /\ pc[p] \in {"audit", "catch"} \cup Closing
<1>1. PICK q \in Runner : /\ cur[q] = cur[p] /\ phase[q] # "gate"
                          /\ pc[q] \in {"audit", "catch"} \cup Closing
  BY DEF SerialInv, Unfinished
<1>2. Active(q, cur[p])
  BY <1>1 DEF Active, Ended, Closing
<1>3. q = p
  BY <1>2 DEF SerialInv, Alone
<1> QED BY <1>1, <1>3

\* A step of the only runner at work on its task has to restore what the
\* invariant says of that runner and that task; the rest is not disturbed.
LEMMA RunnerFrame ==
  ASSUME TypeOK, SerialInv, NEW p \in Runner,
         \A q \in Runner : Active(q, cur[p]) => q = p,
         \A e \in Editor : ~Writing(e, cur[p]),
         \A q \in Runner \ {p} : /\ pc'[q] = pc[q] /\ copy'[q] = copy[q]
                                 /\ phase'[q] = phase[q] /\ verdict'[q] = verdict[q],
         \A t \in Task \ {cur[p]} : /\ queue'[t] = queue[t] /\ runs'[t] = runs[t]
                                    /\ history'[t] = history[t],
         UNCHANGED <<cur, epc, target>>,
         Track(p)', Unfinished(cur[p])'
  PROVE  SerialInv'
<1> USE DEF TypeOK
<1>1. Alone'
  <2>1. \A t \in Task, q \in Runner :
          Active(q, t)' => Active(q, t) \/ (q = p /\ t = cur[p])
    BY DEF Active
  <2>2. \A t \in Task, e \in Editor : Writing(e, t)' = Writing(e, t)
    BY DEF Writing
  <2>3. Alone
    BY DEF SerialInv
  <2>4. ASSUME NEW t \in Task, NEW q \in Runner, NEW r \in Runner,
               Active(q, t)', Active(r, t)'
        PROVE  q = r
    <3>1. (Active(q, t) \/ (q = p /\ t = cur[p])) /\ (Active(r, t) \/ (r = p /\ t = cur[p]))
      BY <2>1, <2>4
    <3> QED BY <2>3, <3>1 DEF Alone
  <2>5. ASSUME NEW t \in Task, NEW d \in Editor, NEW e \in Editor,
               Writing(d, t)', Writing(e, t)'
        PROVE  d = e
    BY <2>2, <2>3, <2>5 DEF Alone
  <2>6. ASSUME NEW t \in Task, NEW q \in Runner, NEW e \in Editor,
               Active(q, t)', Writing(e, t)'
        PROVE  FALSE
    <3>1. Active(q, t) \/ (q = p /\ t = cur[p])
      BY <2>1, <2>6
    <3> QED BY <2>2, <2>3, <2>6, <3>1 DEF Alone
  <2> QED BY <2>4, <2>5, <2>6 DEF Alone
<1>2. ASSUME NEW q \in Runner PROVE Track(q)'
  <2>1. CASE q = p
    BY <2>1
  <2>2. CASE q # p /\ cur[q] # cur[p]
    <3>1. Track(q)
      BY DEF SerialInv
    <3>2. cur[q] \in Task \ {cur[p]} /\ q \in Runner \ {p}
      BY <2>2
    <3> QED BY <3>1, <3>2 DEF Track
  <2>3. CASE q # p /\ cur[q] = cur[p]
    <3>1. pc'[q] \in Ended \cup {"start"}
      BY <2>3 DEF Active
    <3> QED BY <3>1 DEF Track, Ended, Closing
  <2> QED BY <2>1, <2>2, <2>3
<1>3. ASSUME NEW t \in Task PROVE Unfinished(t)'
  <2>1. CASE t = cur[p]
    BY <2>1
  <2>2. CASE t # cur[p]
    BY <2>2 DEF SerialInv, Unfinished
  <2> QED BY <2>1, <2>2
<1>4. ASSUME NEW e \in Editor, epc'[e] = "write" PROVE queue'[target'[e]] # NoFile
  <2>1. Writing(e, target[e]) /\ target[e] # cur[p]
    BY <1>4 DEF Writing
  <2> QED BY <1>4, <2>1 DEF SerialInv
<1> QED BY <1>1, <1>2, <1>3, <1>4 DEF SerialInv

\* A step that changes neither the files of a task nor who works on it.
LEMMA SerialStutter ==
  ASSUME SerialInv,
         UNCHANGED <<queue, history, pc, cur, copy, phase, verdict, epc, target, runs>>
  PROVE  SerialInv'
BY DEF SerialInv, Alone, Active, Writing, Track, Unfinished

-----------------------------------------------------------------------------
(***************************************************************************)
(* SerialInv is inductive                                                  *)
(***************************************************************************)
\* A runner in the middle of runTask is the only one at work on its task.
LEMMA AtWork ==
  ASSUME TypeOK, SerialInv, NEW p \in Runner, pc[p] \notin Ended \cup {"start"}
  PROVE  /\ Active(p, cur[p])
         /\ \A q \in Runner : Active(q, cur[p]) => q = p
         /\ \A e \in Editor : ~Writing(e, cur[p])
         /\ Track(p)
BY DEF TypeOK, SerialInv, Alone, Active

\* Under the discipline every step is a step of TaskRunner, without faults.
LEMMA SerialIsNext == [SerialNext]_vars => [Next]_vars
BY DEF SerialNext, Next, RunnerStep

\* A step of a runner keeps SerialInv.
LEMMA RunnerKeeps ==
  ASSUME TypeOK, PhaseInv, SerialInv, NEW p \in Runner,
         pc[p] # "start", RunnerStep(p)
  PROVE  SerialInv'
<1> DEFINE t == cur[p]
<1> USE DEF TypeOK, Goto, files, runners, editors, ghosts
<1>1. pc[p] \notin Ended \cup {"start"}
  BY DEF RunnerStep, Load, Gate, CheckLock, ClearLock, WriteLock, SaveRunning,
         Body, AuditVerdict, Catch, Archive, FindQueued, Rename, Release, Ended
<1>2. /\ \A q \in Runner : Active(q, t) => q = p
      /\ \A e \in Editor : ~Writing(e, t)
      /\ Track(p) /\ Active(p, t) /\ t \in Task
  BY <1>1, AtWork
<1>3. queue[t] # NoFile /\ (phase[p] = "gate" \/ pc[p] \notin {"audit", "catch"} \cup Closing)
        => runs[t] = 0
  BY <1>2, RunByItself
<1>4. ASSUME Gate(p) PROVE SerialInv'
  <2>1. UNCHANGED <<queue, history, runs, cur, phase, epc, target>>
    BY <1>4 DEF Gate
  <2>2. /\ queue[t] # NoFile /\ copy[p] = queue[t] /\ runs[t] = 0
        /\ phase[p] = "gate" /\ pc[p] = "gate"
    BY <1>2, <1>3, <1>4 DEF Gate, Track, PhaseInv, Ended, Closing
  <2>3. CASE pc'[p] \in {"done", "thrown"}
    <3>1. Track(p)' /\ Unfinished(t)'
      BY <2>1, <2>2, <2>3 DEF Track, Unfinished, Ended, Closing
    <3> QED BY <1>2, <1>4, <2>1, <3>1, RunnerFrame DEF Gate
  <2>4. CASE pc'[p] = "check"
    <3>1. copy' = copy /\ Open(copy[p]) /\ copy[p].status # "cancelled"
      BY <1>4, <2>4 DEF Gate, NeedsApproval, Open
    <3>2. Track(p)' /\ Unfinished(t)'
      BY <2>1, <2>2, <2>4, <3>1 DEF Track, Unfinished, Ended, Closing, Open
    <3> QED BY <1>2, <1>4, <2>1, <3>2, RunnerFrame DEF Gate
  <2>5. CASE pc'[p] = "archive"
    <3>1. verdict'[p] = "refused" /\ ~Open(copy[p]) /\ copy[p].status # "cancelled"
      BY <1>4, <2>5 DEF Gate, NeedsApproval, Open
    <3>2. Track(p)' /\ Unfinished(t)'
      BY <2>1, <2>2, <2>5, <3>1 DEF Track, Unfinished, Ended, Closing, Open
    <3> QED BY <1>2, <1>4, <2>1, <3>2, RunnerFrame DEF Gate
  <2> QED BY <1>4, <2>3, <2>4, <2>5 DEF Gate
<1>5. ASSUME CheckLock(p) PROVE SerialInv'
  <2>1. UNCHANGED <<queue, history, runs, cur, copy, phase, verdict, epc, target>>
    BY <1>5 DEF CheckLock
  <2>2. pc[p] = "check" /\ pc'[p] \in {"done", "clear", "write"}
        /\ \A q \in Runner \ {p} : pc'[q] = pc[q]
    BY <1>5 DEF CheckLock
  <2>3. Track(p)'
    BY <1>2, <2>1, <2>2 DEF Track, Ended, Closing
  <2>4. Unfinished(t)'
    <3>1. queue[t] # NoFile => runs[t] = 0
      BY <1>3, <2>2 DEF Closing
    <3> QED BY <2>1, <3>1 DEF Unfinished
  <2> QED BY <1>2, <2>1, <2>2, <2>3, <2>4, RunnerFrame
<1>6. ASSUME ClearLock(p) PROVE SerialInv'
  <2>1. UNCHANGED <<queue, history, runs, cur, copy, phase, verdict, epc, target>>
    BY <1>6 DEF ClearLock
  <2>2. Track(p)' /\ Unfinished(t)'
    BY <1>2, <1>3, <1>6, <2>1 DEF ClearLock, Track, Unfinished, Ended, Closing
  <2> QED BY <1>2, <1>6, <2>1, <2>2, RunnerFrame DEF ClearLock
<1>7. ASSUME WriteLock(p) PROVE SerialInv'
  <2>1. UNCHANGED <<queue, history, runs, cur, verdict, epc, target>>
    BY <1>7 DEF WriteLock
  <2>2. /\ SetStatus(copy[p], "running").status = "running"
        /\ Open(SetStatus(copy[p], "running")) = Open(copy[p])
    BY SetStatusFacts DEF Status
  <2>3. queue[t] # NoFile /\ runs[t] = 0 /\ Open(copy[p])
    BY <1>2, <1>3, <1>7 DEF WriteLock, Track, Ended, Closing
  <2>4. Track(p)'
    <3>1. CASE TransitionOk(copy[p].status, "running")
      <4>1. pc'[p] = "save" /\ copy'[p] = SetStatus(copy[p], "running")
        BY <1>7, <3>1 DEF WriteLock
      <4>2. Open(copy'[p]) /\ copy'[p].status = "running"
        BY <2>2, <2>3, <4>1
      <4> QED BY <2>1, <2>3, <4>1, <4>2 DEF Track, Ended, Closing, Open
    <3>2. CASE ~TransitionOk(copy[p].status, "running")
      <4>1. pc'[p] = "aborted"
        BY <1>7, <3>2 DEF WriteLock
      <4> QED BY <4>1 DEF Track, Ended, Closing
    <3> QED BY <3>1, <3>2
  <2>5. Unfinished(t)'
    BY <2>1, <2>3 DEF Unfinished
  <2> QED BY <1>2, <1>7, <2>1, <2>4, <2>5, RunnerFrame DEF WriteLock
<1>8. ASSUME SaveRunning(p) PROVE SerialInv'
  <2>1. UNCHANGED <<history, runs, cur, copy, phase, verdict, epc, target>>
    BY <1>8 DEF SaveRunning
  <2>2. queue'[t] = copy[p] /\ copy[p] # NoFile
    BY <1>8, NoFileAssumption DEF SaveRunning
  <2>3. queue[t] # NoFile /\ runs[t] = 0
    BY <1>2, <1>3, <1>8 DEF SaveRunning, Track, Ended, Closing
  <2>4. Track(p)'
    BY <1>2, <1>8, <2>1, <2>2 DEF SaveRunning, Track, Ended, Closing
  <2>5. Unfinished(t)'
    BY <2>1, <2>3 DEF Unfinished
  <2> QED BY <1>2, <1>8, <2>1, <2>4, <2>5, RunnerFrame DEF SaveRunning
<1>9. ASSUME Body(p) PROVE SerialInv'
  <2>1. UNCHANGED <<queue, history, cur, copy, phase, epc, target>>
    BY <1>9 DEF Body
  <2>2. pc[p] = "body" /\ pc'[p] \in {"audit", "catch"}
        /\ \A q \in Runner \ {p} : pc'[q] = pc[q] /\ verdict'[q] = verdict[q]
    BY <1>9 DEF Body
  <2>3. runs'[t] > 0 /\ \A s \in Task \ {t} : runs'[s] = runs[s]
    BY <1>9 DEF Body
  <2>4. phase[p] # "gate" /\ queue[t] # NoFile /\ copy[p].status = "running"
    BY <1>2, <2>2 DEF PhaseInv, Track, Ended
  <2>5. Track(p)'
    BY <2>1, <2>2, <2>3, <2>4 DEF Track, Ended, Closing
  <2>6. Unfinished(t)'
    BY <2>1, <2>2, <2>4 DEF Unfinished
  <2> QED BY <1>2, <2>1, <2>2, <2>3, <2>5, <2>6, RunnerFrame
<1>10. ASSUME AuditVerdict(p) PROVE SerialInv'
  <2>1. UNCHANGED <<queue, history, runs, cur, phase, verdict, epc, target>>
    BY <1>10 DEF AuditVerdict
  <2>2. pc[p] = "audit" /\ copy[p].status = "running" /\ runs[t] > 0
        /\ queue[t] # NoFile /\ phase[p] # "gate"
    BY <1>2, <1>10 DEF AuditVerdict, PhaseInv, Track, Ended
  <2>3. CASE TransitionOk(copy[p].status, verdict[p])
    <3>1. verdict[p] \in {"completed", "failed"}
      BY <2>2, <2>3 DEF TransitionOk, canTransitionTaskStatus, ALLOWED_TRANSITIONS,
                        Outcome, Status
    <3>2. pc'[p] = "archive"
      BY <1>10, <2>3 DEF AuditVerdict
    <3>3. Track(p)' /\ Unfinished(t)'
      BY <2>1, <2>2, <3>1, <3>2 DEF Track, Unfinished, Ended, Closing
    <3> QED BY <1>2, <1>10, <2>1, <3>3, RunnerFrame DEF AuditVerdict
  <2>4. CASE ~TransitionOk(copy[p].status, verdict[p])
    <3>1. pc'[p] = "catch" /\ copy' = copy
      BY <1>10, <2>4 DEF AuditVerdict
    <3>2. Track(p)' /\ Unfinished(t)'
      BY <2>1, <2>2, <3>1 DEF Track, Unfinished, Ended, Closing
    <3> QED BY <1>2, <1>10, <2>1, <3>2, RunnerFrame DEF AuditVerdict
  <2> QED BY <2>3, <2>4
<1>11. ASSUME Catch(p) PROVE SerialInv'
  <2>1. UNCHANGED <<queue, history, runs, cur, epc, target>>
    BY <1>11 DEF Catch
  <2>2. pc[p] = "catch" /\ copy[p].status = "running" /\ runs[t] > 0 /\ queue[t] # NoFile
    BY <1>2, <1>11 DEF Catch, Track, Ended
  <2>3. TransitionOk(copy[p].status, "failed")
    BY <2>2 DEF TransitionOk, canTransitionTaskStatus, ALLOWED_TRANSITIONS, Status
  <2>4. pc'[p] = "archive" /\ phase'[p] = "catch" /\ verdict'[p] = "failed"
    BY <1>11, <2>3 DEF Catch
  <2>5. Track(p)' /\ Unfinished(t)'
    BY <2>1, <2>2, <2>4 DEF Track, Unfinished, Ended, Closing
  <2> QED BY <1>2, <1>11, <2>1, <2>5, RunnerFrame DEF Catch
<1>12. ASSUME Archive(p) PROVE SerialInv'
  <2>1. UNCHANGED <<queue, runs, cur, copy, phase, verdict, epc, target>>
    BY <1>12 DEF Archive
  <2>2. pc[p] = "archive" /\ pc'[p] = "exists" /\ history'[t] = verdict[p]
    BY <1>2, <1>12 DEF Archive
  <2>3. Track(p)'
    BY <1>2, <2>1, <2>2 DEF Track, Ended, Closing
  <2>4. Unfinished(t)'
    BY <1>3, <2>1, <2>2 DEF Unfinished, Closing
  <2> QED BY <1>2, <1>12, <2>1, <2>3, <2>4, RunnerFrame DEF Archive
<1>13. ASSUME FindQueued(p) PROVE SerialInv'
  <2>1. UNCHANGED <<queue, history, runs, cur, copy, phase, verdict, epc, target>>
    BY <1>13 DEF FindQueued
  <2>2. pc[p] = "exists" /\ queue[t] # NoFile
    BY <1>2, <1>13 DEF FindQueued, Track, Ended
  <2>3. pc'[p] = "rename"
    BY <1>13, <2>2 DEF FindQueued
  <2>4. Track(p)'
    BY <1>2, <2>1, <2>2, <2>3 DEF Track, Ended, Closing
  <2>5. Unfinished(t)'
    BY <1>3, <2>1, <2>2, <2>3 DEF Unfinished, Closing
  <2> QED BY <1>2, <1>13, <2>1, <2>4, <2>5, RunnerFrame DEF FindQueued
<1>14. ASSUME Rename(p) PROVE SerialInv'
  <2>1. UNCHANGED <<history, runs, cur, copy, phase, verdict, epc, target>>
    BY <1>14 DEF Rename
  <2>2. queue[t] # NoFile
    BY <1>2, <1>14 DEF Rename, Track, Ended
  <2>3. queue'[t] = NoFile /\ pc'[p] \in {"done", "release"}
    BY <1>2, <1>14, <2>2 DEF Rename, AfterArchive
  <2>4. Track(p)' /\ Unfinished(t)'
    BY <2>1, <2>3 DEF Track, Unfinished, Ended, Closing
  <2>5. \A s \in Task \ {t} : queue'[s] = queue[s]
    BY <1>14, <2>2 DEF Rename
  <2>6. \A q \in Runner \ {p} : pc'[q] = pc[q]
    BY <1>14, <2>2 DEF Rename
  <2> QED BY <1>2, <2>1, <2>4, <2>5, <2>6, RunnerFrame
<1>15. ASSUME Release(p) PROVE SerialInv'
  <2>1. UNCHANGED <<queue, history, runs, cur, copy, phase, verdict, epc, target>>
    BY <1>15 DEF Release
  <2>2. pc[p] = "release" /\ pc'[p] = "done"
    BY <1>15 DEF Release
  <2>3. Track(p)' /\ Unfinished(t)'
    BY <1>3, <2>1, <2>2 DEF Track, Unfinished, Ended, Closing
  <2> QED BY <1>2, <1>15, <2>1, <2>3, RunnerFrame DEF Release
<1> QED
  BY <1>4, <1>5, <1>6, <1>7, <1>8, <1>9, <1>10, <1>11, <1>12, <1>13, <1>14, <1>15
  DEF RunnerStep, Load

\* A runner that loads a task nobody works on becomes the one at work on it.
LEMMA LoadKeeps ==
  ASSUME TypeOK, PhaseInv, SerialInv, NEW p \in Runner, Load(p), ~Busy(cur[p])
  PROVE  SerialInv'
<1> DEFINE t == cur[p]
<1> USE DEF TypeOK, Goto, files, runners, editors, ghosts
<1>1. /\ \A q \in Runner : ~Active(q, t)
      /\ \A e \in Editor : ~Writing(e, t)
  BY DEF Busy, Active, Writing
<1>2. UNCHANGED <<queue, history, runs, cur, phase, verdict, epc, target>>
  BY DEF Load
<1>3. Unfinished(t)'
  <2>1. \A q \in Runner : cur[q] = t => pc[q] \in Ended \cup {"start"}
    BY <1>1 DEF Active
  <2>2. queue[t] # NoFile => runs[t] = 0
    BY <2>1 DEF SerialInv, Unfinished, Ended, Closing
  <2> QED BY <1>2, <2>2 DEF Unfinished
<1>4. Track(p)'
  <2>1. CASE queue[t] = NoFile
    BY <2>1 DEF Load, Track, Ended, Closing
  <2>2. CASE queue[t] # NoFile
    <3>1. pc'[p] = "gate" /\ copy'[p] = queue[t]
      BY <2>2 DEF Load
    <3> QED BY <1>2, <2>2, <3>1 DEF Track, Ended, Closing
  <2> QED BY <2>1, <2>2
<1> QED BY <1>1, <1>2, <1>3, <1>4, RunnerFrame DEF Load

\* What an editor's step has to keep: it starts or ends the only work on its
\* task, and it leaves the runners alone.
LEMMA EditorFrame ==
  ASSUME TypeOK, SerialInv, NEW e \in Editor,
         \A q \in Runner : ~Active(q, target[e]),
         \A d \in Editor : Writing(d, target[e]) => d = e,
         \A d \in Editor \ {e} : epc'[d] = epc[d],
         \A t \in Task \ {target[e]} : queue'[t] = queue[t],
         epc'[e] = "write" => queue'[target[e]] # NoFile,
         queue'[target[e]] # NoFile => queue[target[e]] # NoFile,
         UNCHANGED <<history, runs, runners, target>>
  PROVE  SerialInv'
<1> USE DEF TypeOK, runners
<1> DEFINE s == target[e]
<1>1. \A t \in Task, q \in Runner : Active(q, t)' = Active(q, t)
  BY DEF Active
<1>2. \A t \in Task, d \in Editor :
        Writing(d, t)' => Writing(d, t) \/ (d = e /\ t = s)
  BY DEF Writing
<1>3. Alone'
  <2>1. Alone
    BY DEF SerialInv
  <2>2. ASSUME NEW t \in Task, NEW q \in Runner, NEW r \in Runner,
               Active(q, t)', Active(r, t)'
        PROVE  q = r
    BY <1>1, <2>1, <2>2 DEF Alone
  <2>3. ASSUME NEW t \in Task, NEW d \in Editor, NEW f \in Editor,
               Writing(d, t)', Writing(f, t)'
        PROVE  d = f
    <3>1. (Writing(d, t) \/ (d = e /\ t = s)) /\ (Writing(f, t) \/ (f = e /\ t = s))
      BY <1>2, <2>3
    <3> QED BY <2>1, <3>1 DEF Alone
  <2>4. ASSUME NEW t \in Task, NEW q \in Runner, NEW d \in Editor,
               Active(q, t)', Writing(d, t)'
        PROVE  FALSE
    <3>1. (Writing(d, t) \/ (d = e /\ t = s)) /\ Active(q, t)
      BY <1>1, <1>2, <2>4
    <3> QED BY <2>1, <3>1 DEF Alone
  <2> QED BY <2>2, <2>3, <2>4 DEF Alone
<1>4. ASSUME NEW q \in Runner PROVE Track(q)'
  <2>1. Track(q)
    BY DEF SerialInv
  <2>2. CASE cur[q] = s
    <3>1. pc[q] \in Ended \cup {"start"}
      BY <2>2 DEF Active
    <3> QED BY <3>1 DEF Track, Ended, Closing
  <2>3. CASE cur[q] # s
    BY <2>1, <2>3 DEF Track
  <2> QED BY <2>2, <2>3
<1>5. ASSUME NEW t \in Task PROVE Unfinished(t)'
  BY DEF SerialInv, Unfinished
<1>6. ASSUME NEW d \in Editor, epc'[d] = "write" PROVE queue'[target'[d]] # NoFile
  <2>1. CASE d = e
    BY <1>6, <2>1
  <2>2. CASE d # e
    <3>1. Writing(d, target[d]) /\ target[d] # s
      BY <1>6, <2>2 DEF Writing
    <3> QED BY <3>1 DEF SerialInv, Writing
  <2> QED BY <2>1, <2>2
<1> QED BY <1>3, <1>4, <1>5, <1>6 DEF SerialInv

\* SerialInv is inductive under the discipline.
LEMMA SerialInductive ==
  TypeOK /\ PhaseInv /\ SerialInv /\ [SerialNext]_vars => SerialInv'
<1> SUFFICES ASSUME TypeOK, PhaseInv, SerialInv, [SerialNext]_vars PROVE SerialInv'
  OBVIOUS
<1> USE DEF files, runners, editors, ghosts
<1>1. ASSUME NEW p \in Runner, Load(p), ~Busy(cur[p]) PROVE SerialInv'
  BY <1>1, LoadKeeps
<1>2. ASSUME NEW p \in Runner, pc[p] # "start", RunnerStep(p) PROVE SerialInv'
  BY <1>2, RunnerKeeps
<1>3. ASSUME NEW e \in Editor, EditLoad(e), ~Busy(target[e]) PROVE SerialInv'
  <2>1. /\ \A q \in Runner : ~Active(q, target[e])
        /\ \A d \in Editor : ~Writing(d, target[e])
    BY <1>3 DEF Busy, Active, Writing
  <2>2. UNCHANGED <<queue, history, runs, runners, target>>
    BY <1>3 DEF EditLoad
  <2>3. \A d \in Editor \ {e} : epc'[d] = epc[d]
    BY <1>3 DEF EditLoad, TypeOK
  <2>4. epc'[e] = "write" => queue[target[e]] # NoFile
    BY <1>3 DEF EditLoad, TypeOK
  <2> QED BY <2>1, <2>2, <2>3, <2>4, EditorFrame
<1>4. ASSUME NEW e \in Editor, EditWrite(e) PROVE SerialInv'
  <2>1. Writing(e, target[e]) /\ target[e] \in Task
    BY <1>4 DEF EditWrite, Writing, TypeOK
  <2>2. /\ \A q \in Runner : ~Active(q, target[e])
        /\ \A d \in Editor : Writing(d, target[e]) => d = e
    BY <2>1 DEF SerialInv, Alone
  <2>3. queue[target[e]] # NoFile
    BY <2>1 DEF SerialInv, Writing
  <2>4. /\ UNCHANGED <<history, runs, runners, target>>
        /\ epc'[e] = "done" /\ \A d \in Editor \ {e} : epc'[d] = epc[d]
        /\ \A t \in Task \ {target[e]} : queue'[t] = queue[t]
    BY <1>4 DEF EditWrite, TypeOK
  <2> QED BY <2>2, <2>3, <2>4, EditorFrame
<1>5. ASSUME NEW t \in Task, Expire(t) PROVE SerialInv'
  BY <1>5, SerialStutter DEF Expire
<1>6. ASSUME NEW t \in Task, ResetLock(t) PROVE SerialInv'
  BY <1>6, SerialStutter DEF ResetLock
<1>7. CASE UNCHANGED vars
  BY <1>7, SerialStutter DEF vars
<1> QED BY <1>1, <1>2, <1>3, <1>4, <1>5, <1>6, <1>7 DEF SerialNext

-----------------------------------------------------------------------------
(***************************************************************************)
(* Refinement                                                              *)
(***************************************************************************)
\* A step that touches neither a task file, nor a result, nor a run.
LEMMA NothingHappens ==
  ASSUME UNCHANGED <<queue, archived, history, runs>>
  PROVE  UNCHANGED Abstract!vars
BY DEF Abstract!vars, Stage, Last

\* A task file that is rewritten before the task is run has been decided on.
LEMMA DecideStep ==
  ASSUME TypeOK, NEW t \in Task, NEW r \in TaskRec, queue[t] # NoFile, runs[t] = 0,
         queue' = [queue EXCEPT ![t] = r], UNCHANGED <<archived, history, runs>>
  PROVE  Abstract!Next
<1> DEFINE open == [s \in Task |-> Open(Last(s))]
           cancelled == [s \in Task |-> Last(s).status = "cancelled"]
<1>1. r # NoFile
  BY NoFileAssumption
<1>2. queue'[t] = r /\ \A s \in Task \ {t} : queue'[s] = queue[s]
  BY DEF TypeOK
<1>3. Last(t)' = r /\ \A s \in Task \ {t} : Last(s)' = Last(s)
  BY <1>1, <1>2 DEF Last
<1>4. open' = [open EXCEPT ![t] = Open(r)]
  <2>1. \A s \in Task : Open(Last(s))' = IF s = t THEN Open(r) ELSE Open(Last(s))
    BY <1>3 DEF Open
  <2> QED BY <2>1
<1>5. cancelled' = [cancelled EXCEPT ![t] = (r.status = "cancelled")]
  BY <1>3
<1>6. Stage(t) = "queued"
  BY DEF Stage
<1>7. \A s \in Task : Stage(s)' = Stage(s)
  BY <1>1, <1>2 DEF Stage
<1>8. \A s \in Task : (queue'[s] = NoFile) = (queue[s] = NoFile)
  BY <1>1, <1>2
<1>9. Open(r) \in BOOLEAN /\ (r.status = "cancelled") \in BOOLEAN
  BY DEF Open, TaskRec
<1>10. Abstract!Decide(t)
  BY <1>4, <1>5, <1>6, <1>7, <1>8, <1>9 DEF Abstract!Decide
<1> QED BY <1>10 DEF Abstract!Next

\* The body of a task is entered while its gate is open.
LEMMA BodyStarts ==
  ASSUME TypeOK, PhaseInv, SerialInv, NEW p \in Runner, Body(p)
  PROVE  Abstract!Next
<1> DEFINE t == cur[p]
<1>1. t \in Task /\ pc[p] = "body" /\ UNCHANGED <<cur, queue, archived, history>>
  BY DEF Body, TypeOK, files
<1>2. runs' = [runs EXCEPT ![t] = runs[t] + 1]
  BY DEF Body
<1>3. queue[t] # NoFile /\ Open(queue[t]) /\ queue[t].status = "running"
  BY <1>1, AtWork DEF Track, Ended
<1>4. runs[t] = 0
  BY <1>1, <1>3, AtWork, RunByItself DEF Ended, Closing
<1>5. runs'[t] = 1 /\ \A s \in Task \ {t} : runs'[s] = runs[s]
  BY <1>1, <1>2, <1>4 DEF TypeOK
<1>6. Stage(t) = "queued" /\ Stage(t)' = "running"
  BY <1>1, <1>3, <1>4, <1>5 DEF Stage
<1>7. \A s \in Task \ {t} : Stage(s)' = Stage(s)
  BY <1>1, <1>5 DEF Stage
<1>8. Open(Last(t)) /\ ~(Last(t).status = "cancelled")
  BY <1>3 DEF Last
<1>9. \A s \in Task : Last(s)' = Last(s) /\ Open(Last(s))' = Open(Last(s))
  BY <1>1 DEF Last, Open
<1>10. Abstract!Start(t)
  BY <1>1, <1>2, <1>6, <1>7, <1>8, <1>9 DEF Abstract!Start
<1> QED BY <1>1, <1>10 DEF Abstract!Next

\* The task file is moved away with the verdict as the one outcome: refused
\* before a run, completed or failed after it.
LEMMA RenameCloses ==
  ASSUME TypeOK, PhaseInv, SerialInv, NEW p \in Runner, NEW t \in Task,
         t = cur[p], Rename(p)
  PROVE  Abstract!Next
<1> DEFINE outcome == [s \in Task |-> IF queue[s] = NoFile THEN history[s] ELSE NoFile]
           stage == [s \in Task |-> Stage(s)]
<1>1. pc[p] = "rename" /\ UNCHANGED <<cur, history, runs>>
  BY DEF Rename, TypeOK, ghosts
<1>2. Track(p) /\ Active(p, t)
  BY <1>1, AtWork DEF Ended
<1>3. queue[t] # NoFile /\ history[t] = verdict[p]
  BY <1>1, <1>2 DEF Track, Ended
<1>4. /\ queue'[t] = NoFile /\ archived'[t] = queue[t]
      /\ \A s \in Task \ {t} : queue'[s] = queue[s] /\ archived'[s] = archived[s]
  BY <1>1, <1>3 DEF Rename, TypeOK
<1>5. \A s \in Task : Last(s)' = Last(s) /\ Open(Last(s))' = Open(Last(s))
  BY <1>3, <1>4 DEF Last, Open
<1>6. stage' = [stage EXCEPT ![t] = "closed"]
  <2>1. Stage(t)' = "closed" /\ \A s \in Task \ {t} : Stage(s)' = Stage(s)
    BY <1>1, <1>4 DEF Stage
  <2> QED BY <1>1, <2>1
<1>7. outcome' = [outcome EXCEPT ![t] = verdict[p]]
  BY <1>1, <1>3, <1>4
<1>8. UNCHANGED <<[s \in Task |-> Open(Last(s))],
                  [s \in Task |-> Last(s).status = "cancelled"], runs>>
  BY <1>1, <1>5
<1>9. CASE phase[p] = "gate"
  <2>1. verdict[p] = "refused" /\ ~Open(Last(t)) /\ ~(Last(t).status = "cancelled")
    BY <1>1, <1>2, <1>3, <1>9 DEF Track, Closing, Last
  <2>2. runs[t] = 0
    BY <1>1, <1>2, <1>3, <1>9, RunByItself
  <2>3. Stage(t) = "queued"
    BY <1>3, <2>2 DEF Stage
  <2>4. Abstract!Close(t)
    BY <1>1, <1>6, <1>7, <1>8, <2>1, <2>3 DEF Abstract!Close
  <2> QED BY <2>4 DEF Abstract!Next
<1>10. CASE phase[p] # "gate"
  <2>1. verdict[p] \in {"completed", "failed"} /\ runs[t] > 0
    BY <1>1, <1>2, <1>10 DEF Track, Closing
  <2>2. Stage(t) = "running"
    BY <1>3, <2>1 DEF Stage
  <2>3. \E o \in {"completed", "failed"} : outcome' = [outcome EXCEPT ![t] = o]
    BY <1>7, <2>1
  <2>4. Abstract!Close(t)
    BY <1>1, <1>6, <1>8, <2>2, <2>3 DEF Abstract!Close
  <2> QED BY <2>4 DEF Abstract!Next
<1> QED BY <1>9, <1>10

\* A result that is written while its task is still in the queue is not yet
\* an outcome.
LEMMA ArchiveStutters ==
  ASSUME TypeOK, SerialInv, NEW p \in Runner, Archive(p)
  PROVE  UNCHANGED Abstract!vars
<1>1. cur[p] \in Task /\ pc[p] = "archive" /\ UNCHANGED <<queue, archived, runs>>
  BY DEF Archive, TypeOK, ghosts
<1>2. queue[cur[p]] # NoFile
  BY <1>1, AtWork DEF Track, Ended
<1>3. \A s \in Task \ {cur[p]} : history'[s] = history[s]
  BY DEF Archive, TypeOK
<1> QED BY <1>1, <1>2, <1>3 DEF Abstract!vars, Stage, Last

\* Every step of the serial task layer is a step of the queue, or a stutter.
LEMMA StepRefines ==
  TypeOK /\ PhaseInv /\ SerialInv /\ [SerialNext]_vars => [Abstract!Next]_(Abstract!vars)
<1> SUFFICES ASSUME TypeOK, PhaseInv, SerialInv, [SerialNext]_vars
             PROVE  [Abstract!Next]_(Abstract!vars)
  OBVIOUS
<1> USE DEF files, ghosts
<1>1. ASSUME NEW p \in Runner, RunnerStep(p) PROVE [Abstract!Next]_(Abstract!vars)
  <2>1. CASE Load(p)
    BY <2>1, NothingHappens DEF Load
  <2>2. CASE Gate(p)
    BY <2>2, NothingHappens DEF Gate
  <2>3. CASE CheckLock(p)
    BY <2>3, NothingHappens DEF CheckLock
  <2>4. CASE ClearLock(p)
    BY <2>4, NothingHappens DEF ClearLock
  <2>5. CASE WriteLock(p)
    BY <2>5, NothingHappens DEF WriteLock
  <2>6. CASE SaveRunning(p)
    <3>1. pc[p] = "save" /\ cur[p] \in Task /\ copy[p] \in TaskRec
      BY <2>6 DEF SaveRunning, TypeOK
    <3>2. queue[cur[p]] # NoFile
      BY <3>1, AtWork DEF Track, Ended
    <3>3. runs[cur[p]] = 0
      BY <3>1, <3>2, AtWork, RunByItself DEF Ended, Closing
    <3> QED BY <2>6, <3>1, <3>2, <3>3, DecideStep DEF SaveRunning
  <2>7. CASE Body(p)
    BY <2>7, BodyStarts
  <2>8. CASE AuditVerdict(p)
    BY <2>8, NothingHappens DEF AuditVerdict
  <2>9. CASE Catch(p)
    BY <2>9, NothingHappens DEF Catch
  <2>10. CASE Archive(p)
    BY <2>10, ArchiveStutters
  <2>11. CASE FindQueued(p)
    BY <2>11, NothingHappens DEF FindQueued
  <2>12. CASE Rename(p)
    <3>1. cur[p] \in Task
      BY DEF TypeOK
    <3> QED BY <2>12, <3>1, RenameCloses
  <2>13. CASE Release(p)
    BY <2>13, NothingHappens DEF Release
  <2> QED
    BY <1>1, <2>1, <2>2, <2>3, <2>4, <2>5, <2>6, <2>7, <2>8, <2>9, <2>10,
       <2>11, <2>12, <2>13
    DEF RunnerStep
<1>2. ASSUME NEW e \in Editor, EditLoad(e) PROVE [Abstract!Next]_(Abstract!vars)
  BY <1>2, NothingHappens DEF EditLoad
<1>3. ASSUME NEW e \in Editor, EditWrite(e) PROVE [Abstract!Next]_(Abstract!vars)
  <2> DEFINE t == target[e]
  <2>1. t \in Task /\ draft[e] \in TaskRec /\ Writing(e, t)
    BY <1>3 DEF EditWrite, TypeOK, Writing
  <2>2. queue[t] # NoFile /\ \A q \in Runner : ~Active(q, t)
    BY <2>1 DEF SerialInv, Alone, Writing
  <2>3. runs[t] = 0
    BY <2>1, <2>2 DEF SerialInv, Unfinished, Active, Ended, Closing
  <2> QED BY <1>3, <2>1, <2>2, <2>3, DecideStep DEF EditWrite
<1>4. ASSUME NEW t \in Task, Expire(t) PROVE [Abstract!Next]_(Abstract!vars)
  BY <1>4, NothingHappens DEF Expire
<1>5. ASSUME NEW t \in Task, ResetLock(t) PROVE [Abstract!Next]_(Abstract!vars)
  BY <1>5, NothingHappens DEF ResetLock
<1>6. CASE UNCHANGED vars
  BY <1>6, NothingHappens DEF vars
<1> QED BY <1>1, <1>2, <1>3, <1>4, <1>5, <1>6 DEF SerialNext, RunnerStep

\* Tasks that wait in the queue have not been run, and nobody is at work.
LEMMA SerialInit == Init => SerialInv /\ Abstract!Init
<1> SUFFICES ASSUME Init PROVE SerialInv /\ Abstract!Init
  OBVIOUS
<1>1. SerialInv
  BY DEF Init, SerialInv, Alone, Active, Writing, Track, Unfinished, Ended, Closing
<1>2. \A t \in Task : queue[t] \in TaskRec /\ queue[t] # NoFile
  BY CreatedAssumption, TypeOfAssumption, NoFileAssumption DEF Init
<1>3. \A t \in Task : Stage(t) = "queued" /\ Last(t) = queue[t]
  BY <1>2 DEF Init, Stage, Last
<1>4. \A t \in Task : Open(Last(t)) \in BOOLEAN /\ (Last(t).status = "cancelled") \in BOOLEAN
  BY <1>2, <1>3 DEF Open, TaskRec
<1>5. Abstract!Init
  BY <1>2, <1>3, <1>4 DEF Init, Abstract!Init
<1> QED BY <1>1, <1>5

\* One task runs at most once, only while its gate is open and it is not
\* cancelled, and closes once with one outcome, if the commands that work on
\* it do not overlap (taskRunner.ts, taskStore.ts).
THEOREM Implements == SerialSpec => ImplementsTaskQueue
<1>1. SerialSpec => Spec
  BY SerialIsNext, PTL DEF SerialSpec, Spec
<1>2. SerialSpec => [](TypeOK /\ PhaseInv)
  BY <1>1, TypeCorrect, PhaseCorrect, PTL
<1>3. SerialSpec => []SerialInv
  BY <1>2, SerialInit, SerialInductive, PTL DEF SerialSpec
<1> QED
  BY <1>2, <1>3, SerialInit, StepRefines, PTL
  DEF SerialSpec, ImplementsTaskQueue, Abstract!Spec
=============================================================================
