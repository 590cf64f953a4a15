-------------------------- MODULE TaskRunnerProofs --------------------------
(***************************************************************************)
(* Proofs of the safety properties of TaskRunner for every number of       *)
(* tasks, runners and editors and every bound on crashes and I/O errors.   *)
(***************************************************************************)
EXTENDS TaskRunner, TLAPS

\* A transition makes a task record of a task record (transitionTaskStatus).
LEMMA SetStatusType ==
  ASSUME NEW rec \in TaskRec, NEW s \in Status
  PROVE  SetStatus(rec, s) \in TaskRec
BY DEF SetStatus, TaskRec

\* It changes the status and leaves the approval gate as it is.
LEMMA SetStatusFacts ==
  ASSUME NEW rec \in TaskRec, NEW s \in Status
  PROVE  SetStatus(rec, s).status = s /\ Open(SetStatus(rec, s)) = Open(rec)
BY DEF SetStatus, TaskRec, Open

\* Whatever command it is given, an editor makes a task record of a task
\* record (taskEditor.ts, approveTask and cancelTask).
LEMMA ResultsType ==
  ASSUME NEW cmd \in {"approve", "cancel", "edit"}, NEW rec \in TaskRec
  PROVE  Results(cmd, rec) \subseteq TaskRec
<1>1. CASE cmd = "approve"
  BY <1>1 DEF Results, TaskRec, Status
<1>2. CASE cmd = "cancel"
  BY <1>2, SetStatusType DEF Results, Status
<1>3. CASE cmd = "edit"
  <2>1. \A s \in EditStatus : [rec EXCEPT !.status = s] \in TaskRec
    BY SetStatusType, EditAssumption DEF SetStatus
  <2>2. \A b \in BOOLEAN : [rec EXCEPT !.approved = b] \in TaskRec
    BY DEF TaskRec
  <2>3. \A b \in BOOLEAN : [rec EXCEPT !.requires_confirmation = b] \in TaskRec
    BY DEF TaskRec
  <2>4. \A b \in BOOLEAN : [rec EXCEPT !.auto_run = b] \in TaskRec
    BY DEF TaskRec
  <2>5. Edited(rec) \subseteq TaskRec
    BY <2>1, <2>2, <2>3, <2>4 DEF Edited
  <2> QED BY <1>3, <2>5 DEF Results
<1> QED BY <1>1, <1>2, <1>3

\* TypeOK is an inductive invariant.
THEOREM TypeCorrect == Spec => []TypeOK
<1> USE TypeOfAssumption, CreatedAssumption, BoundAssumption
<1>1. Init => TypeOK
  BY DEF Init, TypeOK, Pc, Ended, Outcome
<1>2. TypeOK /\ [Next]_vars => TypeOK'
  <2> SUFFICES ASSUME TypeOK, [Next]_vars PROVE TypeOK'
    OBVIOUS
  <2> USE DEF TypeOK, Pc, Ended, Goto, Log, files, runners, editors, ghosts
  <2>1. ASSUME NEW p \in Runner, Load(p) PROVE TypeOK'
    BY <2>1 DEF Load
  <2>2. ASSUME NEW p \in Runner, Gate(p) PROVE TypeOK'
    <3>1. SetStatus(copy[p], "refused") \in TaskRec
      BY SetStatusType DEF Status
    <3>2. "approval_required" \in Event /\ "refused" \in Outcome
      BY DEF Event, Outcome
    <3>3. UNCHANGED <<queue, archived, history, lock, cur, phase, editors,
                      crashes, ioErrors, ghosts>>
      BY <2>2 DEF Gate
    <3>4. audit' \in [Task -> SUBSET Event] /\ verdict' \in [Runner -> Outcome]
      BY <2>2, <3>2 DEF Gate
    <3>5. copy' \in [Runner -> TaskRec]
      BY <2>2, <3>1 DEF Gate
    <3>6. pc' \in [Runner -> Pc]
      BY <2>2 DEF Gate
    <3> QED BY <3>3, <3>4, <3>5, <3>6
  <2>3. ASSUME NEW p \in Runner, CheckLock(p) PROVE TypeOK'
    <3>1. UNCHANGED <<queue, archived, history, lock, cur, copy, phase, verdict,
                      editors, crashes, ioErrors, runs, consented>>
      BY <2>3 DEF CheckLock
    <3>2. audit' \in [Task -> SUBSET Event]
      BY <2>3 DEF CheckLock, Event
    <3>3. pc' \in [Runner -> Pc]
      BY <2>3 DEF CheckLock
    <3>4. tainted' \subseteq Task
      BY <2>3 DEF CheckLock
    <3> QED BY <3>1, <3>2, <3>3, <3>4
  <2>4. ASSUME NEW p \in Runner, ClearLock(p) PROVE TypeOK'
    BY <2>4 DEF ClearLock
  <2>5. ASSUME NEW p \in Runner, WriteLock(p) PROVE TypeOK'
    <3>1. SetStatus(copy[p], "running") \in TaskRec
      BY SetStatusType DEF Status
    <3>2. [owner |-> p, expired |-> FALSE] \in Lock
      BY DEF Lock
    <3> QED BY <2>5, <3>1, <3>2 DEF WriteLock
  <2>6. ASSUME NEW p \in Runner, SaveRunning(p) PROVE TypeOK'
    BY <2>6 DEF SaveRunning
  <2>7. ASSUME NEW p \in Runner, Body(p) PROVE TypeOK'
    BY <2>7, SMTT(30) DEF Body, Verdicts, Outcome
  <2>8. ASSUME NEW p \in Runner, AuditVerdict(p) PROVE TypeOK'
    <3>1. VerdictEvent(p) \in Event /\ verdict[p] \in Status
      BY DEF VerdictEvent, Event, Outcome, Status
    <3>2. SetStatus(copy[p], verdict[p]) \in TaskRec
      BY <3>1, SetStatusType
    <3> QED BY <2>8, <3>1, <3>2 DEF AuditVerdict
  <2>9. ASSUME NEW p \in Runner, Catch(p) PROVE TypeOK'
    BY <2>9, SetStatusType DEF Catch, Event, Outcome, Status
  <2>10. ASSUME NEW p \in Runner, Archive(p) PROVE TypeOK'
    BY <2>10 DEF Archive
  <2>11. ASSUME NEW p \in Runner, FindQueued(p) PROVE TypeOK'
    BY <2>11 DEF FindQueued, AfterArchive
  <2>12. ASSUME NEW p \in Runner, Rename(p) PROVE TypeOK'
    BY <2>12, ZenonT(40) DEF Rename, AfterArchive, ThrowTarget
  <2>13. ASSUME NEW p \in Runner, Release(p) PROVE TypeOK'
    BY <2>13 DEF Release
  <2>14. ASSUME NEW p \in Runner, Crash(p) PROVE TypeOK'
    BY <2>14 DEF Crash
  <2>15. ASSUME NEW p \in Runner, IoError(p) PROVE TypeOK'
    BY <2>15 DEF IoError, ThrowTarget
  <2>16. ASSUME NEW e \in Editor, EditLoad(e) PROVE TypeOK'
    BY <2>16, ResultsType, SMTT(30) DEF EditLoad
  <2>17. ASSUME NEW e \in Editor, EditWrite(e) PROVE TypeOK'
    BY <2>17 DEF EditWrite
  <2>18. ASSUME NEW t \in Task, Expire(t) PROVE TypeOK'
    BY <2>18, ZenonT(40) DEF Expire, Lock
  <2>19. ASSUME NEW t \in Task, ResetLock(t) PROVE TypeOK'
    BY <2>19 DEF ResetLock
  <2>20. CASE UNCHANGED vars
    BY <2>20 DEF vars
  <2> QED
    BY <2>1, <2>2, <2>3, <2>4, <2>5, <2>6, <2>7, <2>8, <2>9, <2>10, <2>11,
       <2>12, <2>13, <2>14, <2>15, <2>16, <2>17, <2>18, <2>19, <2>20
    DEF Next, RunnerStep
<1> QED BY <1>1, <1>2, PTL DEF Spec

-----------------------------------------------------------------------------
(***************************************************************************)
(* The inductive strengthenings                                            *)
(***************************************************************************)
\* Where a runner is tells how far runTask has come.
PhaseInv ==
  \A p \in Runner :
    /\ pc[p] \in {"start", "gate", "check", "clear", "write"} => phase[p] = "gate"
    /\ pc[p] \in {"save", "body", "audit", "catch", "release"} => phase[p] # "gate"
    /\ pc[p] \in {"save", "body", "audit"} => copy[p].status = "running"

\* Every record on its way to a runner's body is open with somebody's consent.
ConsentInv ==
  /\ \A t \in Task : queue[t] # NoFile /\ Open(queue[t]) => t \in consented
  /\ \A p \in Runner : Open(copy[p]) => cur[p] \in consented
  /\ \A p \in Runner :
       pc[p] \in {"check", "clear", "write", "save", "body"} => Open(copy[p])
  /\ \A e \in Editor : Open(draft[e]) => target[e] \in consented
  /\ NoRunWithoutConsent

\* An untainted task has one runner between its look at the lock and its
\* release, and the lock it holds is its own.
Inside(p, t) == InWindow(p, t) \/ Holds(p, t)

LockInv ==
  \A t \in Task \ tainted :
    /\ \A p, q \in Runner : Inside(p, t) /\ Inside(q, t) => p = q
    /\ \A p \in Runner :
         Holds(p, t) => lock[t] = [owner |-> p, expired |-> FALSE]

\* A queue file is moved only after its result has been written.
LostInv ==
  /\ NoTaskLost
  /\ \A p \in Runner : pc[p] \in {"exists", "rename"} => history[cur[p]] # NoFile

\* A result is written only after the event that backs it.
AuditInv ==
  /\ ResultIsAudited
  /\ \A p \in Runner : pc[p] = "archive" => Backed(cur[p], verdict[p])

-----------------------------------------------------------------------------
(***************************************************************************)
(* Proofs                                                                  *)
(***************************************************************************)
LEMMA PhaseInductive == TypeOK /\ PhaseInv /\ [Next]_vars => PhaseInv'
<1> SUFFICES ASSUME TypeOK, PhaseInv, [Next]_vars PROVE PhaseInv'
  OBVIOUS
<1> USE DEF PhaseInv, TypeOK, Goto, runners
<1>1. ASSUME NEW p \in Runner, Load(p) PROVE PhaseInv'
  BY <1>1 DEF Load
<1>2. ASSUME NEW p \in Runner, Gate(p) PROVE PhaseInv'
  BY <1>2 DEF Gate
<1>3. ASSUME NEW p \in Runner, CheckLock(p) PROVE PhaseInv'
  BY <1>3 DEF CheckLock
<1>4. ASSUME NEW p \in Runner, ClearLock(p) PROVE PhaseInv'
  BY <1>4 DEF ClearLock
<1>5. ASSUME NEW p \in Runner, WriteLock(p) PROVE PhaseInv'
  <2>1. SetStatus(copy[p], "running").status = "running"
    BY SetStatusFacts DEF Status
  <2> QED BY <1>5, <2>1 DEF WriteLock
<1>6. ASSUME NEW p \in Runner, SaveRunning(p) PROVE PhaseInv'
  BY <1>6 DEF SaveRunning
<1>7. ASSUME NEW p \in Runner, Body(p) PROVE PhaseInv'
  BY <1>7 DEF Body
<1>8. ASSUME NEW p \in Runner, AuditVerdict(p) PROVE PhaseInv'
  BY <1>8 DEF AuditVerdict
<1>9. ASSUME NEW p \in Runner, Catch(p) PROVE PhaseInv'
  BY <1>9 DEF Catch
<1>10. ASSUME NEW p \in Runner, Archive(p) PROVE PhaseInv'
  BY <1>10 DEF Archive
<1>11. ASSUME NEW p \in Runner, FindQueued(p) PROVE PhaseInv'
  BY <1>11 DEF FindQueued, AfterArchive
<1>12. ASSUME NEW p \in Runner, Rename(p) PROVE PhaseInv'
  BY <1>12 DEF Rename, AfterArchive, ThrowTarget
<1>13. ASSUME NEW p \in Runner, Release(p) PROVE PhaseInv'
  BY <1>13 DEF Release
<1>14. ASSUME NEW p \in Runner, Crash(p) PROVE PhaseInv'
  BY <1>14 DEF Crash, Ended
<1>15. ASSUME NEW p \in Runner, IoError(p) PROVE PhaseInv'
  BY <1>15 DEF IoError, ThrowTarget
<1>16. ASSUME NEW e \in Editor, EditLoad(e) PROVE PhaseInv'
  BY <1>16 DEF EditLoad
<1>17. ASSUME NEW e \in Editor, EditWrite(e) PROVE PhaseInv'
  BY <1>17 DEF EditWrite
<1>18. ASSUME NEW t \in Task, Expire(t) PROVE PhaseInv'
  BY <1>18 DEF Expire
<1>19. ASSUME NEW t \in Task, ResetLock(t) PROVE PhaseInv'
  BY <1>19 DEF ResetLock
<1>20. CASE UNCHANGED vars
  BY <1>20 DEF vars
<1> QED
  BY <1>1, <1>2, <1>3, <1>4, <1>5, <1>6, <1>7, <1>8, <1>9, <1>10, <1>11,
     <1>12, <1>13, <1>14, <1>15, <1>16, <1>17, <1>18, <1>19, <1>20
  DEF Next, RunnerStep

\* Consent travels with every copy of an open record.
LEMMA ConsentInductive ==
  TypeOK /\ ConsentInv /\ [Next]_vars => ConsentInv'
<1> SUFFICES ASSUME TypeOK, ConsentInv, [Next]_vars PROVE ConsentInv'
  OBVIOUS
<1> USE DEF TypeOK, ConsentInv, NoRunWithoutConsent, Goto, files, runners, editors, ghosts
<1>1. ASSUME NEW p \in Runner, Load(p) PROVE ConsentInv'
  BY <1>1 DEF Load
<1>2. ASSUME NEW p \in Runner, Gate(p) PROVE ConsentInv'
  <2>1. Open(SetStatus(copy[p], "refused")) = Open(copy[p])
    BY SetStatusFacts DEF Status
  <2>2. NeedsApproval(copy[p]) \/ Open(copy[p])
    BY DEF NeedsApproval, Open
  <2>3. copy' = copy \/ copy' = [copy EXCEPT ![p] = SetStatus(copy[p], "refused")]
    BY <1>2 DEF Gate
  <2>4. pc'[p] = "check" => Open(copy[p])
    BY <1>2, <2>2 DEF Gate
  <2> QED BY <1>2, <2>1, <2>3, <2>4 DEF Gate
<1>3. ASSUME NEW p \in Runner, CheckLock(p) PROVE ConsentInv'
  BY <1>3 DEF CheckLock
<1>4. ASSUME NEW p \in Runner, ClearLock(p) PROVE ConsentInv'
  BY <1>4 DEF ClearLock
<1>5. ASSUME NEW p \in Runner, WriteLock(p) PROVE ConsentInv'
  <2>1. Open(SetStatus(copy[p], "running")) = Open(copy[p])
    BY SetStatusFacts DEF Status
  <2> QED BY <1>5, <2>1 DEF WriteLock
<1>6. ASSUME NEW p \in Runner, SaveRunning(p) PROVE ConsentInv'
  BY <1>6, NoFileAssumption DEF SaveRunning
<1>7. ASSUME NEW p \in Runner, Body(p) PROVE ConsentInv'
  <2>1. cur[p] \in consented
    BY <1>7 DEF Body
  <2> QED BY <1>7, <2>1 DEF Body
<1>8. ASSUME NEW p \in Runner, AuditVerdict(p) PROVE ConsentInv'
  <2>1. Open(SetStatus(copy[p], verdict[p])) = Open(copy[p])
    <3>1. copy[p] \in TaskRec /\ verdict[p] \in Status
      BY DEF Status, Outcome
    <3> QED BY <3>1, SetStatusFacts
  <2> QED BY <1>8, <2>1 DEF AuditVerdict
<1>9. ASSUME NEW p \in Runner, Catch(p) PROVE ConsentInv'
  <2>1. Open(SetStatus(copy[p], "failed")) = Open(copy[p])
    BY SetStatusFacts DEF Status
  <2> QED BY <1>9, <2>1 DEF Catch
<1>10. ASSUME NEW p \in Runner, Archive(p) PROVE ConsentInv'
  BY <1>10 DEF Archive
<1>11. ASSUME NEW p \in Runner, FindQueued(p) PROVE ConsentInv'
  BY <1>11 DEF FindQueued, AfterArchive
<1>12. ASSUME NEW p \in Runner, Rename(p) PROVE ConsentInv'
  BY <1>12 DEF Rename, AfterArchive, ThrowTarget
<1>13. ASSUME NEW p \in Runner, Release(p) PROVE ConsentInv'
  BY <1>13 DEF Release
<1>14. ASSUME NEW p \in Runner, Crash(p) PROVE ConsentInv'
  BY <1>14 DEF Crash, Ended
<1>15. ASSUME NEW p \in Runner, IoError(p) PROVE ConsentInv'
  BY <1>15 DEF IoError, ThrowTarget
<1>16. ASSUME NEW e \in Editor, EditLoad(e) PROVE ConsentInv'
  BY <1>16 DEF EditLoad
<1>17. ASSUME NEW e \in Editor, EditWrite(e) PROVE ConsentInv'
  BY <1>17, NoFileAssumption DEF EditWrite
<1>18. ASSUME NEW t \in Task, Expire(t) PROVE ConsentInv'
  BY <1>18 DEF Expire
<1>19. ASSUME NEW t \in Task, ResetLock(t) PROVE ConsentInv'
  BY <1>19 DEF ResetLock
<1>20. CASE UNCHANGED vars
  BY <1>20 DEF vars
<1> QED
  BY <1>1, <1>2, <1>3, <1>4, <1>5, <1>6, <1>7, <1>8, <1>9, <1>10, <1>11,
     <1>12, <1>13, <1>14, <1>15, <1>16, <1>17, <1>18, <1>19, <1>20
  DEF Next, RunnerStep

\* The lock changes hands only through its release or through a taint.
LEMMA LockInductive ==
  TypeOK /\ PhaseInv /\ LockInv /\ [Next]_vars => LockInv'
<1> SUFFICES ASSUME TypeOK, PhaseInv, LockInv, [Next]_vars PROVE LockInv'
  OBVIOUS
<1> USE DEF TypeOK, PhaseInv, LockInv, Inside, InWindow, Holds, Goto, files, runners, editors, ghosts
<1>1. ASSUME NEW p \in Runner, Load(p) PROVE LockInv'
  BY <1>1 DEF Load
<1>2. ASSUME NEW p \in Runner, Gate(p) PROVE LockInv'
  BY <1>2 DEF Gate
<1>3. ASSUME NEW p \in Runner, CheckLock(p) PROVE LockInv'
  <2>1. CASE ~LockFree(lock[cur[p]])
    BY <1>3, <2>1 DEF CheckLock, LockFree
  <2>2. CASE LockFree(lock[cur[p]]) /\ cur[p] \in tainted'
    BY <1>3, <2>2 DEF CheckLock
  <2>3. CASE LockFree(lock[cur[p]]) /\ cur[p] \notin tainted'
    <3>1. \A q \in Runner : ~Holds(q, cur[p])
      <4>1. \A q \in Runner : [owner |-> q, expired |-> FALSE] # NoFile
        <5>1. \A q \in Runner :
                [owner |-> q, expired |-> FALSE] \in [owner: Runner, expired: BOOLEAN]
          OBVIOUS
        <5> QED BY <5>1, NoFileAssumption
      <4>2. \A q \in Runner : ~LockFree([owner |-> q, expired |-> FALSE])
        BY <4>1 DEF LockFree
      <4> QED BY <1>3, <2>3, <4>2 DEF CheckLock
    <3>2. \A q \in Runner \ {p} : ~InWindow(q, cur[p])
      BY <1>3, <2>3 DEF CheckLock
    <3> QED BY <1>3, <2>3, <3>1, <3>2 DEF CheckLock
  <2> QED BY <2>1, <2>2, <2>3
<1>4. ASSUME NEW p \in Runner, ClearLock(p) PROVE LockInv'
  <2>1. tainted \subseteq tainted'
    BY <1>4 DEF ClearLock
  <2>2. \A q \in Runner, s \in Task : Inside(q, s)' => Inside(q, s)
    BY <1>4 DEF ClearLock
  <2>3. \A s \in Task \ tainted', q \in Runner :
          Holds(q, s)' => lock'[s] = [owner |-> q, expired |-> FALSE]
    <3> SUFFICES ASSUME NEW s \in Task \ tainted', NEW q \in Runner, Holds(q, s)'
                 PROVE  lock'[s] = [owner |-> q, expired |-> FALSE]
      OBVIOUS
    <3>1. CASE s = cur[p]
      <4>1. Inside(q, s) /\ s \in Task \ tainted
        BY <2>1, <2>2
      <4> QED BY <1>4, <4>1, <3>1 DEF ClearLock
    <3>2. CASE s # cur[p]
      BY <1>4, <2>1, <3>2 DEF ClearLock
    <3> QED BY <3>1, <3>2
  <2> QED BY <2>1, <2>2, <2>3
<1>5. ASSUME NEW p \in Runner, WriteLock(p) PROVE LockInv'
  <2>1. tainted \subseteq tainted'
    BY <1>5 DEF WriteLock
  <2>2. \A q \in Runner, s \in Task : Inside(q, s)' => Inside(q, s)
    BY <1>5 DEF WriteLock
  <2>3. \A s \in Task \ tainted', q \in Runner :
          Holds(q, s)' => lock'[s] = [owner |-> q, expired |-> FALSE]
    <3> SUFFICES ASSUME NEW s \in Task \ tainted', NEW q \in Runner, Holds(q, s)'
                 PROVE  lock'[s] = [owner |-> q, expired |-> FALSE]
      OBVIOUS
    <3>1. CASE s = cur[p]
      <4>1. Inside(q, s) /\ s \in Task \ tainted
        BY <2>1, <2>2
      <4> QED BY <1>5, <4>1, <3>1, ZenonT(40) DEF WriteLock
    <3>2. CASE s # cur[p]
      BY <1>5, <2>1, <3>2 DEF WriteLock
    <3> QED BY <3>1, <3>2
  <2> QED BY <2>1, <2>2, <2>3
<1>6. ASSUME NEW p \in Runner, SaveRunning(p) PROVE LockInv'
  BY <1>6 DEF SaveRunning
<1>7. ASSUME NEW p \in Runner, Body(p) PROVE LockInv'
  BY <1>7 DEF Body
<1>8. ASSUME NEW p \in Runner, AuditVerdict(p) PROVE LockInv'
  BY <1>8 DEF AuditVerdict
<1>9. ASSUME NEW p \in Runner, Catch(p) PROVE LockInv'
  BY <1>9 DEF Catch
<1>10. ASSUME NEW p \in Runner, Archive(p) PROVE LockInv'
  BY <1>10 DEF Archive
<1>11. ASSUME NEW p \in Runner, FindQueued(p) PROVE LockInv'
  BY <1>11 DEF FindQueued, AfterArchive
<1>12. ASSUME NEW p \in Runner, Rename(p) PROVE LockInv'
  BY <1>12 DEF Rename, AfterArchive, ThrowTarget
<1>13. ASSUME NEW p \in Runner, Release(p) PROVE LockInv'
  <2>1. tainted \subseteq tainted'
    BY <1>13 DEF Release
  <2>2. \A q \in Runner, s \in Task : Inside(q, s)' => Inside(q, s)
    BY <1>13 DEF Release
  <2>3. \A s \in Task \ tainted', q \in Runner :
          Holds(q, s)' => lock'[s] = [owner |-> q, expired |-> FALSE]
    <3> SUFFICES ASSUME NEW s \in Task \ tainted', NEW q \in Runner, Holds(q, s)'
                 PROVE  lock'[s] = [owner |-> q, expired |-> FALSE]
      OBVIOUS
    <3>1. CASE s = cur[p]
      <4>1. Inside(q, s) /\ s \in Task \ tainted
        BY <2>1, <2>2
      <4> QED BY <1>13, <4>1, <3>1 DEF Release
    <3>2. CASE s # cur[p]
      BY <1>13, <2>1, <3>2 DEF Release
    <3> QED BY <3>1, <3>2
  <2> QED BY <2>1, <2>2, <2>3
<1>14. ASSUME NEW p \in Runner, Crash(p) PROVE LockInv'
  BY <1>14 DEF Crash, Ended
<1>15. ASSUME NEW p \in Runner, IoError(p) PROVE LockInv'
  BY <1>15 DEF IoError, ThrowTarget
<1>16. ASSUME NEW e \in Editor, EditLoad(e) PROVE LockInv'
  BY <1>16 DEF EditLoad
<1>17. ASSUME NEW e \in Editor, EditWrite(e) PROVE LockInv'
  BY <1>17 DEF EditWrite
<1>18. ASSUME NEW t \in Task, Expire(t) PROVE LockInv'
  <2>1. tainted \subseteq tainted'
    BY <1>18 DEF Expire
  <2>2. \A q \in Runner, s \in Task : Inside(q, s)' => Inside(q, s)
    BY <1>18 DEF Expire
  <2>3. \A s \in Task \ tainted', q \in Runner :
          Holds(q, s)' => lock'[s] = [owner |-> q, expired |-> FALSE]
    <3> SUFFICES ASSUME NEW s \in Task \ tainted', NEW q \in Runner, Holds(q, s)'
                 PROVE  lock'[s] = [owner |-> q, expired |-> FALSE]
      OBVIOUS
    <3>1. CASE s = t
      <4>1. Inside(q, s) /\ s \in Task \ tainted
        BY <2>1, <2>2
      <4> QED BY <1>18, <4>1, <3>1 DEF Expire
    <3>2. CASE s # t
      BY <1>18, <2>1, <3>2 DEF Expire
    <3> QED BY <3>1, <3>2
  <2> QED BY <2>1, <2>2, <2>3
<1>19. ASSUME NEW t \in Task, ResetLock(t) PROVE LockInv'
  <2>1. tainted \subseteq tainted'
    BY <1>19 DEF ResetLock
  <2>2. \A q \in Runner, s \in Task : Inside(q, s)' => Inside(q, s)
    BY <1>19 DEF ResetLock
  <2>3. \A s \in Task \ tainted', q \in Runner :
          Holds(q, s)' => lock'[s] = [owner |-> q, expired |-> FALSE]
    <3> SUFFICES ASSUME NEW s \in Task \ tainted', NEW q \in Runner, Holds(q, s)'
                 PROVE  lock'[s] = [owner |-> q, expired |-> FALSE]
      OBVIOUS
    <3>1. CASE s = t
      <4>1. Inside(q, s) /\ s \in Task \ tainted
        BY <2>1, <2>2
      <4> QED BY <1>19, <4>1, <3>1 DEF ResetLock
    <3>2. CASE s # t
      BY <1>19, <2>1, <3>2 DEF ResetLock
    <3> QED BY <3>1, <3>2
  <2> QED BY <2>1, <2>2, <2>3
<1>20. CASE UNCHANGED vars
  BY <1>20 DEF vars
<1> QED
  BY <1>1, <1>2, <1>3, <1>4, <1>5, <1>6, <1>7, <1>8, <1>9, <1>10, <1>11,
     <1>12, <1>13, <1>14, <1>15, <1>16, <1>17, <1>18, <1>19, <1>20
  DEF Next, RunnerStep

\* Every way out of runTask that keeps the lock ends in a dead or aborted runner.
LEMMA OwnerInductive ==
  TypeOK /\ PhaseInv /\ LockOwnerInside /\ [Next]_vars => LockOwnerInside'
<1> SUFFICES ASSUME TypeOK, PhaseInv, LockOwnerInside, [Next]_vars PROVE LockOwnerInside'
  OBVIOUS
<1> USE DEF TypeOK, PhaseInv, LockOwnerInside, Holds, Goto, Lock, files, runners, editors, ghosts
<1>1. ASSUME NEW p \in Runner, Load(p) PROVE LockOwnerInside'
  BY <1>1 DEF Load
<1>2. ASSUME NEW p \in Runner, Gate(p) PROVE LockOwnerInside'
  BY <1>2 DEF Gate
<1>3. ASSUME NEW p \in Runner, CheckLock(p) PROVE LockOwnerInside'
  BY <1>3 DEF CheckLock
<1>4. ASSUME NEW p \in Runner, ClearLock(p) PROVE LockOwnerInside'
  BY <1>4 DEF ClearLock
<1>5. ASSUME NEW p \in Runner, WriteLock(p) PROVE LockOwnerInside'
  BY <1>5 DEF WriteLock
<1>6. ASSUME NEW p \in Runner, SaveRunning(p) PROVE LockOwnerInside'
  BY <1>6 DEF SaveRunning
<1>7. ASSUME NEW p \in Runner, Body(p) PROVE LockOwnerInside'
  BY <1>7 DEF Body
<1>8. ASSUME NEW p \in Runner, AuditVerdict(p) PROVE LockOwnerInside'
  BY <1>8 DEF AuditVerdict
<1>9. ASSUME NEW p \in Runner, Catch(p) PROVE LockOwnerInside'
  BY <1>9 DEF Catch
<1>10. ASSUME NEW p \in Runner, Archive(p) PROVE LockOwnerInside'
  BY <1>10 DEF Archive
<1>11. ASSUME NEW p \in Runner, FindQueued(p) PROVE LockOwnerInside'
  BY <1>11 DEF FindQueued, AfterArchive
<1>12. ASSUME NEW p \in Runner, Rename(p) PROVE LockOwnerInside'
  BY <1>12 DEF Rename, AfterArchive, ThrowTarget
<1>13. ASSUME NEW p \in Runner, Release(p) PROVE LockOwnerInside'
  BY <1>13 DEF Release
<1>14. ASSUME NEW p \in Runner, Crash(p) PROVE LockOwnerInside'
  BY <1>14 DEF Crash, Ended
<1>15. ASSUME NEW p \in Runner, IoError(p) PROVE LockOwnerInside'
  BY <1>15 DEF IoError, ThrowTarget
<1>16. ASSUME NEW e \in Editor, EditLoad(e) PROVE LockOwnerInside'
  BY <1>16 DEF EditLoad
<1>17. ASSUME NEW e \in Editor, EditWrite(e) PROVE LockOwnerInside'
  BY <1>17 DEF EditWrite
<1>18. ASSUME NEW t \in Task, Expire(t) PROVE LockOwnerInside'
  BY <1>18 DEF Expire
<1>19. ASSUME NEW t \in Task, ResetLock(t) PROVE LockOwnerInside'
  BY <1>19 DEF ResetLock
<1>20. CASE UNCHANGED vars
  BY <1>20 DEF vars
<1> QED
  BY <1>1, <1>2, <1>3, <1>4, <1>5, <1>6, <1>7, <1>8, <1>9, <1>10, <1>11,
     <1>12, <1>13, <1>14, <1>15, <1>16, <1>17, <1>18, <1>19, <1>20
  DEF Next, RunnerStep

\* A result, once written, is replaced but never removed.
LEMMA LostInductive ==
  TypeOK /\ LostInv /\ [Next]_vars => LostInv'
<1> SUFFICES ASSUME TypeOK, LostInv, [Next]_vars PROVE LostInv'
  OBVIOUS
<1> USE DEF TypeOK, LostInv, NoTaskLost, Goto, files, runners, editors, ghosts
<1>1. ASSUME NEW p \in Runner, Load(p) PROVE LostInv'
  BY <1>1 DEF Load
<1>2. ASSUME NEW p \in Runner, Gate(p) PROVE LostInv'
  BY <1>2 DEF Gate
<1>3. ASSUME NEW p \in Runner, CheckLock(p) PROVE LostInv'
  BY <1>3 DEF CheckLock
<1>4. ASSUME NEW p \in Runner, ClearLock(p) PROVE LostInv'
  BY <1>4 DEF ClearLock
<1>5. ASSUME NEW p \in Runner, WriteLock(p) PROVE LostInv'
  BY <1>5 DEF WriteLock
<1>6. ASSUME NEW p \in Runner, SaveRunning(p) PROVE LostInv'
  BY <1>6, NoFileAssumption DEF SaveRunning
<1>7. ASSUME NEW p \in Runner, Body(p) PROVE LostInv'
  BY <1>7 DEF Body
<1>8. ASSUME NEW p \in Runner, AuditVerdict(p) PROVE LostInv'
  BY <1>8 DEF AuditVerdict
<1>9. ASSUME NEW p \in Runner, Catch(p) PROVE LostInv'
  BY <1>9 DEF Catch
<1>10. ASSUME NEW p \in Runner, Archive(p) PROVE LostInv'
  <2>1. verdict[p] # NoFile
    BY NoFileAssumption DEF Outcome, Status
  <2> QED BY <1>10, <2>1 DEF Archive
<1>11. ASSUME NEW p \in Runner, FindQueued(p) PROVE LostInv'
  BY <1>11, NoFileAssumption DEF FindQueued, AfterArchive
<1>12. ASSUME NEW p \in Runner, Rename(p) PROVE LostInv'
  BY <1>12, NoFileAssumption DEF Rename, AfterArchive, ThrowTarget
<1>13. ASSUME NEW p \in Runner, Release(p) PROVE LostInv'
  BY <1>13 DEF Release
<1>14. ASSUME NEW p \in Runner, Crash(p) PROVE LostInv'
  BY <1>14 DEF Crash, Ended
<1>15. ASSUME NEW p \in Runner, IoError(p) PROVE LostInv'
  BY <1>15 DEF IoError, ThrowTarget
<1>16. ASSUME NEW e \in Editor, EditLoad(e) PROVE LostInv'
  BY <1>16 DEF EditLoad
<1>17. ASSUME NEW e \in Editor, EditWrite(e) PROVE LostInv'
  BY <1>17, NoFileAssumption DEF EditWrite
<1>18. ASSUME NEW t \in Task, Expire(t) PROVE LostInv'
  BY <1>18 DEF Expire
<1>19. ASSUME NEW t \in Task, ResetLock(t) PROVE LostInv'
  BY <1>19 DEF ResetLock
<1>20. CASE UNCHANGED vars
  BY <1>20 DEF vars
<1> QED
  BY <1>1, <1>2, <1>3, <1>4, <1>5, <1>6, <1>7, <1>8, <1>9, <1>10, <1>11,
     <1>12, <1>13, <1>14, <1>15, <1>16, <1>17, <1>18, <1>19, <1>20
  DEF Next, RunnerStep

\* Events are never removed, so what backs an outcome backs it for good.
LEMMA AuditInductive ==
  TypeOK /\ PhaseInv /\ AuditInv /\ [Next]_vars => AuditInv'
<1> SUFFICES ASSUME TypeOK, PhaseInv, AuditInv, [Next]_vars PROVE AuditInv'
  OBVIOUS
<1> USE DEF TypeOK, PhaseInv, AuditInv, ResultIsAudited, Backed, Goto, Log, files, runners, editors, ghosts
<1>1. ASSUME NEW p \in Runner, Load(p) PROVE AuditInv'
  BY <1>1 DEF Load
<1>2. ASSUME NEW p \in Runner, Gate(p) PROVE AuditInv'
  BY <1>2, SMTT(30) DEF Gate
<1>3. ASSUME NEW p \in Runner, CheckLock(p) PROVE AuditInv'
  BY <1>3 DEF CheckLock
<1>4. ASSUME NEW p \in Runner, ClearLock(p) PROVE AuditInv'
  BY <1>4 DEF ClearLock
<1>5. ASSUME NEW p \in Runner, WriteLock(p) PROVE AuditInv'
  BY <1>5 DEF WriteLock
<1>6. ASSUME NEW p \in Runner, SaveRunning(p) PROVE AuditInv'
  BY <1>6 DEF SaveRunning
<1>7. ASSUME NEW p \in Runner, Body(p) PROVE AuditInv'
  BY <1>7 DEF Body
<1>8. ASSUME NEW p \in Runner, AuditVerdict(p) PROVE AuditInv'
  <2>1. ~TransitionOk("running", "refused")
    BY DEF TransitionOk, canTransitionTaskStatus, ALLOWED_TRANSITIONS, Status
  <2>2. pc'[p] = "archive" => verdict[p] # "refused"
    BY <1>8, <2>1 DEF AuditVerdict
  <2>3. verdict[p] # "refused" => Backed(cur[p], verdict[p])'
    BY <1>8 DEF AuditVerdict, VerdictEvent
  <2>4. \A q \in Runner \ {p} : pc'[q] = pc[q]
    BY <1>8 DEF AuditVerdict
  <2>5. \A t \in Task : audit[t] \subseteq audit'[t]
    BY <1>8 DEF AuditVerdict
  <2>6. UNCHANGED <<cur, verdict, history>>
    BY <1>8 DEF AuditVerdict
  <2> QED BY <2>2, <2>3, <2>4, <2>5, <2>6
<1>9. ASSUME NEW p \in Runner, Catch(p) PROVE AuditInv'
  BY <1>9 DEF Catch
<1>10. ASSUME NEW p \in Runner, Archive(p) PROVE AuditInv'
  BY <1>10 DEF Archive
<1>11. ASSUME NEW p \in Runner, FindQueued(p) PROVE AuditInv'
  BY <1>11 DEF FindQueued, AfterArchive
<1>12. ASSUME NEW p \in Runner, Rename(p) PROVE AuditInv'
  BY <1>12 DEF Rename, AfterArchive, ThrowTarget
<1>13. ASSUME NEW p \in Runner, Release(p) PROVE AuditInv'
  BY <1>13 DEF Release
<1>14. ASSUME NEW p \in Runner, Crash(p) PROVE AuditInv'
  BY <1>14 DEF Crash, Ended
<1>15. ASSUME NEW p \in Runner, IoError(p) PROVE AuditInv'
  BY <1>15 DEF IoError, ThrowTarget
<1>16. ASSUME NEW e \in Editor, EditLoad(e) PROVE AuditInv'
  BY <1>16 DEF EditLoad
<1>17. ASSUME NEW e \in Editor, EditWrite(e) PROVE AuditInv'
  BY <1>17 DEF EditWrite
<1>18. ASSUME NEW t \in Task, Expire(t) PROVE AuditInv'
  BY <1>18 DEF Expire
<1>19. ASSUME NEW t \in Task, ResetLock(t) PROVE AuditInv'
  BY <1>19 DEF ResetLock
<1>20. CASE UNCHANGED vars
  BY <1>20 DEF vars
<1> QED
  BY <1>1, <1>2, <1>3, <1>4, <1>5, <1>6, <1>7, <1>8, <1>9, <1>10, <1>11,
     <1>12, <1>13, <1>14, <1>15, <1>16, <1>17, <1>18, <1>19, <1>20
  DEF Next, RunnerStep

-----------------------------------------------------------------------------
(***************************************************************************)
(* The safety properties, for every value of the constants                 *)
(***************************************************************************)
\* The strengthenings hold where the tasks still wait as they were created.
LEMMA InitStrong ==
  Init => PhaseInv /\ ConsentInv /\ LockInv /\ LockOwnerInside /\ LostInv /\ AuditInv
<1> SUFFICES ASSUME Init
             PROVE  PhaseInv /\ ConsentInv /\ LockInv /\ LockOwnerInside
                    /\ LostInv /\ AuditInv
  OBVIOUS
<1>1. PhaseInv
  BY DEF Init, PhaseInv
<1>2. ConsentInv
  BY DEF Init, ConsentInv, NoRunWithoutConsent
<1>3. LockInv
  BY DEF Init, LockInv, Inside, InWindow, Holds
<1>4. LockOwnerInside
  BY DEF Init, LockOwnerInside
<1>5. LostInv
  BY CreatedAssumption, NoFileAssumption DEF Init, LostInv, NoTaskLost
<1>6. AuditInv
  BY NoFileAssumption DEF Init, AuditInv, ResultIsAudited, Backed, Status
<1> QED BY <1>1, <1>2, <1>3, <1>4, <1>5, <1>6

\* Where a runner is in runTask fixes its phase and the status of its copy.
LEMMA PhaseCorrect == Spec => []PhaseInv
<1>1. Init => PhaseInv
  BY InitStrong
<1> QED BY <1>1, TypeCorrect, PhaseInductive, PTL DEF Spec

\* Nobody's task is run without somebody's consent, whatever approvals, edits
\* and stale copies are written back in whatever order (taskRunner.ts:26-50).
THEOREM ConsentCorrect == Spec => []NoRunWithoutConsent
<1>1. Init => ConsentInv
  BY InitStrong
<1>2. ConsentInv => NoRunWithoutConsent
  BY DEF ConsentInv
<1> QED BY <1>1, <1>2, TypeCorrect, ConsentInductive, PTL DEF Spec

\* The task lock excludes, except where an acquisition overlapped another or
\* the lock expired or was reset in use (taskLockManager.ts:33-61).
THEOREM LockCorrect == Spec => []LockExcludes
<1>1. Init => LockInv
  BY InitStrong
<1>2. LockInv => LockExcludes
  BY DEF LockInv, LockExcludes, Inside
<1> QED BY <1>1, <1>2, TypeCorrect, PhaseCorrect, LockInductive, PTL DEF Spec

\* A lock file belongs to a runner inside runTask, or to one that died or
\* threw between the lock and the try block (taskRunner.ts:74-78, 331-333).
THEOREM OwnerCorrect == Spec => []LockOwnerInside
<1>1. Init => LockOwnerInside
  BY InitStrong
<1> QED BY <1>1, TypeCorrect, PhaseCorrect, OwnerInductive, PTL DEF Spec

\* No task file disappears without a result and a copy in the history, at
\* whatever step a process dies or fails (taskStore.ts:75-87).
THEOREM LostCorrect == Spec => []NoTaskLost
<1>1. Init => LostInv
  BY InitStrong
<1>2. LostInv => NoTaskLost
  BY DEF LostInv
<1> QED BY <1>1, <1>2, TypeCorrect, LostInductive, PTL DEF Spec

\* Every result in the history has the audit event that backs it
\* (taskRunner.ts:82-100, 251-273, 308-327).
THEOREM AuditCorrect == Spec => []ResultIsAudited
<1>1. Init => AuditInv
  BY InitStrong
<1>2. AuditInv => ResultIsAudited
  BY DEF AuditInv
<1> QED BY <1>1, <1>2, TypeCorrect, PhaseCorrect, AuditInductive, PTL DEF Spec
=============================================================================
