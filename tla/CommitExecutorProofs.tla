------------------------ MODULE CommitExecutorProofs ------------------------
(***************************************************************************)
(* Proofs about CommitExecutor for every set of executions, plans, tokens, *)
(* policies and triggers, and every bound on the environment.              *)
(***************************************************************************)
EXTENDS CommitExecutor, TLAPS

\* A nonempty set of positions of a short sequence has a first member.
LEMMA FirstPosition ==
  ASSUME NEW S \in SUBSET (1..6), S # {}
  PROVE  \E k \in S : \A j \in 1..(k - 1) : j \notin S
<1>1. \A k \in 1..6 : k = 1 \/ k = 2 \/ k = 3 \/ k = 4 \/ k = 5 \/ k = 6
  OBVIOUS
<1>2. CASE 1 \in S
  <2>1. \A j \in 1..(1 - 1) : j \notin S
    OBVIOUS
  <2> QED BY <1>2, <2>1
<1>3. CASE 1 \notin S /\ 2 \in S
  <2>1. \A j \in 1..(2 - 1) : j = 1
    OBVIOUS
  <2> QED BY <1>3, <2>1
<1>4. CASE {1, 2} \cap S = {} /\ 3 \in S
  <2>1. \A j \in 1..(3 - 1) : j \in {1, 2}
    OBVIOUS
  <2> QED BY <1>4, <2>1
<1>5. CASE {1, 2, 3} \cap S = {} /\ 4 \in S
  <2>1. \A j \in 1..(4 - 1) : j \in {1, 2, 3}
    OBVIOUS
  <2> QED BY <1>5, <2>1
<1>6. CASE {1, 2, 3, 4} \cap S = {} /\ 5 \in S
  <2>1. \A j \in 1..(5 - 1) : j \in {1, 2, 3, 4}
    OBVIOUS
  <2> QED BY <1>6, <2>1
<1>7. CASE {1, 2, 3, 4, 5} \cap S = {}
  <2>1. \A j \in 1..(6 - 1) : j \in {1, 2, 3, 4, 5}
    OBVIOUS
  <2>2. 6 \in S
    BY <1>1, <1>7
  <2> QED BY <1>7, <2>1, <2>2
<1> QED BY <1>2, <1>3, <1>4, <1>5, <1>6, <1>7

\* The first of the grounds of a refusal is one of the grounds.
LEMMA FirstIsGround ==
  ASSUME NEW order, NEW n \in 1..6, DOMAIN order = 1..n, NEW grounds,
         \E k \in DOMAIN order : order[k] \in grounds
  PROVE  FirstOf(order, grounds) \in grounds
<1> DEFINE S == {k \in DOMAIN order : order[k] \in grounds}
<1>0. S \in SUBSET (1..6) /\ S # {}
  OBVIOUS
<1>1. PICK k \in S : \A j \in 1..(k - 1) : j \notin S
  <2> HIDE DEF S
  <2> QED BY <1>0, FirstPosition
<1>2. \A j \in 1..(k - 1) : order[j] \notin grounds
  BY <1>1
<1> QED BY <1>1, <1>2 DEF FirstOf

\* What Preflight and NextAction answer when they refuse.
LEMMA PreflightFirst ==
  ASSUME NEW grounds \in SUBSET PreflightRefusal, grounds # {}
  PROVE  FirstOf(PreflightOrder, grounds) \in grounds
<1>1. DOMAIN PreflightOrder = 1..4
  BY DEF PreflightOrder
<1>2. \E k \in 1..4 : PreflightOrder[k] \in grounds
  BY DEF PreflightRefusal
<1> QED BY <1>1, <1>2, FirstIsGround

LEMMA TokenFirst ==
  ASSUME NEW grounds \in SUBSET TokenRefusal, grounds # {}
  PROVE  FirstOf(TokenOrder, grounds) \in grounds
<1>1. DOMAIN TokenOrder = 1..6
  BY DEF TokenOrder
<1>2. \E k \in 1..6 : TokenOrder[k] \in grounds
  BY DEF TokenRefusal
<1> QED BY <1>1, <1>2, FirstIsGround

-----------------------------------------------------------------------------
(***************************************************************************)
(* The inductive strengthenings                                            *)
(***************************************************************************)
\* How far the loop over the plan has come; and no empty path reaches the
\* file system.
ProgressInv ==
  \A e \in Exec :
    /\ pc[e] = "start" => idx[e] = 0
    /\ pc[e] = "next"  => idx[e] \in 1..(Len(PlanOf[e]) + 1)
    /\ pc[e] \in {"guard", "probe", "mutate", "journal"} =>
         idx[e] \in 1..Len(PlanOf[e])
    /\ pc[e] \in {"drift", "log"} /\ code[e] = "EXECUTE_FILESYSTEM" =>
         idx[e] \in 1..Len(PlanOf[e])
    /\ pc[e] = "mutate" => NoPath \notin PathsOf(act(e))
    /\ pc[e] \in {"drift", "log"} => code[e] # "EXECUTE_PLAN_SUCCESS"
    /\ pc[e] = "returned" => code[e] # "EXECUTE_FILESYSTEM"

\* What took effect and what is in the journal at each point of the loop. In
\* the answer of a failed action, and after the end, less is known: that is
\* where an effect may lack its journal entry.
LedgerInv ==
  \A e \in Exec :
    /\ pc[e] \in {"start", "next", "guard", "probe", "mutate", "journal"} =>
         journal[e] = 1..(idx[e] - 1)
    /\ pc[e] \in {"start", "next", "guard", "probe", "mutate"} =>
         performed[e] = 1..(idx[e] - 1)
    /\ pc[e] = "journal" => performed[e] = 1..idx[e]
    /\ pc[e] \in {"drift", "log"} /\ code[e] = "EXECUTE_FILESYSTEM" =>
         performed[e] = 1..idx[e] /\ journal[e] = 1..idx[e]
    /\ pc[e] \in {"drift", "log", "returned"} /\ code[e] \in Refusal =>
         performed[e] = 1..(idx[e] - 1) /\ journal[e] = 1..(idx[e] - 1)
    /\ pc[e] = "returned" /\ code[e] = "EXECUTE_PLAN_SUCCESS" =>
         performed[e] = 1..Len(PlanOf[e]) /\ journal[e] = 1..Len(PlanOf[e])

\* A refusal is the last event of its execution.
TruthInv ==
  \A e \in Exec : \A v \in audit[e] :
    /\ v.code = "EXECUTE_FILESYSTEM" => v.action \in performed[e] \cap journal[e]
    /\ v.code \in Refusal => pc[e] = "returned" /\ v.action \notin performed[e]

\* An execution whose token is withdrawn does not get past the loop's head.
LateInv ==
  \A e \in Exec :
    /\ late[e] <= 1
    /\ pc[e] \in {"start", "guard", "probe", "mutate"} \/ ~Withdrawn(e) => late[e] = 0

\* A file that only deletes and moves touch is gone once one of them succeeds.
GoneInv ==
  \A e \in Exec : \A i \in performed[e] :
    /\ i \in 1..Len(PlanOf[e])
    /\ PlanOf[e][i].op \in Mutating \ {"copy"} /\ PlanOf[e][i].src \notin Written
         => PlanOf[e][i].src \notin files

\* Beyond its guard an action has no path that stayed blocked.
BlockInv ==
  \A e \in Exec :
    /\ denied[e] \subseteq access.blocked
    /\ pc[e] \in {"probe", "mutate", "journal"} => PathsOf(act(e)) \cap denied[e] = {}

\* The warning is written before the event it is about.
AnswerInv ==
  /\ AnswerAudited
  /\ \A e \in Exec : pc[e] = "log" /\ code[e] \in Drifting =>
       [action |-> idx[e], code |-> "WARN_TRIGGER_REGISTRY_DRIFT"] \in audit[e]

-----------------------------------------------------------------------------
(***************************************************************************)
(* Proofs                                                                  *)
(***************************************************************************)
\* The action an execution is at is an action of its plan.
LEMMA ActType ==
  ASSUME NEW e \in Exec, idx[e] \in 1..Len(PlanOf[e])
  PROVE  act(e) \in Action
BY PlanAssumption DEF act

\* A step moves the loop on by one action at most.
LEMMA ProgressInductive ==
  TypeOK /\ ProgressInv /\ [Next]_vars => ProgressInv'
<1> SUFFICES ASSUME TypeOK, ProgressInv, [Next]_vars PROVE ProgressInv'
  OBVIOUS
<1> USE DEF TypeOK, ProgressInv, Goto, Answer, act, disk, authority, logs, execs, bounds, ghosts
<1>1. ASSUME NEW e \in Exec, Preflight(e) PROVE ProgressInv'
  <2>1. PreflightGrounds(e) # {} =>
          FirstOf(PreflightOrder, PreflightGrounds(e)) \in PreflightRefusal
    BY PreflightFirst, ZenonT(40) DEF PreflightGrounds
  <2>2. "EXECUTE_PLAN_SUCCESS" \notin PreflightRefusal
    /\ "EXECUTE_FILESYSTEM" \notin PreflightRefusal
    BY DEF PreflightRefusal, PreflightOrder
  <2>3. Len(PlanOf[e]) \in Nat
    BY PlanAssumption
  <2> QED BY <1>1, <2>1, <2>2, <2>3 DEF Preflight
<1>2. ASSUME NEW e \in Exec, NextAction(e) PROVE ProgressInv'
  <2>1. GroundsNow(e) # {} => FirstOf(TokenOrder, GroundsNow(e)) \in TokenRefusal
    BY TokenFirst, ZenonT(40) DEF GroundsNow, TokenGrounds
  <2>2. "EXECUTE_PLAN_SUCCESS" \notin TokenRefusal
    /\ "EXECUTE_FILESYSTEM" \notin TokenRefusal
    BY DEF TokenRefusal, TokenOrder
  <2>3. Len(PlanOf[e]) \in Nat
    BY PlanAssumption
  <2> QED BY <1>2, <2>1, <2>2, <2>3 DEF NextAction
<1>3. ASSUME NEW e \in Exec, Guard(e) PROVE ProgressInv'
  BY <1>3 DEF Guard
<1>4. ASSUME NEW e \in Exec, Probe(e) PROVE ProgressInv'
  BY <1>4 DEF Probe, Ready
<1>5. ASSUME NEW e \in Exec, Mutate(e) PROVE ProgressInv'
  BY <1>5, ZenonT(40) DEF Mutate
<1>6. ASSUME NEW e \in Exec, Journal(e) PROVE ProgressInv'
  BY <1>6 DEF Journal
<1>7. ASSUME NEW e \in Exec, Drift(e) PROVE ProgressInv'
  BY <1>7 DEF Drift
<1>8. ASSUME NEW e \in Exec, LogEvent(e) PROVE ProgressInv'
  <2>1. Len(PlanOf[e]) \in Nat
    BY PlanAssumption
  <2> QED BY <1>8, <2>1 DEF LogEvent
<1>9. ASSUME NEW e \in Exec, IoError(e) PROVE ProgressInv'
  BY <1>9 DEF IoError, InTry, Ended
<1>10. ASSUME NEW e \in Exec, Crash(e) PROVE ProgressInv'
  BY <1>10 DEF Crash, Ended
<1>11. ASSUME NEW e \in Exec, Revoke(e) PROVE ProgressInv'
  BY <1>11 DEF Revoke
<1>12. ASSUME NEW e \in Exec, Expire(e) PROVE ProgressInv'
  BY <1>12 DEF Expire
<1>13. CASE SaveAccess
  BY <1>13 DEF SaveAccess
<1>14. CASE UNCHANGED vars
  BY <1>14 DEF vars
<1> QED
  BY <1>1, <1>2, <1>3, <1>4, <1>5, <1>6, <1>7, <1>8, <1>9, <1>10, <1>11,
     <1>12, <1>13, <1>14
  DEF Next, ExecStep

\* A step makes well-typed states of well-typed states.
LEMMA TypeInductive ==
  TypeOK /\ ProgressInv /\ [Next]_vars => TypeOK'
<1> SUFFICES ASSUME TypeOK, ProgressInv, [Next]_vars PROVE TypeOK'
  OBVIOUS
<1> USE DEF TypeOK, Goto, Answer, Pc, Ended, disk, authority, logs, execs, bounds, ghosts
<1>1. ASSUME NEW e \in Exec, Preflight(e) PROVE TypeOK'
  <2>1. PreflightGrounds(e) # {} =>
          FirstOf(PreflightOrder, PreflightGrounds(e)) \in Code
    BY PreflightFirst, SMTT(30) DEF PreflightGrounds, Code, Refusal
  <2> QED BY <1>1, <2>1 DEF Preflight
<1>2. ASSUME NEW e \in Exec, NextAction(e) PROVE TypeOK'
  <2>1. GroundsNow(e) # {} => FirstOf(TokenOrder, GroundsNow(e)) \in Code
    BY TokenFirst DEF GroundsNow, TokenGrounds, Code, Refusal
  <2>2. access.blocked \in SUBSET Place
    BY DEF AccessPolicy
  <2>3. "EXECUTE_PLAN_SUCCESS" \in Code
    BY DEF Code
  <2>4. pc' \in [Exec -> Pc] /\ code' \in [Exec -> Code]
    <3>1. CASE idx[e] > Len(PlanOf[e])
      <4>1. Len(PlanOf[e]) \in Nat
        BY PlanAssumption
      <4>2. pc' = [pc EXCEPT ![e] = "returned"]
        BY <1>2, <3>1, <4>1 DEF NextAction
      <4>3. code' = [code EXCEPT ![e] = "EXECUTE_PLAN_SUCCESS"]
        BY <1>2, <3>1, <4>1 DEF NextAction
      <4>4. pc' \in [Exec -> Pc]
        BY <4>2
      <4>5. code' \in [Exec -> Code]
        BY <4>3, <2>3
      <4> QED BY <4>4, <4>5
    <3>2. CASE ~(idx[e] > Len(PlanOf[e])) /\ GroundsNow(e) # {}
      BY <1>2, <2>1, <3>2, ZenonT(40) DEF NextAction
    <3>3. CASE ~(idx[e] > Len(PlanOf[e])) /\ GroundsNow(e) = {}
      BY <1>2, <3>3 DEF NextAction
    <3> QED BY <3>1, <3>2, <3>3
  <2>5. denied' \in [Exec -> SUBSET Place]
    BY <1>2, <2>2 DEF NextAction
  <2> QED BY <1>2, <2>4, <2>5 DEF NextAction
<1>3. ASSUME NEW e \in Exec, Guard(e) PROVE TypeOK'
  <2>1. {"REFUSE_UNIMPLEMENTED_ACTION", "REFUSE_ACCESS_POLICY_DENIED"} \subseteq Code
    BY DEF Code, Refusal
  <2> QED BY <1>3, <2>1 DEF Guard
<1>4. ASSUME NEW e \in Exec, Probe(e) PROVE TypeOK'
  <2>1. "EXECUTE_ACTION_FAILED" \in Code
    BY DEF Code
  <2> QED BY <1>4, <2>1 DEF Probe
<1>5. ASSUME NEW e \in Exec, Mutate(e) PROVE TypeOK'
  <2>1. "EXECUTE_ACTION_FAILED" \in Code
    BY DEF Code
  <2>2. act(e) \in Action /\ NoPath \notin PathsOf(act(e))
    BY <1>5, ActType DEF Mutate, ProgressInv
  <2>3. Effect(act(e)) \subseteq Path
    BY <2>2 DEF Effect, Action, Place, PathsOf
  <2> QED BY <1>5, <2>1, <2>3 DEF Mutate
<1>6. ASSUME NEW e \in Exec, Journal(e) PROVE TypeOK'
  <2>1. "EXECUTE_FILESYSTEM" \in Code
    BY DEF Code
  <2> QED BY <1>6, <2>1 DEF Journal
<1>7. ASSUME NEW e \in Exec, Drift(e) PROVE TypeOK'
  <2>1. [action |-> idx[e], code |-> "WARN_TRIGGER_REGISTRY_DRIFT"] \in Event
    BY DEF Event
  <2> QED BY <1>7, <2>1 DEF Drift
<1>8. ASSUME NEW e \in Exec, LogEvent(e) PROVE TypeOK'
  <2>1. [action |-> idx[e], code |-> code[e]] \in Event
    BY DEF Event
  <2> QED BY <1>8, <2>1 DEF LogEvent
<1>9. ASSUME NEW e \in Exec, IoError(e) PROVE TypeOK'
  <2>1. "EXECUTE_ACTION_FAILED" \in Code
    BY DEF Code
  <2>2. pc' \in [Exec -> Pc] /\ code' \in [Exec -> Code]
    <3>1. CASE InTry(e)
      <4>1. pc' = [pc EXCEPT ![e] = "drift"]
        BY <1>9, <2>1, <3>1 DEF IoError
      <4>2. code' = [code EXCEPT ![e] = "EXECUTE_ACTION_FAILED"]
        BY <1>9, <2>1, <3>1 DEF IoError
      <4>3. pc' \in [Exec -> Pc]
        BY <4>1
      <4>4. code' \in [Exec -> Code]
        BY <4>2, <2>1
      <4> QED BY <4>3, <4>4
    <3>2. CASE ~InTry(e)
      BY <1>9, <3>2 DEF IoError
    <3> QED BY <3>1, <3>2
  <2>3. ioErrors' \in Nat
    BY <1>9 DEF IoError
  <2>4. UNCHANGED <<disk, authority, logs, idx, request, saves, crashes, ghosts>>
    BY <1>9 DEF IoError
  <2> QED BY <2>2, <2>3, <2>4
<1>10. ASSUME NEW e \in Exec, Crash(e) PROVE TypeOK'
  BY <1>10 DEF Crash
<1>11. ASSUME NEW e \in Exec, Revoke(e) PROVE TypeOK'
  BY <1>11 DEF Revoke
<1>12. ASSUME NEW e \in Exec, Expire(e) PROVE TypeOK'
  BY <1>12 DEF Expire
<1>13. CASE SaveAccess
  <2>1. access' \in AccessPolicy
    BY <1>13, AccessAssumption DEF SaveAccess
  <2> QED BY <1>13, <2>1 DEF SaveAccess
<1>14. CASE UNCHANGED vars
  BY <1>14 DEF vars
<1> QED
  BY <1>1, <1>2, <1>3, <1>4, <1>5, <1>6, <1>7, <1>8, <1>9, <1>10, <1>11,
     <1>12, <1>13, <1>14
  DEF Next, ExecStep

\* The types and the progress of every execution, from the first state on.
LEMMA Progress == Spec => [](TypeOK /\ ProgressInv)
<1>1. Init => TypeOK
  BY RequestAssumption, AccessAssumption, BoundAssumption
  DEF Init, TypeOK, Pc, Code, AccessPolicy, ExecutionPolicy
<1>2. Init => ProgressInv
  BY DEF Init, ProgressInv
<1> QED BY <1>1, <1>2, TypeInductive, ProgressInductive, PTL DEF Spec

\* The variables of the executor always have the types they are declared with.
THEOREM TypeCorrect == Spec => []TypeOK
BY Progress, PTL

\* The codes of successes and failures are not refusals.
LEMMA CodesDiffer ==
  /\ "EXECUTE_FILESYSTEM" \notin Refusal
  /\ "EXECUTE_ACTION_FAILED" \notin Refusal
  /\ "EXECUTE_PLAN_SUCCESS" \notin Refusal
  /\ "WARN_TRIGGER_REGISTRY_DRIFT" \notin Refusal
BY DEF Refusal, PreflightRefusal, PreflightOrder, TokenRefusal, TokenOrder

\* One more position.
LEMMA Upto ==
  ASSUME NEW i \in Nat \ {0}
  PROVE  1..i = (1..(i - 1)) \cup {i}
OBVIOUS

\* The journal keeps up with the loop.
LEMMA LedgerInductive ==
  TypeOK /\ ProgressInv /\ LedgerInv /\ [Next]_vars => LedgerInv'
<1> SUFFICES ASSUME TypeOK, ProgressInv, LedgerInv, [Next]_vars PROVE LedgerInv'
  OBVIOUS
<1> USE DEF TypeOK, ProgressInv, LedgerInv, Goto, Answer, disk, authority, logs, execs, bounds, ghosts
<1>1. ASSUME NEW e \in Exec, Preflight(e) PROVE LedgerInv'
  <2>9. Len(PlanOf[e]) \in Nat
    BY PlanAssumption
  <2> QED BY <1>1, <2>9 DEF Preflight
<1>2. ASSUME NEW e \in Exec, NextAction(e) PROVE LedgerInv'
  <2>1. Len(PlanOf[e]) \in Nat /\ idx[e] \in Nat
    BY PlanAssumption
  <2>2. UNCHANGED <<performed, journal, idx>>
    BY <1>2 DEF NextAction
  <2>3. \A d \in Exec \ {e} : pc'[d] = pc[d] /\ code'[d] = code[d]
    BY <1>2 DEF NextAction
  <2>4. performed[e] = 1..(idx[e] - 1) /\ journal[e] = 1..(idx[e] - 1)
    BY <1>2 DEF NextAction
  <2>5. CASE idx[e] > Len(PlanOf[e])
    <3>1. idx[e] - 1 = Len(PlanOf[e])
      BY <1>2, <2>1, <2>5 DEF NextAction
    <3>2. pc'[e] = "returned" /\ code'[e] = "EXECUTE_PLAN_SUCCESS"
      BY <1>2, <2>1, <2>5 DEF NextAction
    <3> QED BY <2>2, <2>3, <2>4, <3>1, <3>2, CodesDiffer, ZenonT(40)
  <2>6. CASE ~(idx[e] > Len(PlanOf[e])) /\ GroundsNow(e) # {}
    <3>1. FirstOf(TokenOrder, GroundsNow(e)) \in Refusal
      <4>1. GroundsNow(e) \in SUBSET TokenRefusal
        BY DEF GroundsNow, TokenGrounds
      <4>2. FirstOf(TokenOrder, GroundsNow(e)) \in GroundsNow(e)
        BY <2>6, <4>1, TokenFirst
      <4> QED BY <4>1, <4>2 DEF Refusal
    <3>2. pc'[e] = "drift" /\ code'[e] = FirstOf(TokenOrder, GroundsNow(e))
      BY <1>2, <2>1, <2>6 DEF NextAction
    <3> QED BY <2>2, <2>3, <2>4, <3>1, <3>2, CodesDiffer
  <2>7. CASE ~(idx[e] > Len(PlanOf[e])) /\ GroundsNow(e) = {}
    <3>1. pc'[e] = "guard"
      BY <1>2, <2>1, <2>7 DEF NextAction
    <3> QED BY <2>2, <2>3, <2>4, <3>1, ZenonT(40)
  <2> QED BY <2>5, <2>6, <2>7
<1>3. ASSUME NEW e \in Exec, Guard(e) PROVE LedgerInv'
  <2>9. Len(PlanOf[e]) \in Nat
    BY PlanAssumption
  <2> QED BY <1>3, <2>9 DEF Guard
<1>4. ASSUME NEW e \in Exec, Probe(e) PROVE LedgerInv'
  <2>9. Len(PlanOf[e]) \in Nat
    BY PlanAssumption
  <2> QED BY <1>4, <2>9, CodesDiffer DEF Probe
<1>5. ASSUME NEW e \in Exec, Mutate(e) PROVE LedgerInv'
  <2>1. idx[e] \in Nat \ {0}
    BY <1>5, PlanAssumption DEF Mutate
  <2>2. CASE SourceGone(act(e))
    BY <1>5, <2>2, CodesDiffer, ZenonT(40) DEF Mutate
  <2>3. CASE ~SourceGone(act(e))
    <3>1. performed'[e] = 1..idx[e]
      BY <1>5, <2>1, <2>3, Upto, ZenonT(40) DEF Mutate
    <3>2. \A d \in Exec \ {e} : performed'[d] = performed[d] /\ pc'[d] = pc[d]
      BY <1>5, <2>3 DEF Mutate
    <3>3. pc'[e] = "journal" /\ UNCHANGED <<journal, idx, code>>
      BY <1>5, <2>3 DEF Mutate
    <3> QED BY <1>5, <3>1, <3>2, <3>3 DEF Mutate
  <2> QED BY <2>2, <2>3
<1>6. ASSUME NEW e \in Exec, Journal(e) PROVE LedgerInv'
  <2>1. idx[e] \in Nat \ {0}
    BY <1>6, PlanAssumption DEF Journal
  <2>2. journal'[e] = 1..idx[e]
    BY <1>6, <2>1, Upto DEF Journal
  <2>3. \A d \in Exec \ {e} :
          journal'[d] = journal[d] /\ pc'[d] = pc[d] /\ code'[d] = code[d]
    BY <1>6 DEF Journal
  <2>4. pc'[e] = "drift" /\ code'[e] = "EXECUTE_FILESYSTEM"
    BY <1>6 DEF Journal
  <2>5. performed[e] = 1..idx[e] /\ UNCHANGED <<performed, idx>>
    BY <1>6 DEF Journal
  <2> QED BY <2>2, <2>3, <2>4, <2>5, CodesDiffer
<1>7. ASSUME NEW e \in Exec, Drift(e) PROVE LedgerInv'
  <2>9. Len(PlanOf[e]) \in Nat
    BY PlanAssumption
  <2> QED BY <1>7, <2>9 DEF Drift
<1>8. ASSUME NEW e \in Exec, LogEvent(e) PROVE LedgerInv'
  <2>9. Len(PlanOf[e]) \in Nat
    BY PlanAssumption
  <2> QED BY <1>8, <2>9 DEF LogEvent
<1>9. ASSUME NEW e \in Exec, IoError(e) PROVE LedgerInv'
  <2>1. UNCHANGED <<performed, journal, idx>>
    BY <1>9 DEF IoError
  <2>2. \A d \in Exec \ {e} : pc'[d] = pc[d] /\ code'[d] = code[d]
    BY <1>9 DEF IoError
  <2>3. \/ pc'[e] = "drift" /\ code'[e] = "EXECUTE_ACTION_FAILED"
        \/ pc'[e] = "thrown"
    BY <1>9 DEF IoError
  <2> QED BY <2>1, <2>2, <2>3, CodesDiffer
<1>10. ASSUME NEW e \in Exec, Crash(e) PROVE LedgerInv'
  <2>9. Len(PlanOf[e]) \in Nat
    BY PlanAssumption
  <2> QED BY <1>10, <2>9 DEF Crash, Ended
<1>11. ASSUME NEW e \in Exec, Revoke(e) PROVE LedgerInv'
  <2>9. Len(PlanOf[e]) \in Nat
    BY PlanAssumption
  <2> QED BY <1>11, <2>9 DEF Revoke
<1>12. ASSUME NEW e \in Exec, Expire(e) PROVE LedgerInv'
  <2>9. Len(PlanOf[e]) \in Nat
    BY PlanAssumption
  <2> QED BY <1>12, <2>9 DEF Expire
<1>13. CASE SaveAccess
  BY <1>13 DEF SaveAccess
<1>14. CASE UNCHANGED vars
  BY <1>14 DEF vars
<1> QED
  BY <1>1, <1>2, <1>3, <1>4, <1>5, <1>6, <1>7, <1>8, <1>9, <1>10, <1>11,
     <1>12, <1>13, <1>14
  DEF Next, ExecStep

\* The audit log stays truthful.
LEMMA TruthInductive ==
  TypeOK /\ ProgressInv /\ LedgerInv /\ TruthInv /\ [Next]_vars => TruthInv'
<1> SUFFICES ASSUME TypeOK, ProgressInv, LedgerInv, TruthInv, [Next]_vars PROVE TruthInv'
  OBVIOUS
<1> USE DEF TypeOK, ProgressInv, LedgerInv, TruthInv, Goto, Answer, disk, authority, logs, execs, bounds, ghosts
<1>1. ASSUME NEW e \in Exec, Preflight(e) PROVE TruthInv'
  BY <1>1 DEF Preflight
<1>2. ASSUME NEW e \in Exec, NextAction(e) PROVE TruthInv'
  BY <1>2 DEF NextAction
<1>3. ASSUME NEW e \in Exec, Guard(e) PROVE TruthInv'
  BY <1>3 DEF Guard
<1>4. ASSUME NEW e \in Exec, Probe(e) PROVE TruthInv'
  BY <1>4 DEF Probe
<1>5. ASSUME NEW e \in Exec, Mutate(e) PROVE TruthInv'
  BY <1>5 DEF Mutate
<1>6. ASSUME NEW e \in Exec, Journal(e) PROVE TruthInv'
  BY <1>6 DEF Journal
<1>7. ASSUME NEW e \in Exec, Drift(e) PROVE TruthInv'
  <2>1. \A d \in Exec : \A v \in audit'[d] \ audit[d] :
          v.code = "WARN_TRIGGER_REGISTRY_DRIFT"
    BY <1>7 DEF Drift
  <2>2. \A d \in Exec : pc'[d] # pc[d] => pc[d] = "drift"
    BY <1>7 DEF Drift
  <2>3. UNCHANGED <<performed, journal>>
    BY <1>7 DEF Drift
  <2> QED BY <2>1, <2>2, <2>3, CodesDiffer
<1>8. ASSUME NEW e \in Exec, LogEvent(e) PROVE TruthInv'
  BY <1>8 DEF LogEvent
<1>9. ASSUME NEW e \in Exec, IoError(e) PROVE TruthInv'
  BY <1>9 DEF IoError, Ended, InTry
<1>10. ASSUME NEW e \in Exec, Crash(e) PROVE TruthInv'
  BY <1>10 DEF Crash, Ended
<1>11. ASSUME NEW e \in Exec, Revoke(e) PROVE TruthInv'
  BY <1>11 DEF Revoke
<1>12. ASSUME NEW e \in Exec, Expire(e) PROVE TruthInv'
  BY <1>12 DEF Expire
<1>13. CASE SaveAccess
  BY <1>13 DEF SaveAccess
<1>14. CASE UNCHANGED vars
  BY <1>14 DEF vars
<1> QED
  BY <1>1, <1>2, <1>3, <1>4, <1>5, <1>6, <1>7, <1>8, <1>9, <1>10, <1>11,
     <1>12, <1>13, <1>14
  DEF Next, ExecStep

\* Each head of the loop looks for a withdrawal.
LEMMA LateInductive ==
  TypeOK /\ LateInv /\ [Next]_vars => LateInv'
<1> SUFFICES ASSUME TypeOK, LateInv, [Next]_vars PROVE LateInv'
  OBVIOUS
<1> USE DEF TypeOK, LateInv, Withdrawn, HasToken, Goto, Answer, disk, authority, logs, execs, bounds, ghosts
<1>1. ASSUME NEW e \in Exec, Preflight(e) PROVE LateInv'
  BY <1>1 DEF Preflight
<1>2. ASSUME NEW e \in Exec, NextAction(e) PROVE LateInv'
  <2>1. Withdrawn(e) => GroundsNow(e) # {}
    <3>1. {"REFUSE_PERMISSION_TOKEN_REVOKED", "REFUSE_PERMISSION_TOKEN_EXPIRED"}
            \subseteq TokenRefusal
      BY DEF TokenRefusal, TokenOrder
    <3> QED BY <3>1 DEF GroundsNow, TokenGrounds
  <2>2. UNCHANGED <<late, request, revoked, expired>>
    BY <1>2 DEF NextAction
  <2>3. \A d \in Exec \ {e} : pc'[d] = pc[d]
    BY <1>2 DEF NextAction
  <2>4. pc'[e] \in {"returned", "drift"} \/ (pc'[e] = "guard" /\ GroundsNow(e) = {})
    BY <1>2 DEF NextAction
  <2> QED BY <2>1, <2>2, <2>3, <2>4
<1>3. ASSUME NEW e \in Exec, Guard(e) PROVE LateInv'
  BY <1>3 DEF Guard
<1>4. ASSUME NEW e \in Exec, Probe(e) PROVE LateInv'
  BY <1>4 DEF Probe
<1>5. ASSUME NEW e \in Exec, Mutate(e) PROVE LateInv'
  BY <1>5 DEF Mutate
<1>6. ASSUME NEW e \in Exec, Journal(e) PROVE LateInv'
  BY <1>6 DEF Journal
<1>7. ASSUME NEW e \in Exec, Drift(e) PROVE LateInv'
  BY <1>7 DEF Drift
<1>8. ASSUME NEW e \in Exec, LogEvent(e) PROVE LateInv'
  BY <1>8 DEF LogEvent
<1>9. ASSUME NEW e \in Exec, IoError(e) PROVE LateInv'
  BY <1>9 DEF IoError
<1>10. ASSUME NEW e \in Exec, Crash(e) PROVE LateInv'
  BY <1>10 DEF Crash
<1>11. ASSUME NEW e \in Exec, Revoke(e) PROVE LateInv'
  BY <1>11 DEF Revoke
<1>12. ASSUME NEW e \in Exec, Expire(e) PROVE LateInv'
  BY <1>12 DEF Expire
<1>13. CASE SaveAccess
  BY <1>13 DEF SaveAccess
<1>14. CASE UNCHANGED vars
  BY <1>14 DEF vars
<1> QED
  BY <1>1, <1>2, <1>3, <1>4, <1>5, <1>6, <1>7, <1>8, <1>9, <1>10, <1>11,
     <1>12, <1>13, <1>14
  DEF Next, ExecStep

\* Nothing brings such a file back.
LEMMA GoneInductive ==
  TypeOK /\ ProgressInv /\ GoneInv /\ [Next]_vars => GoneInv'
<1> SUFFICES ASSUME TypeOK, ProgressInv, GoneInv, [Next]_vars PROVE GoneInv'
  OBVIOUS
<1> USE DEF TypeOK, ProgressInv, GoneInv, Goto, Answer, disk, authority, logs, execs, bounds, ghosts
<1>1. ASSUME NEW e \in Exec, Preflight(e) PROVE GoneInv'
  BY <1>1 DEF Preflight
<1>2. ASSUME NEW e \in Exec, NextAction(e) PROVE GoneInv'
  BY <1>2 DEF NextAction
<1>3. ASSUME NEW e \in Exec, Guard(e) PROVE GoneInv'
  BY <1>3 DEF Guard
<1>4. ASSUME NEW e \in Exec, Probe(e) PROVE GoneInv'
  BY <1>4 DEF Probe
<1>5. ASSUME NEW e \in Exec, Mutate(e) PROVE GoneInv'
  <2>1. CASE SourceGone(act(e))
    BY <1>5, <2>1 DEF Mutate
  <2>2. CASE ~SourceGone(act(e))
    <3>1. idx[e] \in 1..Len(PlanOf[e])
      BY <1>5 DEF Mutate
    <3>2. act(e).dst \in Written
      <4>1. idx[e] \in DOMAIN PlanOf[e]
        BY <3>1, PlanAssumption
      <4> QED BY <4>1 DEF Written, act
    <3>3. files' = Effect(act(e))
      BY <1>5, <2>2 DEF Mutate
    <3>4. files' \subseteq files \cup Written
      BY <3>2, <3>3 DEF Effect
    <3>5. act(e).op \in Mutating \ {"copy"} /\ act(e).src \notin Written
            => act(e).src \notin files'
      BY <3>2, <3>3 DEF Effect
    <3>6. performed' = [performed EXCEPT ![e] = @ \cup {idx[e]}]
      BY <1>5, <2>2 DEF Mutate
    <3> QED BY <3>1, <3>4, <3>5, <3>6 DEF act
  <2> QED BY <2>1, <2>2
<1>6. ASSUME NEW e \in Exec, Journal(e) PROVE GoneInv'
  BY <1>6 DEF Journal
<1>7. ASSUME NEW e \in Exec, Drift(e) PROVE GoneInv'
  BY <1>7 DEF Drift
<1>8. ASSUME NEW e \in Exec, LogEvent(e) PROVE GoneInv'
  BY <1>8 DEF LogEvent
<1>9. ASSUME NEW e \in Exec, IoError(e) PROVE GoneInv'
  BY <1>9 DEF IoError
<1>10. ASSUME NEW e \in Exec, Crash(e) PROVE GoneInv'
  BY <1>10 DEF Crash
<1>11. ASSUME NEW e \in Exec, Revoke(e) PROVE GoneInv'
  BY <1>11 DEF Revoke
<1>12. ASSUME NEW e \in Exec, Expire(e) PROVE GoneInv'
  BY <1>12 DEF Expire
<1>13. CASE SaveAccess
  BY <1>13 DEF SaveAccess
<1>14. CASE UNCHANGED vars
  BY <1>14 DEF vars
<1> QED
  BY <1>1, <1>2, <1>3, <1>4, <1>5, <1>6, <1>7, <1>8, <1>9, <1>10, <1>11,
     <1>12, <1>13, <1>14
  DEF Next, ExecStep

\* Whoever is late finds it gone.
LEMMA OnceInductive ==
  TypeOK /\ ProgressInv /\ GoneInv /\ DestructiveOnce /\ [Next]_vars => DestructiveOnce'
<1> SUFFICES ASSUME TypeOK, ProgressInv, GoneInv, DestructiveOnce, [Next]_vars PROVE DestructiveOnce'
  OBVIOUS
<1> USE DEF TypeOK, ProgressInv, DestructiveOnce, Goto, Answer, disk, authority, logs, execs, bounds, ghosts
<1>1. ASSUME NEW e \in Exec, Preflight(e) PROVE DestructiveOnce'
  BY <1>1 DEF Preflight
<1>2. ASSUME NEW e \in Exec, NextAction(e) PROVE DestructiveOnce'
  BY <1>2 DEF NextAction
<1>3. ASSUME NEW e \in Exec, Guard(e) PROVE DestructiveOnce'
  BY <1>3 DEF Guard
<1>4. ASSUME NEW e \in Exec, Probe(e) PROVE DestructiveOnce'
  BY <1>4 DEF Probe
<1>5. ASSUME NEW e \in Exec, Mutate(e) PROVE DestructiveOnce'
  <2>1. CASE SourceGone(act(e))
    BY <1>5, <2>1 DEF Mutate
  <2>2. CASE ~SourceGone(act(e))
    <3>1. act(e).src \in files
      BY <2>2 DEF SourceGone
    <3>2. performed' = [performed EXCEPT ![e] = @ \cup {idx[e]}]
      BY <1>5, <2>2 DEF Mutate
    <3>3. \A d \in Exec :
            /\ idx[e] \in performed[d] /\ PlanOf[d] = PlanOf[e]
            /\ PlanOf[e][idx[e]].op \in Mutating \ {"copy"}
            => PlanOf[e][idx[e]].src \in Written
      BY <3>1 DEF GoneInv, act
    <3> QED BY <3>2, <3>3
  <2> QED BY <2>1, <2>2
<1>6. ASSUME NEW e \in Exec, Journal(e) PROVE DestructiveOnce'
  BY <1>6 DEF Journal
<1>7. ASSUME NEW e \in Exec, Drift(e) PROVE DestructiveOnce'
  BY <1>7 DEF Drift
<1>8. ASSUME NEW e \in Exec, LogEvent(e) PROVE DestructiveOnce'
  BY <1>8 DEF LogEvent
<1>9. ASSUME NEW e \in Exec, IoError(e) PROVE DestructiveOnce'
  BY <1>9 DEF IoError
<1>10. ASSUME NEW e \in Exec, Crash(e) PROVE DestructiveOnce'
  BY <1>10 DEF Crash
<1>11. ASSUME NEW e \in Exec, Revoke(e) PROVE DestructiveOnce'
  BY <1>11 DEF Revoke
<1>12. ASSUME NEW e \in Exec, Expire(e) PROVE DestructiveOnce'
  BY <1>12 DEF Expire
<1>13. CASE SaveAccess
  BY <1>13 DEF SaveAccess
<1>14. CASE UNCHANGED vars
  BY <1>14 DEF vars
<1> QED
  BY <1>1, <1>2, <1>3, <1>4, <1>5, <1>6, <1>7, <1>8, <1>9, <1>10, <1>11,
     <1>12, <1>13, <1>14
  DEF Next, ExecStep

\* Replacing the policy lifts a block or leaves it.
LEMMA BlockInductive ==
  TypeOK /\ BlockInv /\ [Next]_vars => BlockInv'
<1> SUFFICES ASSUME TypeOK, BlockInv, [Next]_vars PROVE BlockInv'
  OBVIOUS
<1> USE DEF TypeOK, BlockInv, act, Goto, Answer, disk, authority, logs, execs, bounds, ghosts
<1>1. ASSUME NEW e \in Exec, Preflight(e) PROVE BlockInv'
  BY <1>1 DEF Preflight
<1>2. ASSUME NEW e \in Exec, NextAction(e) PROVE BlockInv'
  BY <1>2 DEF NextAction
<1>3. ASSUME NEW e \in Exec, Guard(e) PROVE BlockInv'
  <2>1. pc'[e] = "probe" => PathsOf(act(e)) \cap access.blocked = {}
    BY <1>3 DEF Guard, isPathAllowed, isPathBlocked, act
  <2>2. \A d \in Exec \ {e} : pc'[d] = pc[d]
    BY <1>3 DEF Guard
  <2>3. UNCHANGED <<denied, access, idx>>
    BY <1>3 DEF Guard
  <2>4. pc'[e] \in {"drift", "probe"}
    BY <1>3 DEF Guard
  <2> QED BY <2>1, <2>2, <2>3, <2>4
<1>4. ASSUME NEW e \in Exec, Probe(e) PROVE BlockInv'
  BY <1>4 DEF Probe
<1>5. ASSUME NEW e \in Exec, Mutate(e) PROVE BlockInv'
  BY <1>5 DEF Mutate
<1>6. ASSUME NEW e \in Exec, Journal(e) PROVE BlockInv'
  BY <1>6 DEF Journal
<1>7. ASSUME NEW e \in Exec, Drift(e) PROVE BlockInv'
  BY <1>7 DEF Drift
<1>8. ASSUME NEW e \in Exec, LogEvent(e) PROVE BlockInv'
  BY <1>8 DEF LogEvent
<1>9. ASSUME NEW e \in Exec, IoError(e) PROVE BlockInv'
  BY <1>9, ZenonT(40) DEF IoError
<1>10. ASSUME NEW e \in Exec, Crash(e) PROVE BlockInv'
  BY <1>10 DEF Crash
<1>11. ASSUME NEW e \in Exec, Revoke(e) PROVE BlockInv'
  BY <1>11 DEF Revoke
<1>12. ASSUME NEW e \in Exec, Expire(e) PROVE BlockInv'
  BY <1>12 DEF Expire
<1>13. CASE SaveAccess
  BY <1>13 DEF SaveAccess
<1>14. CASE UNCHANGED vars
  BY <1>14 DEF vars
<1> QED
  BY <1>1, <1>2, <1>3, <1>4, <1>5, <1>6, <1>7, <1>8, <1>9, <1>10, <1>11,
     <1>12, <1>13, <1>14
  DEF Next, ExecStep

\* Events are only added, warnings first.
LEMMA AnswerInductive ==
  TypeOK /\ AnswerInv /\ [Next]_vars => AnswerInv'
<1> SUFFICES ASSUME TypeOK, AnswerInv, [Next]_vars PROVE AnswerInv'
  OBVIOUS
<1> USE DEF TypeOK, AnswerInv, AnswerAudited, Goto, Answer, disk, authority, logs, execs, bounds, ghosts
<1>1. ASSUME NEW e \in Exec, Preflight(e) PROVE AnswerInv'
  BY <1>1 DEF Preflight
<1>2. ASSUME NEW e \in Exec, NextAction(e) PROVE AnswerInv'
  BY <1>2, ZenonT(40) DEF NextAction
<1>3. ASSUME NEW e \in Exec, Guard(e) PROVE AnswerInv'
  BY <1>3 DEF Guard
<1>4. ASSUME NEW e \in Exec, Probe(e) PROVE AnswerInv'
  BY <1>4, ZenonT(40) DEF Probe
<1>5. ASSUME NEW e \in Exec, Mutate(e) PROVE AnswerInv'
  BY <1>5, ZenonT(40) DEF Mutate
<1>6. ASSUME NEW e \in Exec, Journal(e) PROVE AnswerInv'
  BY <1>6 DEF Journal
<1>7. ASSUME NEW e \in Exec, Drift(e) PROVE AnswerInv'
  <2> DEFINE w == [action |-> idx[e], code |-> "WARN_TRIGGER_REGISTRY_DRIFT"]
  <2>1. audit' = [audit EXCEPT ![e] = @ \cup {w : c \in {code[e]} \cap Drifting}]
    BY <1>7 DEF Drift
  <2>2. \A d \in Exec : audit[d] \subseteq audit'[d]
    BY <2>1
  <2>3. \A d \in Exec : \A v \in audit'[d] : v \in audit[d] \/ (d = e /\ v = w)
    BY <2>1
  <2>4. code[e] \in Drifting => w \in audit'[e]
    BY <2>1
  <2>5. pc' = [pc EXCEPT ![e] = "log"] /\ UNCHANGED <<idx, code>>
    BY <1>7 DEF Drift
  <2>6. \A d \in Exec \ {e} : audit'[d] = audit[d] /\ pc'[d] = pc[d]
    BY <2>1, <2>5
  <2>7. w.action = idx[e] /\ w.code = "WARN_TRIGGER_REGISTRY_DRIFT"
    OBVIOUS
  <2> HIDE DEF w
  <2>8. \A d \in Exec : \A v \in audit'[d] : v.code \in Drifting =>
          [action |-> v.action, code |-> "WARN_TRIGGER_REGISTRY_DRIFT"] \in audit'[d]
    <3> SUFFICES ASSUME NEW d \in Exec, NEW v \in audit'[d], v.code \in Drifting
                 PROVE  [action |-> v.action, code |-> "WARN_TRIGGER_REGISTRY_DRIFT"]
                          \in audit'[d]
      OBVIOUS
    <3>1. CASE v \in audit[d]
      BY <2>2, <3>1
    <3>2. CASE d = e /\ v = w
      BY <2>7, <3>2 DEF w
    <3> QED BY <2>3, <3>1, <3>2
  <2>9. \A d \in Exec : pc'[d] = "log" /\ code'[d] \in Drifting =>
          [action |-> idx'[d], code |-> "WARN_TRIGGER_REGISTRY_DRIFT"] \in audit'[d]
    BY <2>2, <2>4, <2>5 DEF w
  <2> QED BY <2>2, <2>5, <2>8, <2>9
<1>8. ASSUME NEW e \in Exec, LogEvent(e) PROVE AnswerInv'
  <2> DEFINE v0 == [action |-> idx[e], code |-> code[e]]
  <2>1. audit' = [audit EXCEPT ![e] = @ \cup {v0}]
    BY <1>8 DEF LogEvent
  <2>2. \A d \in Exec : audit[d] \subseteq audit'[d]
    BY <2>1
  <2>3. \A d \in Exec : \A v \in audit'[d] : v \in audit[d] \/ (d = e /\ v = v0)
    BY <2>1
  <2>4. pc'[e] \in {"next", "returned"} /\ UNCHANGED code
    BY <1>8 DEF LogEvent
  <2>5. \A d \in Exec \ {e} : pc'[d] = pc[d] /\ idx'[d] = idx[d]
    BY <1>8 DEF LogEvent
  <2>6. pc'[e] = "returned" => idx'[e] = idx[e]
    BY <1>8 DEF LogEvent
  <2>7. v0.code \in Drifting =>
          [action |-> v0.action, code |-> "WARN_TRIGGER_REGISTRY_DRIFT"] \in audit[e]
    BY <1>8 DEF LogEvent
  <2>8. v0 \in audit'[e]
    BY <2>1
  <2>9. \A d \in Exec : pc'[d] = "returned" /\ code'[d] # "EXECUTE_PLAN_SUCCESS" =>
          [action |-> idx'[d], code |-> code'[d]] \in audit'[d]
    BY <2>2, <2>4, <2>5, <2>6, <2>8
  <2> HIDE DEF v0
  <2> QED BY <2>2, <2>3, <2>4, <2>5, <2>7, <2>9
<1>9. ASSUME NEW e \in Exec, IoError(e) PROVE AnswerInv'
  BY <1>9, ZenonT(40) DEF IoError, Ended
<1>10. ASSUME NEW e \in Exec, Crash(e) PROVE AnswerInv'
  BY <1>10 DEF Crash, Ended
<1>11. ASSUME NEW e \in Exec, Revoke(e) PROVE AnswerInv'
  BY <1>11 DEF Revoke
<1>12. ASSUME NEW e \in Exec, Expire(e) PROVE AnswerInv'
  BY <1>12 DEF Expire
<1>13. CASE SaveAccess
  BY <1>13 DEF SaveAccess
<1>14. CASE UNCHANGED vars
  BY <1>14 DEF vars
<1> QED
  BY <1>1, <1>2, <1>3, <1>4, <1>5, <1>6, <1>7, <1>8, <1>9, <1>10, <1>11,
     <1>12, <1>13, <1>14
  DEF Next, ExecStep

-----------------------------------------------------------------------------
(***************************************************************************)
(* The properties, for every value of the constants                        *)
(***************************************************************************)
\* The strengthenings hold before the first step.
LEMMA InitStrong ==
  Init => LedgerInv /\ TruthInv /\ LateInv /\ GoneInv /\ DestructiveOnce
          /\ BlockInv /\ AnswerInv
<1> SUFFICES ASSUME Init
             PROVE  LedgerInv /\ TruthInv /\ LateInv /\ GoneInv /\ DestructiveOnce
                    /\ BlockInv /\ AnswerInv
  OBVIOUS
<1>1. LedgerInv
  BY DEF Init, LedgerInv
<1>2. TruthInv /\ LateInv
  BY DEF Init, TruthInv, LateInv
<1>3. GoneInv /\ DestructiveOnce
  BY DEF Init, GoneInv, DestructiveOnce
<1>4. BlockInv /\ AnswerInv
  BY DEF Init, BlockInv, AnswerInv, AnswerAudited
<1> QED BY <1>1, <1>2, <1>3, <1>4

\* The journal and the effects of an execution at each point of its loop.
LEMMA Ledger == Spec => []LedgerInv
<1>1. Init => LedgerInv
  BY InitStrong
<1> QED BY <1>1, Progress, LedgerInductive, PTL DEF Spec

\* However its token is withdrawn, an execution performs at most one more
\* action (commitExecutor.ts:197-205).
THEOREM WithdrawalCorrect == Spec => []WithdrawalStops
<1>1. Init => LateInv
  BY InitStrong
<1>2. LateInv => WithdrawalStops
  BY DEF LateInv, WithdrawalStops
<1> QED BY <1>1, <1>2, Progress, LateInductive, PTL DEF Spec

\* No action takes effect on a path that has been blocked since it began
\* (pathGuards.ts:57-81).
THEOREM BlockCorrect == Spec => []BlockedUntouched
<1>1. Init => BlockInv
  BY InitStrong
<1>2. BlockInv => BlockedUntouched
  BY DEF BlockInv, BlockedUntouched
<1> QED BY <1>1, <1>2, Progress, BlockInductive, PTL DEF Spec

\* Overlapping executions of one plan never both remove a file.
THEOREM OnceCorrect == Spec => []DestructiveOnce
<1>1. Init => GoneInv /\ DestructiveOnce
  BY InitStrong
<1> QED BY <1>1, Progress, GoneInductive, OnceInductive, PTL DEF Spec

\* Every answer but success is audited, unknown triggers with a warning
\* (commitExecutor.ts:39-158, 324-405).
THEOREM AnswerCorrect == Spec => []AnswerAudited
<1>1. Init => AnswerInv
  BY InitStrong
<1>2. AnswerInv => AnswerAudited
  BY DEF AnswerInv
<1> QED BY <1>1, <1>2, Progress, AnswerInductive, PTL DEF Spec

\* What the audit log says of an action is true
\* (commitExecutor.ts:207-233, 408-457).
THEOREM TruthCorrect == Spec => []AuditTruthful
<1>1. Init => TruthInv
  BY InitStrong
<1>2. TruthInv => AuditTruthful
  BY DEF TruthInv, AuditTruthful
<1> QED BY <1>1, <1>2, Progress, Ledger, TruthInductive, PTL DEF Spec

-----------------------------------------------------------------------------
(***************************************************************************)
(* Refinement                                                              *)
(***************************************************************************)
\* An execution that has not ended is open.
LEMMA OpenResult ==
  ASSUME NEW e \in Exec, pc[e] \notin Ended
  PROVE  Result(e) = "open"
BY DEF Result, Ended

\* The step of one execution that ends it with outcome o.
LEMMA EndStep ==
  ASSUME NEW e \in Exec, NEW o \in {"success", "refused", "failed"},
         Result(e) = "open", Result(e)' = o,
         \A d \in Exec \ {e} : Result(d)' = Result(d),
         o = "success" => journal[e] = 1..Len(PlanOf[e]),
         o = "refused" => journal[e] = performed[e],
         UNCHANGED <<performed, journal>>
  PROVE  Abstract!Next
<1> DEFINE out == [d \in Exec |-> Result(d)]
<1>1. out' = [out EXCEPT ![e] = o]
  OBVIOUS
<1>2. Abstract!End(e, o)
  BY <1>1 DEF Abstract!End
<1> QED BY <1>2 DEF Abstract!Next

\* Every step of an execution is a step of what it promises, or a stutter.
LEMMA StepRefines ==
  TypeOK /\ ProgressInv /\ LedgerInv /\ [Next]_vars => [Abstract!Next]_(Abstract!vars)
<1> SUFFICES ASSUME TypeOK, ProgressInv, LedgerInv, [Next]_vars PROVE [Abstract!Next]_(Abstract!vars)
  OBVIOUS
<1> USE DEF TypeOK, Goto, Answer, disk, authority, logs, execs, bounds, ghosts
<1>1. ASSUME NEW e \in Exec, Preflight(e) PROVE [Abstract!Next]_(Abstract!vars)
  <2>1. UNCHANGED <<performed, journal>>
    BY <1>1 DEF Preflight
  <2>2. \A d \in Exec : Result(d)' = Result(d)
    BY <1>1 DEF Preflight, Result, Ended
  <2> QED BY <2>1, <2>2 DEF Abstract!vars
<1>2. ASSUME NEW e \in Exec, NextAction(e) PROVE [Abstract!Next]_(Abstract!vars)
  <2>1. Len(PlanOf[e]) \in Nat /\ UNCHANGED <<performed, journal>>
    BY <1>2, PlanAssumption DEF NextAction
  <2>2. \A d \in Exec \ {e} : Result(d)' = Result(d)
    BY <1>2 DEF NextAction, Result
  <2>3. Result(e) = "open"
    BY <1>2, OpenResult DEF NextAction, Ended
  <2>4. CASE idx[e] > Len(PlanOf[e])
    <3>1. pc'[e] = "returned" /\ code'[e] = "EXECUTE_PLAN_SUCCESS"
      BY <1>2, <2>1, <2>4 DEF NextAction
    <3>2. Result(e)' = "success"
      BY <3>1, CodesDiffer DEF Result
    <3>3. journal[e] = 1..Len(PlanOf[e])
      <4>1. pc[e] = "next"
        BY <1>2 DEF NextAction
      <4>2. idx[e] \in 1..(Len(PlanOf[e]) + 1)
        BY <4>1 DEF ProgressInv
      <4>3. idx[e] - 1 = Len(PlanOf[e])
        BY <2>1, <2>4, <4>2
      <4> QED BY <4>1, <4>3 DEF LedgerInv
    <3> QED BY <2>1, <2>2, <2>3, <3>2, <3>3, EndStep
  <2>5. CASE ~(idx[e] > Len(PlanOf[e]))
    <3>1. pc'[e] \in {"drift", "guard"}
      BY <1>2, <2>1, <2>5 DEF NextAction
    <3>2. Result(e)' = "open"
      BY <3>1 DEF Result, Ended
    <3> QED BY <2>1, <2>2, <2>3, <3>2 DEF Abstract!vars
  <2> QED BY <2>4, <2>5
<1>3. ASSUME NEW e \in Exec, Guard(e) PROVE [Abstract!Next]_(Abstract!vars)
  <2>1. UNCHANGED <<performed, journal>>
    BY <1>3 DEF Guard
  <2>2. \A d \in Exec : Result(d)' = Result(d)
    BY <1>3 DEF Guard, Result, Ended
  <2> QED BY <2>1, <2>2 DEF Abstract!vars
<1>4. ASSUME NEW e \in Exec, Probe(e) PROVE [Abstract!Next]_(Abstract!vars)
  <2>1. UNCHANGED <<performed, journal>>
    BY <1>4 DEF Probe
  <2>2. \A d \in Exec : Result(d)' = Result(d)
    BY <1>4 DEF Probe, Result, Ended
  <2> QED BY <2>1, <2>2 DEF Abstract!vars
<1>5. ASSUME NEW e \in Exec, Mutate(e) PROVE [Abstract!Next]_(Abstract!vars)
  <2>1. \A d \in Exec : Result(d)' = Result(d)
    BY <1>5 DEF Mutate, Result, Ended
  <2>2. CASE SourceGone(act(e))
    <3>1. UNCHANGED <<performed, journal>>
      BY <1>5, <2>2 DEF Mutate
    <3> QED BY <2>1, <3>1 DEF Abstract!vars
  <2>3. CASE ~SourceGone(act(e))
    <3>1. idx[e] \in 1..Len(PlanOf[e]) /\ idx[e] \in Nat \ {0}
      BY <1>5, PlanAssumption DEF Mutate, ProgressInv
    <3>2. performed[e] = 1..(idx[e] - 1) /\ journal[e] = 1..(idx[e] - 1)
      BY <1>5 DEF Mutate, LedgerInv
    <3>3. performed' = [performed EXCEPT ![e] = 1..idx[e]] /\ UNCHANGED journal
      BY <1>5, <2>3, <3>1, <3>2, Upto DEF Mutate
    <3>4. Result(e) = "open"
      BY <1>5, OpenResult DEF Mutate, Ended
    <3>5. Abstract!Perform(e, idx[e])
      BY <2>1, <3>2, <3>3, <3>4 DEF Abstract!Perform
    <3> QED BY <3>1, <3>5 DEF Abstract!Next
  <2> QED BY <2>2, <2>3
<1>6. ASSUME NEW e \in Exec, Journal(e) PROVE [Abstract!Next]_(Abstract!vars)
  <2>1. \A d \in Exec : Result(d)' = Result(d)
    BY <1>6 DEF Journal, Result, Ended
  <2>2. idx[e] \in Nat \ {0}
    BY <1>6, PlanAssumption DEF Journal, ProgressInv
  <2>3. journal[e] = 1..(idx[e] - 1) /\ performed[e] = 1..idx[e]
    BY <1>6 DEF Journal, LedgerInv
  <2>4. journal' = [journal EXCEPT ![e] = performed[e]] /\ UNCHANGED performed
    BY <1>6, <2>2, <2>3, Upto DEF Journal
  <2>5. Result(e) = "open"
    BY <1>6, OpenResult DEF Journal, Ended
  <2>6. Abstract!Record(e)
    BY <2>1, <2>4, <2>5 DEF Abstract!Record
  <2> QED BY <2>6 DEF Abstract!Next
<1>7. ASSUME NEW e \in Exec, Drift(e) PROVE [Abstract!Next]_(Abstract!vars)
  <2>1. UNCHANGED <<performed, journal>>
    BY <1>7 DEF Drift
  <2>2. \A d \in Exec : Result(d)' = Result(d)
    BY <1>7 DEF Drift, Result, Ended
  <2> QED BY <2>1, <2>2 DEF Abstract!vars
<1>8. ASSUME NEW e \in Exec, LogEvent(e) PROVE [Abstract!Next]_(Abstract!vars)
  <2>1. UNCHANGED <<performed, journal, code>>
    BY <1>8 DEF LogEvent
  <2>2. \A d \in Exec \ {e} : Result(d)' = Result(d)
    BY <1>8 DEF LogEvent, Result
  <2>3. Result(e) = "open"
    BY <1>8, OpenResult DEF LogEvent, Ended
  <2>4. CASE code[e] = "EXECUTE_FILESYSTEM"
    <3>1. pc'[e] = "next"
      BY <1>8, <2>4 DEF LogEvent
    <3>2. Result(e)' = "open"
      BY <3>1 DEF Result, Ended
    <3> QED BY <2>1, <2>2, <2>3, <3>2 DEF Abstract!vars
  <2>5. CASE code[e] # "EXECUTE_FILESYSTEM"
    <3>1. pc'[e] = "returned" /\ code[e] # "EXECUTE_PLAN_SUCCESS"
      BY <1>8, <2>5 DEF LogEvent, ProgressInv
    <3>2. CASE code[e] \in Refusal
      <4>1. Result(e)' = "refused"
        BY <2>1, <3>1, <3>2 DEF Result
      <4>2. journal[e] = performed[e]
        BY <1>8, <3>2 DEF LogEvent, LedgerInv
      <4> QED BY <2>1, <2>2, <2>3, <4>1, <4>2, EndStep
    <3>3. CASE code[e] \notin Refusal
      <4>1. Result(e)' = "failed"
        BY <2>1, <3>1, <3>3 DEF Result, Ended
      <4> QED BY <2>1, <2>2, <2>3, <4>1, EndStep
    <3> QED BY <3>2, <3>3
  <2> QED BY <2>4, <2>5
<1>9. ASSUME NEW e \in Exec, IoError(e) PROVE [Abstract!Next]_(Abstract!vars)
  <2>1. UNCHANGED <<performed, journal>>
    BY <1>9 DEF IoError
  <2>2. \A d \in Exec \ {e} : Result(d)' = Result(d)
    BY <1>9 DEF IoError, Result
  <2>3. Result(e) = "open"
    BY <1>9, OpenResult DEF IoError
  <2>4. CASE InTry(e)
    <3>1. pc'[e] = "drift"
      BY <1>9, <2>4 DEF IoError
    <3>2. Result(e)' = "open"
      BY <3>1 DEF Result, Ended
    <3> QED BY <2>1, <2>2, <2>3, <3>2 DEF Abstract!vars
  <2>5. CASE ~InTry(e)
    <3>1. pc'[e] = "thrown"
      BY <1>9, <2>5 DEF IoError
    <3>2. Result(e)' = "failed"
      BY <3>1 DEF Result, Ended
    <3> QED BY <2>1, <2>2, <2>3, <3>2, EndStep
  <2> QED BY <2>4, <2>5
<1>10. ASSUME NEW e \in Exec, Crash(e) PROVE [Abstract!Next]_(Abstract!vars)
  <2>1. UNCHANGED <<performed, journal>>
    BY <1>10 DEF Crash
  <2>2. \A d \in Exec \ {e} : Result(d)' = Result(d)
    BY <1>10 DEF Crash, Result
  <2>3. Result(e) = "open"
    BY <1>10, OpenResult DEF Crash
  <2>4. Result(e)' = "failed"
    BY <1>10 DEF Crash, Result, Ended
  <2> QED BY <2>1, <2>2, <2>3, <2>4, EndStep
<1>11. ASSUME NEW e \in Exec, Revoke(e) PROVE [Abstract!Next]_(Abstract!vars)
  <2>1. UNCHANGED <<performed, journal>>
    BY <1>11 DEF Revoke
  <2>2. \A d \in Exec : Result(d)' = Result(d)
    BY <1>11 DEF Revoke, Result, Ended
  <2> QED BY <2>1, <2>2 DEF Abstract!vars
<1>12. ASSUME NEW e \in Exec, Expire(e) PROVE [Abstract!Next]_(Abstract!vars)
  <2>1. UNCHANGED <<performed, journal>>
    BY <1>12 DEF Expire
  <2>2. \A d \in Exec : Result(d)' = Result(d)
    BY <1>12 DEF Expire, Result, Ended
  <2> QED BY <2>1, <2>2 DEF Abstract!vars
<1>13. CASE SaveAccess
  <2>1. UNCHANGED <<performed, journal>>
    BY <1>13 DEF SaveAccess
  <2>2. \A d \in Exec : Result(d)' = Result(d)
    BY <1>13 DEF SaveAccess, Result, Ended
  <2> QED BY <2>1, <2>2 DEF Abstract!vars
<1>14. CASE UNCHANGED vars
  BY <1>14 DEF vars, Abstract!vars, Result
<1> QED
  BY <1>1, <1>2, <1>3, <1>4, <1>5, <1>6, <1>7, <1>8, <1>9, <1>10, <1>11,
     <1>12, <1>13, <1>14
  DEF Next, ExecStep

\* The executor implements PlanExecution: crashes, I/O errors, withdrawals and
\* overlapping executions included (commitExecutor.ts).
THEOREM Refinement == Spec => ImplementsPlanExecution
<1>1. Init => Abstract!Init
  BY DEF Init, Abstract!Init, Result, Ended
<1>2. Spec => [](TypeOK /\ ProgressInv /\ LedgerInv)
  BY Progress, Ledger, PTL
<1> QED BY <1>1, <1>2, StepRefines, PTL DEF Spec, ImplementsPlanExecution, Abstract!Spec
=============================================================================
