--------------------------- MODULE CommitExecutor ---------------------------
(***************************************************************************)
(* core/executor/commitExecutor.ts: executions of committed plans. Each is *)
(* a process that checks a commit and a permission token, performs file    *)
(* operations one by one, and writes the journal and the audit log. They   *)
(* share the disk with each other, and with an operator who revokes tokens *)
(* and changes the access policy while they run. The guard of an action,   *)
(* the checks of its capability, the file operation, the journal entry and *)
(* each audit event are steps of their own; the reads within one of the    *)
(* two checks are one step.                                                *)
(***************************************************************************)
EXTENDS PermissionToken

CONSTANTS Exec,
          Path,
          NoPath,      \* an action's path when its selector has none
          PlanOf,      \* the plan of each execution
          NoToken,
          Requests,    \* what may come with a plan: a commit, a token
          Policies,    \* the execution policies an operator may install
          AccessPolicies,
          Files,       \* the paths that exist at first
          Drifting,    \* codes with a trigger the registry does not know
          MaxSaves, MaxIoErrors, MaxCrashes   \* bounds on the environment

Place  == Path \cup {NoPath}
Action == [op: Operation, src: Place, dst: Place]
Mutating == {"move", "copy", "rename", "delete"}

\* The order of the checks before the first action.
PreflightOrder ==
  <<"REFUSE_PERMISSION_TOKEN_MISSING", "REFUSE_LEGACY_EXECUTION_DISABLED",
    "REFUSE_SCHEMA_INVALID", "REFUSE_PLAN_COMMIT_MISMATCH">>

PreflightRefusal == {PreflightOrder[k] : k \in 1..4}
Refusal == PreflightRefusal \cup TokenRefusal
           \cup {"REFUSE_UNIMPLEMENTED_ACTION", "REFUSE_ACCESS_POLICY_DENIED"}
Code == Refusal \cup {"EXECUTE_FILESYSTEM", "EXECUTE_ACTION_FAILED",
                      "EXECUTE_PLAN_SUCCESS"}

Request == [token: Token \cup {NoToken}, commit: {"valid", "invalid", "other"}]
ExecutionPolicy == [mandatory_permission_tokens: BOOLEAN,
                    allow_legacy_execution: BOOLEAN]
AccessPolicy == [blocked: SUBSET Place, allowed: SUBSET Place]

ASSUME PlanAssumption ==
  /\ PlanOf \in [Exec -> Seq(Action)]
  /\ NoToken \notin Token
ASSUME RequestAssumption ==
  Requests \subseteq Request /\ Policies \subseteq ExecutionPolicy
ASSUME AccessAssumption ==
  AccessPolicies \subseteq AccessPolicy /\ Files \subseteq Path /\ NoPath \notin Path
ASSUME BoundAssumption ==
  MaxSaves \in Nat /\ MaxIoErrors \in Nat /\ MaxCrashes \in Nat

VARIABLES
  files,     \* the paths that exist
  access,    \* config/access-policy.json
  policy,    \* policy/runtime/execution-policy.json
  revoked, expired,   \* the executions whose token has been, by now
  audit,     \* the audit events of each execution
  journal,   \* the actions of each execution that are in the journal
  pc, idx, code, request,   \* the executions
  saves, ioErrors, crashes,
  \* History variables: they guard nothing and are read by properties only.
  performed, \* the actions of each execution that took effect
  late,      \* how many did after the token had been withdrawn
  denied     \* the paths blocked ever since the current action began

disk  == <<files, access, policy>>
logs  == <<audit, journal>>
execs == <<pc, idx, code, request>>
authority == <<revoked, expired>>
ghosts == <<performed, late, denied>>
bounds == <<saves, ioErrors, crashes>>
vars  == <<disk, authority, logs, execs, bounds, ghosts>>

Ended == {"returned", "thrown", "dead"}
Pc == {"start", "next", "guard", "probe", "mutate", "journal", "drift", "log"}
      \cup Ended
Event == [action: Nat, code: Code \cup {"WARN_TRIGGER_REGISTRY_DRIFT"}]

TypeOK ==
  /\ files \subseteq Path /\ access \in AccessPolicy /\ policy \in ExecutionPolicy
  /\ revoked \subseteq Exec /\ expired \subseteq Exec
  /\ audit   \in [Exec -> SUBSET Event]
  /\ journal \in [Exec -> SUBSET Nat]
  /\ pc      \in [Exec -> Pc]
  /\ idx     \in [Exec -> Nat]
  /\ code    \in [Exec -> Code]
  /\ request \in [Exec -> Request]
  /\ saves \in Nat /\ ioErrors \in Nat /\ crashes \in Nat
  /\ performed \in [Exec -> SUBSET Nat]
  /\ late      \in [Exec -> Nat]
  /\ denied    \in [Exec -> SUBSET Place]

Init ==
  /\ files = Files /\ access \in AccessPolicies /\ policy \in Policies
  /\ revoked = {} /\ expired = {}
  /\ audit   = [e \in Exec |-> {}]
  /\ journal = [e \in Exec |-> {}]
  /\ pc      = [e \in Exec |-> "start"]
  /\ idx     = [e \in Exec |-> 0]
  /\ code    = [e \in Exec |-> "EXECUTE_PLAN_SUCCESS"]
  /\ request \in [Exec -> Requests]
  /\ saves = 0 /\ ioErrors = 0 /\ crashes = 0
  /\ performed = [e \in Exec |-> {}]
  /\ late      = [e \in Exec |-> 0]
  /\ denied    = [e \in Exec |-> {}]

-----------------------------------------------------------------------------
(***************************************************************************)
(* executeCommittedPlan and executeSingleAction                            *)
(***************************************************************************)
Goto(e, l) == pc' = [pc EXCEPT ![e] = l]

\* Faulty variants (here and below, each named ...Bug) stand in for the
\* definition after them when a property is tested for being breakable.
AnswerBug(e, c) == Goto(e, "log") /\ code' = [code EXCEPT ![e] = c]

\* The answer is settled, except that its audit event is still to be written.
Answer(e, c) == Goto(e, "drift") /\ code' = [code EXCEPT ![e] = c]

act(e) == PlanOf[e][idx[e]]
HasToken(e) == request[e].token # NoToken
Withdrawn(e) == HasToken(e) /\ e \in revoked \cup expired

PreflightGrounds(e) ==
  {c \in PreflightRefusal :
     \/ /\ c = "REFUSE_PERMISSION_TOKEN_MISSING"
        /\ ~HasToken(e) /\ policy.mandatory_permission_tokens
     \/ /\ c = "REFUSE_LEGACY_EXECUTION_DISABLED"
        /\ ~HasToken(e) /\ ~policy.allow_legacy_execution
     \/ c = "REFUSE_SCHEMA_INVALID" /\ request[e].commit = "invalid"
     \/ c = "REFUSE_PLAN_COMMIT_MISMATCH" /\ request[e].commit = "other"}

\* Read the execution policy and check the commit.
Preflight(e) ==
  /\ pc[e] = "start"
  /\ \/ /\ PreflightGrounds(e) # {}
        /\ Answer(e, FirstOf(PreflightOrder, PreflightGrounds(e)))
        /\ UNCHANGED idx
     \/ /\ PreflightGrounds(e) = {}
        /\ idx' = [idx EXCEPT ![e] = 1]
        /\ Goto(e, "next") /\ UNCHANGED code
  /\ UNCHANGED <<disk, authority, logs, request, bounds, ghosts>>

GroundsNowBug(e) ==
  IF HasToken(e) /\ idx[e] = 1
    THEN TokenGrounds(request[e].token, act(e).op, e \in revoked, e \in expired)
    ELSE {}

GroundsNow(e) ==
  IF HasToken(e)
    THEN TokenGrounds(request[e].token, act(e).op, e \in revoked, e \in expired)
    ELSE {}

\* The head of the loop: return after the last action, else check the token
\* against the revocation list and the clock of this moment.
NextAction(e) ==
  /\ pc[e] = "next"
  /\ \/ /\ idx[e] > Len(PlanOf[e])
        /\ code' = [code EXCEPT ![e] = "EXECUTE_PLAN_SUCCESS"]
        /\ Goto(e, "returned")
        /\ UNCHANGED denied
     \/ /\ idx[e] <= Len(PlanOf[e])
        /\ denied' = [denied EXCEPT ![e] = access.blocked]
        /\ \/ /\ GroundsNow(e) # {}
              /\ Answer(e, FirstOf(TokenOrder, GroundsNow(e)))
           \/ /\ GroundsNow(e) = {}
              /\ Goto(e, "guard") /\ UNCHANGED code
  /\ UNCHANGED <<disk, authority, logs, idx, request, bounds, performed, late>>

\* A delete has no destination.
PathsOf(a) == IF a.op = "delete" THEN {a.src} ELSE {a.src, a.dst}

isPathBlockedBug(p) == p \in access.blocked \ access.allowed

isPathBlocked(p) == p \in access.blocked
isPathAllowed(p) == ~isPathBlocked(p) /\ p \in access.allowed

\* assertPathsAllowed, for the operations the executor implements.
Guard(e) ==
  /\ pc[e] = "guard"
  /\ \/ /\ act(e).op \notin Mutating
        /\ Answer(e, "REFUSE_UNIMPLEMENTED_ACTION")
     \/ /\ act(e).op \in Mutating
        /\ \E p \in PathsOf(act(e)) : ~isPathAllowed(p)
        /\ Answer(e, "REFUSE_ACCESS_POLICY_DENIED")
     \/ /\ act(e).op \in Mutating
        /\ \A p \in PathsOf(act(e)) : isPathAllowed(p)
        /\ Goto(e, "probe") /\ UNCHANGED code
  /\ UNCHANGED <<disk, authority, logs, idx, request, bounds, ghosts>>

\* The checks of the capability before it calls the file system.
Ready(a) ==
  /\ NoPath \notin PathsOf(a)
  /\ \A p \in PathsOf(a) : ~isPathBlocked(p)
  /\ a.src \in files

Probe(e) ==
  /\ pc[e] = "probe"
  /\ IF Ready(act(e)) THEN Goto(e, "mutate") /\ UNCHANGED code
                      ELSE Answer(e, "EXECUTE_ACTION_FAILED")
  /\ UNCHANGED <<disk, authority, logs, idx, request, bounds, ghosts>>

EffectBug(a) ==
  (IF a.op = "copy" THEN files ELSE files \ {a.src}) \cup {a.dst}
SourceGoneBug(a) == FALSE

\* What renameSync, copyFileSync and rmSync make of the existing paths.
Effect(a) ==
  CASE a.op = "delete" -> files \ {a.src}
    [] a.op = "copy"   -> files \cup {a.dst}
    [] OTHER           -> (files \ {a.src}) \cup {a.dst}

\* The call itself throws when the source has gone since it was looked for.
SourceGone(a) == a.src \notin files

Mutate(e) ==
  /\ pc[e] = "mutate"
  /\ IF ~SourceGone(act(e))
       THEN /\ files' = Effect(act(e))
            /\ performed' = [performed EXCEPT ![e] = @ \cup {idx[e]}]
            /\ late' = [late EXCEPT ![e] = @ + IF Withdrawn(e) THEN 1 ELSE 0]
            /\ Goto(e, "journal") /\ UNCHANGED code
       ELSE /\ Answer(e, "EXECUTE_ACTION_FAILED")
            /\ UNCHANGED <<files, performed, late>>
  /\ UNCHANGED <<access, policy, authority, logs, idx, request, bounds, denied>>

JournalBug(e) ==
  /\ pc[e] = "journal"
  /\ Answer(e, "EXECUTE_FILESYSTEM")
  /\ UNCHANGED <<disk, authority, logs, idx, request, bounds, ghosts>>

Journal(e) ==
  /\ pc[e] = "journal"
  /\ journal' = [journal EXCEPT ![e] = @ \cup {idx[e]}]
  /\ Answer(e, "EXECUTE_FILESYSTEM")
  /\ UNCHANGED <<disk, authority, audit, idx, request, bounds, ghosts>>

\* auditTriggerRegistryDrift: a warning when a trigger is not registered.
Drift(e) ==
  /\ pc[e] = "drift"
  /\ audit' = [audit EXCEPT ![e] = @ \cup
       {[action |-> idx[e], code |-> "WARN_TRIGGER_REGISTRY_DRIFT"] :
          c \in {code[e]} \cap Drifting}]
  /\ Goto(e, "log")
  /\ UNCHANGED <<disk, authority, journal, idx, code, request, bounds, ghosts>>

LogEventBug(e) ==
  /\ pc[e] = "log"
  /\ audit' = [audit EXCEPT ![e] = @ \cup {[action |-> idx[e], code |-> code[e]]}]
  /\ IF code[e] \in {"EXECUTE_FILESYSTEM", "EXECUTE_ACTION_FAILED"}
       THEN Goto(e, "next") /\ idx' = [idx EXCEPT ![e] = @ + 1]
       ELSE Goto(e, "returned") /\ UNCHANGED idx
  /\ UNCHANGED <<disk, authority, journal, code, request, bounds, ghosts>>
LogEventRetryBug(e) ==
  /\ pc[e] = "log"
  /\ audit' = [audit EXCEPT ![e] = @ \cup {[action |-> idx[e], code |-> code[e]]}]
  /\ Goto(e, IF code[e] \in Refusal THEN "returned" ELSE "next")
  /\ idx' = [idx EXCEPT ![e] = IF code[e] = "EXECUTE_FILESYSTEM" THEN @ + 1 ELSE @]
  /\ UNCHANGED <<disk, authority, journal, code, request, bounds, ghosts>>

\* writeAuditEvent, and on to the next action after an executed one.
LogEvent(e) ==
  /\ pc[e] = "log"
  /\ audit' = [audit EXCEPT ![e] = @ \cup {[action |-> idx[e], code |-> code[e]]}]
  /\ IF code[e] = "EXECUTE_FILESYSTEM"
       THEN Goto(e, "next") /\ idx' = [idx EXCEPT ![e] = @ + 1]
       ELSE Goto(e, "returned") /\ UNCHANGED idx
  /\ UNCHANGED <<disk, authority, journal, code, request, bounds, ghosts>>

ExecStep(e) ==
  \/ Preflight(e) \/ NextAction(e) \/ Guard(e) \/ Probe(e) \/ Mutate(e)
  \/ Journal(e) \/ Drift(e) \/ LogEvent(e)

-----------------------------------------------------------------------------
(***************************************************************************)
(* The environment                                                         *)
(***************************************************************************)
\* The try block of executeSingleAction surrounds this step.
InTry(e) ==
  \/ pc[e] \in {"guard", "probe", "mutate", "journal"}
  \/ /\ pc[e] \in {"drift", "log"}
     /\ code[e] \in {"EXECUTE_FILESYSTEM", "REFUSE_UNIMPLEMENTED_ACTION"}

\* A file cannot be read or written: inside the try block the action has
\* failed, elsewhere the exception leaves executeCommittedPlan.
IoError(e) ==
  /\ ioErrors < MaxIoErrors
  /\ pc[e] \notin Ended
  /\ pc[e] = "next" => /\ HasToken(e) /\ request[e].token.traced
                       /\ idx[e] <= Len(PlanOf[e])
  /\ ioErrors' = ioErrors + 1
  /\ IF InTry(e) THEN Answer(e, "EXECUTE_ACTION_FAILED")
                 ELSE Goto(e, "thrown") /\ UNCHANGED code
  /\ UNCHANGED <<disk, authority, logs, idx, request, saves, crashes, ghosts>>

Crash(e) ==
  /\ crashes < MaxCrashes
  /\ pc[e] \notin Ended
  /\ crashes' = crashes + 1
  /\ Goto(e, "dead")
  /\ UNCHANGED <<disk, authority, logs, idx, code, request, saves, ioErrors, ghosts>>

\* An operator adds the token to the revocation list; time passes.
Revoke(e) ==
  /\ HasToken(e) /\ e \notin revoked
  /\ revoked' = revoked \cup {e}
  /\ UNCHANGED <<disk, expired, logs, execs, bounds, ghosts>>

Expire(e) ==
  /\ HasToken(e) /\ e \notin expired
  /\ expired' = expired \cup {e}
  /\ UNCHANGED <<disk, revoked, logs, execs, bounds, ghosts>>

\* An operator replaces the access policy.
SaveAccess ==
  /\ saves < MaxSaves
  /\ saves' = saves + 1
  /\ access' \in AccessPolicies
  /\ denied' = [e \in Exec |-> denied[e] \cap access'.blocked]
  /\ UNCHANGED <<files, policy, authority, logs, execs, ioErrors, crashes,
                 performed, late>>

Next ==
  \/ \E e \in Exec : ExecStep(e) \/ IoError(e) \/ Crash(e) \/ Revoke(e) \/ Expire(e)
  \/ SaveAccess

Spec == Init /\ [][Next]_vars

\* The operating system runs every process that can take a step.
FairSpec == Spec /\ \A e \in Exec : WF_vars(ExecStep(e))

-----------------------------------------------------------------------------
(***************************************************************************)
(* Properties                                                              *)
(***************************************************************************)
\* After its token has been revoked or has expired, an execution performs at
\* most the action it had already checked the token for: the next one reads
\* the revocation list again (commitExecutor.ts:197-205).
WithdrawalStops == \A e \in Exec : late[e] <= 1

\* An action takes no effect on a path that was blocked when it began and has
\* been ever since, although the policy is read several times on the way and
\* may be replaced in between (pathGuards.ts:57-81, fsMove.ts:10).
BlockedUntouched ==
  \A e \in Exec : pc[e] = "journal" => PathsOf(act(e)) \cap denied[e] = {}

Written == UNION {{PlanOf[e][i].dst : i \in DOMAIN PlanOf[e]} : e \in Exec}

\* Two executions of one plan, which the task layer allows to overlap, never
\* both move, rename or delete the same file: whichever is late finds the
\* source gone. A path that the plans write to is another matter.
DestructiveOnce ==
  \A d, e \in Exec : \A i \in performed[d] \cap performed[e] :
    /\ PlanOf[d] = PlanOf[e] /\ PlanOf[e][i].op \in Mutating \ {"copy"}
    /\ PlanOf[e][i].src \notin Written
    => d = e

\* Whatever an execution answers is in the audit log, with the code it
\* answers, and a trigger that the registry does not know is reported before
\* the event that carries it (commitExecutor.ts:39-158, 324-405).
AnswerAudited ==
  \A e \in Exec :
    /\ pc[e] = "returned" /\ code[e] # "EXECUTE_PLAN_SUCCESS" =>
         [action |-> idx[e], code |-> code[e]] \in audit[e]
    /\ \A v \in audit[e] : v.code \in Drifting =>
         [action |-> v.action, code |-> "WARN_TRIGGER_REGISTRY_DRIFT"] \in audit[e]

\* The audit log never claims an effect that did not happen, and never calls
\* one that did a refusal: executed actions took effect and are in the
\* journal, refused ones took none (commitExecutor.ts:207-233, 408-457).
AuditTruthful ==
  \A e \in Exec : \A v \in audit[e] :
    /\ v.code = "EXECUTE_FILESYSTEM" => v.action \in performed[e] \cap journal[e]
    /\ v.code \in Refusal => v.action \notin performed[e]

Result(e) ==
  CASE pc[e] = "returned" /\ code[e] = "EXECUTE_PLAN_SUCCESS" -> "success"
    [] pc[e] = "returned" /\ code[e] \in Refusal              -> "refused"
    [] pc[e] \in Ended /\ ~(pc[e] = "returned"
                            /\ code[e] \in Refusal \cup {"EXECUTE_PLAN_SUCCESS"}) -> "failed"
    [] OTHER -> "open"

Abstract == INSTANCE PlanExecution WITH
  Length   <- [e \in Exec |-> Len(PlanOf[e])],
  recorded <- journal,
  outcome  <- [e \in Exec |-> Result(e)]

\* Crashes, I/O errors, revocations and overlapping executions included, every
\* execution performs its plan in order, journals as it goes, and answers
\* success or a refusal only when the journal is complete.
ImplementsPlanExecution == Abstract!Spec

\* Every execution comes to an end.
EveryExecutionEnds == \A e \in Exec : <>(pc[e] \in Ended)
=============================================================================
