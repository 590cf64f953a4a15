# A TLA+ model of PathWarden

PathWarden decides whether local work on files may be done, does it, and keeps
evidence of it. It has no server and no threads: every command is a process
that reads and writes files of one working directory. What makes it hard is
that the processes (desktop shell, command line, due-task runner, startup
workflow) overlap, that each of them reads a file, decides, and writes it back,
and that any of these steps can fail or be the last one of a process that dies.

## The system

| Component | State | Operations | Depends on |
|---|---|---|---|
| Task store, lifecycle, runner (`core/tasks`) | `tasks/queue`, `tasks/history` | create, approve, cancel, edit, run, archive | lock, kernel, executor, audit |
| Task lock (`taskLockManager.ts`) | `runtime/locks/<id>.lock.json` | acquire, release, expire, reset | - |
| Executor (`core/executor`) | the user's files, `journal/events`, `audit/events` | run a committed plan action by action | token decision, path guards, trigger registry |
| Token decision (`permissionTokenValidator.ts`) | revocation list | allow or refuse one action now | risk |
| Path guards and capabilities (`capabilities/filesystem`) | `config/access-policy.json` | guard, move, copy, rename, delete; inspect, search, summarise | - |
| Due-task runner (`run-due-tasks.ts`, `taskScheduler.ts`, `globalLock.ts`) | global lock, `runtime/recurrence` | sweep the queue | task runner |
| Task drafts | `tasks/drafts` | parse, edit, convert, archive | task store |
| Kernel (`validator.ts`, `planValidator.ts`, `triggers.ts`) | - | validate an action or a plan in a mode | schemas, trigger registry |
| Capability grants (`capabilityGrantValidator.ts`) | - | decide, audit, persist, issue a token | authority log |
| Authority log (`authorityWriter.ts`, `authorityReader.ts`) | hash-chained records | append, query | - |
| Replay (`executionReplay.ts`), baseline, diff | `exports/replay` | rebuild a trace, compare two | authority log, audit log |
| Evidence reports and verifiers (`governanceReport.ts`, `replayProvenanceReport.ts`, `federationReadinessAudit.ts`, `verify-*.ts`) | `exports/governance`, `exports/replay`, `exports/federation`, the index of the latest | build a report, write it, verify it, index it | snapshot of the authority log, policy hashes, baselines and diffs |
| Policy manifest and hashes (`core/policy`) | the policy files | list, hash, compare | - |
| Governance trust (`governanceTrust.ts`, signing and export scripts) | `exports/traces`, `config/keys`, `policy/trust` | export, sum up, sign and verify a trace; create and edit the trust manifest | replay |
| Planner and bridge (`plan-user-request-json.ts`, `execute-planned-request-json.ts`) | - | show what a request would do, do it, queue it as a task | read-only capabilities, task store |
| Desktop shell (`apps/desktop`) | the cards in the window | start scripts, show their answers | everything above, through scripts |
| Diagnostics, viewers, undo | - | see PROJECT.json | - |

How they interact: a *runner* loads a task, passes the approval gate, takes the
task lock, marks the task running, dispatches on its type (`execute_plan` calls
the executor), writes an audit event, archives the result and the task, and
releases the lock. *Editors* change the same task file without the lock. The
executor checks the commit, then for each action the token, the path guard and
the capability, changes the disk, appends to the journal and to the audit log.
An *operator* revokes tokens, replaces the access policy and resets locks
meanwhile.

What is hard, by component (PROJECT.json lists each with its line):

- task layer: check-then-write lock, release without owner, expiry without
  refresh, copies loaded before the lock, whole-file write-back, a three-step
  archive, exceptions before and inside the try block, a transition table that
  the code's own branches violate;
- executor: effects that precede their records, refusals in mid-plan, tokens
  and policies that change while a plan runs, two executions of one plan;
- due-task runner: a global lock that an early exit leaves behind, a snapshot
  of the queue that ages while tasks run, recurrence windows recorded late;
- authority log: several writers that chain to the last record they have read,
  a replay that cannot see a missing head;
- drafts: conversion in two steps, edits that write back a draft that has been
  archived meanwhile, flags that the parser suggests too generously;
- desktop: answers that come late and in another order, a button whose listener
  is registered twice;
- trust: which entry of a signer counts, when; keys, entries and files that are
  replaced between two reads of one script;
- reports: policy files that change while they are hashed and compared; four
  derivations of one claim (builder, verifier, index, window) that must agree.

## Modules

| Module | Models | Instances |
|---|---|---|
| `TaskLifecycle` | `taskLifecycle.ts`, the deciding fields of `taskTypes.ts` | - |
| `TaskRunner` | `taskRunner.ts`, `taskStore.ts`, `taskLockManager.ts`, editing commands | `MCTaskRunner` |
| `TaskQueue` | what the task layer promises when commands do not overlap | - |
| `TaskRunnerSerial` | `TaskRunner` under that discipline, refinement of `TaskQueue` | `MCTaskRunnerSerial` |
| `TaskRunnerProofs` | theorems about `TaskRunner` | - |
| `TaskRunnerSerialProofs` | the refinement of `TaskQueue` | - |
| `PermissionToken` | `permissionTokenValidator.ts`, `risk.ts` | - |
| `CommitExecutor` | `commitExecutor.ts`, path guards, capabilities, journal and audit writer | `MCCommitExecutor` |
| `PlanExecution` | what the executor promises of a plan | - |
| `CommitExecutorProofs` | theorems about `CommitExecutor` | - |
| `DueRunner` | `run-due-tasks.ts`, `run-startup.ts`, `globalLock.ts`, `taskScheduler.ts`, `taskRunRecorder.ts` | `MCDueRunner` |
| `DueRunnerProofs` | theorems about `DueRunner` | - |
| `TraceReplay` | `executionReplay.ts`, `replayBaseline.ts`, `replayDiff.ts`, as operators | - |
| `AuthorityLog` | `authorityWriter.ts`, the end of `capabilityGrantValidator.ts`, damage, a reader | `MCAuthorityLog` |
| `AuthorityLogProofs` | theorems about `AuthorityLog` | - |
| `GovernanceTrust` | `governanceTrust.ts` and the scripts that export, sign and verify a trace | `MCGovernanceTrust` |
| `GovernanceTrustProofs` | theorems about `GovernanceTrust` | - |
| `Reports` | the three report builders and their verifiers, snapshot and snapshot verifier, as operators | - |
| `EvidenceReports` | the exporting process, `policyManifest.ts`, `policyHasher.ts`, the index and the window's view of it | `MCEvidenceReports` |
| `EvidenceReportsProofs` | theorems about `EvidenceReports` | - |
| `TaskDrafts` | draft parser, editor and converter, as operators | - |
| `UserRequests` | planner, bridge and read-only capabilities, as operators | - |
| `TaskAuthoring` | the draft commands and the desktop window over one queue | `MCTaskAuthoring` |
| `TaskAuthoringProofs` | theorems about `TaskAuthoring` | - |

`TaskRunner` and `DueRunner` extend `TaskLifecycle`; `CommitExecutor` extends
`PermissionToken`; `AuthorityLog` extends `TraceReplay`; `EvidenceReports`
extends `Reports`; `TaskDrafts` extends `TaskLifecycle`, and `TaskAuthoring`
extends it and `UserRequests`. `TaskRunnerSerial` and
`CommitExecutor` instantiate their abstract specifications. Definitions named
`...Bug` are faulty variants: put in the place of the definition that follows
them, each makes a property fail, which shows that the property says something.

### TaskRunner

State: for each task the queue file, the archived file, the result, the lock
file and the set of its audit events; for each runner a program counter, the
in-memory copy of the task, the phase that decides where an exception goes, and
the verdict; for each editor its command and its draft. Actions follow the file
operations of `runTask`:

| Action | Code |
|---|---|
| `Load`, `Gate` | `run-task.ts:16`, `taskRunner.ts:16-50` |
| `CheckLock`, `ClearLock`, `WriteLock` | `acquireTaskLock`, and the transition at `taskRunner.ts:74` |
| `SaveRunning` | `taskRunner.ts:76` |
| `Body`, `AuditVerdict` | `taskRunner.ts:80-299`, by task type |
| `Catch`, `Release` | `taskRunner.ts:301-333` |
| `Archive`, `FindQueued`, `Rename` | `archiveTaskResult` |
| `EditLoad`, `EditWrite` | `approveTask`, `cancelTask`, `edit-task.ts` |
| `Crash`, `IoError`, `Expire`, `ResetLock` | the environment |

`ThrowTarget` says where an exception goes from each step, which is the part of
`runTask` that is easiest to get wrong. Each file operation is atomic: a reader
that finds a half-written JSON file (and throws) is an `IoError`. `runs`,
`consented` and `tainted` are history variables that no guard reads.

### CommitExecutor

State: the paths that exist, the two policies, the withdrawn tokens, journal
and audit log per execution, and for each execution its position in the plan and
the answer it is about to give. Actions: `Preflight` (lines 36-158),
`NextAction` (160-234), `Guard` (`assertPathsAllowed`, and the operations
without an implementation), `Probe` (the capability's own checks), `Mutate` (the
call of node:fs), `Journal`, `Drift` (`auditTriggerRegistryDrift`), `LogEvent`
(`writeAuditEvent`, next action or return); `IoError` (the catch block, or out
of the function where there is no try), `Crash`, `Revoke`, `Expire`,
`SaveAccess`. `performed`, `late` and `denied` are history variables.

Abstractions: paths are flat, so a folder and its contents are different paths
and the prefix match of `isWithin` is a set; `defaultMode: "allow"` is an access
policy that allows every path. A recursive delete or a copy that fails half-way
is not modelled: `Effect` happens or does not. Schema validity of a commit is a
choice. The mode is no input, since the executor does not read it. The access
policy is what an operator writes to `config/access-policy.json`. The several
reads of that policy inside one guard are one step.

### DueRunner

State: the clock in minutes; the queue, the archived results, the run state, the
task locks and the two global locks; the startup events of the audit log; for
each process (a sweep or a startup workflow) a program counter; for each sweep
the copies it has read and the due tasks it has yet to treat.

| Action | Code |
|---|---|
| `CheckGlobal`, `ClearGlobal`, `WriteGlobal`, `ReleaseGlobal` | `globalLock.ts:39-74` |
| `List` | `run-due-tasks.ts:15-21`, `isTaskDue` |
| `NextTask` | `run-due-tasks.ts:25-42`, `canAutoRun`, `hasAlreadyRunInCurrentWindow` |
| `TakeTask`, `RunBody`, `FinishTask` | `runTask`, called at line 44 |
| `RecordRun` | `run-due-tasks.ts:47-49`, `recordTaskRun` |
| `Spawn`, `Wait`, `Complete` | `run-startup.ts` |
| `Tick`, `Crash`, `Throw`, `ResetGlobal`, `Cancel`, `RunByHand` | the environment |

Abstractions: `runTask` is three steps with an atomic task lock, since its own
races are the subject of `TaskRunner`; an approved task that passes `canAutoRun`
also passes the approval gate, which reads the same fields of the same copy. A
daily or weekly task is due in one minute of a period of `Day` minutes. Tasks
are numbered in the order of their file names, the order of the sweep.
The diagnostics and summary scripts of a startup workflow change nothing of this
state and are left out; the startup configuration is the one that is shipped,
which runs the due tasks and writes audit events. `List` that finds nothing due
ends in `idle` with its lock still on disk, as `process.exit(0)` at line 20 does.

### TraceReplay and AuthorityLog

`TraceReplay` has no state: it defines what `executionReplay.ts` computes from
the records of a trace (`HashMismatches`, `ChainMismatches`,
`ContinuityBreaks`), when `replayBaseline.ts` calls the result safe, and the
status that `replayDiff.ts` derives. A hash is modelled by the tuple it is
computed from, so equal hashes mean equal contents, as SHA-256 does in practice.

`AuthorityLog` state: for each trace its records, its audit events and a
baseline; the revocation list; for each grant a program counter and the hash it
has read. Actions: `Decide` (refuse without a trace, or go on), `AuditGrant`,
`FindPrevious` and `AppendRecord` (once for the token, once for the artifact),
`IoError` (thrown by the audit writer, swallowed after it), `Crash`; and from
outside `Revoke`, `Damage`, `LoseEvent`, `TakeBaseline`. `written`, `kept`,
`raced`, `damaged` and `mended` are history variables.

Abstractions: the daily files of a trace are one sequence; the content of a
record is `intact`, `altered` or `rechained`; damage is one line lost, swapped
with the next, altered, chained elsewhere or stripped of its hash. A line that
no longer parses is skipped by the reader, which is the same as a lost one; a
record that fails its schema makes replay throw and is not modelled.

What the model shows about the code besides its properties: a stripped hash
makes the record pass (the run `authority_mutation`); a lost head or tail
leaves a trace that replays as valid, and so does a tail that was lost and
written over by a later append; a stripped record is passed over, and it hides
the break next to it as well. A diff against an eligible baseline sees lost
ends, but `replayDiff.ts` never asks whether the baseline was eligible, so
`NoDivergenceMeansSame` has to.

### GovernanceTrust

State: the trace and the bundle, manifest and envelope exported of it; the key
files; the entries of the trust manifest in their order; the clock; one run of
the signing script and one of the verifying script.

| Action | Code |
|---|---|
| `ExportTrace`, `ExportTraceManifest` | `export-trace.ts`, `export-trace-manifest.ts` |
| `GenerateKeypair`, `CreateTrustManifest` | `generate-governance-keypair-for-signer.ts`, `create-governance-trust-manifest.ts` |
| `SignRead`, `SignWrite` | `sign-trace-manifest.ts:6-59`, `61-90` |
| `VerifyPolicy`, `VerifyKey` | `governanceTrust.ts:81-260`, `262-323` |
| `TraceChanges`, `Tamper`, `RemoveKeypair`, `EditEntry`, `AddEntry`, `Tick` | the environment: operators and their editors |

Abstractions: a key pair is a number and a signature names its key and the
manifest it is over, so a signature cannot be forged and equal manifests have
equal signatures. The three files at the head of the verification are read as
one; the key file, which is read much later, is not. Dates are ticks.

What the model shows besides: the historical mode accepts a signature that was
made after the signer had been revoked, since a revocation carries no date
(the comment at `governanceTrust.ts:57-60` asks only for the signature's own
time). Creating the trust manifest anew lists every signer as trusted from now
on, which both forgets revocations and ends the acceptance of older signatures.
The default signer signs with another key file than the one the created trust
manifest names for it, so that both files have to be brought to agree by hand.

### Reports and EvidenceReports

`Reports` has no state: it defines the sections, the status and the claim
(`release_safe`, `admissible`, `ready_for_federation`) of each report as
functions of what the builder has found, and what each verifier refuses.

`EvidenceReports` state: the contents of the policy files, the state of the
authority log, the exported files in the order of modification, the exporting
process with the manifest it has hashed so far, and the index of the latest
reports. `ListFiles`, `HashFile`, `BeginVerify`, `VerifyFile` and `EndRound` are
one round of `addPolicyHashes` and `verifyPolicyHashes`, of which a federation
audit makes three; `WriteReport` writes the report, `WriteIndex` is
`export-latest-report-index.ts`, and `renderEvidenceIndex` is what the desktop's
Evidence Overview shows of it. `EditPolicy`, `EditAuthority`, `EditReport`,
`RemoveExport`, `ExportReplay` and `Die` are the environment.

Abstractions: texts, dates, identifiers and artifact references of a report are
one flag, `intact`. A log is sound, or has a record without hash, one with a hash
of another form, or a torn line. The diagnostics registry is a constant table,
whose section is always verified.

What the model shows besides: the snapshot gives a record without a hash one of
its own making, so a stripped log still verifies; its list of signers is always
empty, so no governance report is ever release safe; two warnings of the
federation audit are constant, so no audit is ever ready. The verifier of
governance reports accepts a claim raised by hand when only warnings stand
against it, and the replay section of that report is verified for any replay
input, an unsafe baseline included. The exporter of provenance reports does not
ask whether the diff belongs to the baseline. A federation audit names one
policy manifest although it has hashed three times. The desktop shows the index
without verifying it.

### TaskDrafts, UserRequests and TaskAuthoring

`TaskDrafts` and `UserRequests` have no state. A text is the set of the words in
it that the code looks for; synonyms are one word.

`TaskAuthoring` state: the open and the reviewed drafts, the queue, the draft
commands with the copy each holds, the handlers of clicks that wait for a
script, and the cards in the window.

| Action | Code |
|---|---|
| `CreateDraft` | `create-task-draft-json.ts`, `parseTaskDraft` |
| `LoadToEdit`, `WriteEdited` | `edit-task-draft.ts`, `editDraftField` |
| `LoadToConvert`, `SaveConverted`, `ArchiveDraft` | `convert-task-draft.ts:12-32` |
| `ClickTasks`, `ClickCard`, `ClickCreate`, `ClickExecute`, `ClickOther` | the listeners of `renderer.js` |
| `Act`, `ShowAction`, `ReadQueue`, `ShowQueue` | `main.cjs:20-66`, `runAction`, and the scripts they start |
| `Die` | the environment |

Abstractions: approving, cancelling and running are one step each, since their
own races are the subject of `TaskRunner`; the last step of a run, which
archives the task, is part of it. The execution of a planned request is one step with its
answer, since it only reads. All other views are one kind of cards.

What the model shows besides: an edit of the text does not change the policy
that was derived from it; a click that queues a planned request queues two; the
planner plans requests about large files and duplicates that the bridge refuses.
`main.cjs` starts several scripts (startup, diagnostics, audit, drafts, templates,
policies) from a directory `Pathwarden/` that the repository does not have, and
`renderGeneric` never calls four of the views that `renderer.js` defines.

## Runs

| Run | Bounds | Shows |
|---|---|---|
| `task_runner_race` | 1 task, 2 runners, 1 editor, 1 crash, 1 I/O error; locks expire and are reset at will | type invariant, consent, lock, archive and audit invariants |
| `task_runner_serial` | 3 tasks of different types, 2 runners, 1 editor, no overlap on a task, no fault | refinement of `TaskQueue` |
| `task_refusal` (violated) | 1 task, 1 runner, no fault | a refusal inside the lock is stored as a failure |
| `executor_race` | 2 executions of a three-action plan, 1 policy change, 1 I/O error, 1 crash | six invariants and the refinement of `PlanExecution` |
| `executor_checks` | 2 executions, seven odd requests, three execution policies, odd plans, 1 I/O error | executions end, whichever way they are refused |
| `due_runner_race` | 2 sweeps, a recurring and a dated task, 3 minutes, locks of 1 minute, 1 fault | exclusion, no second run without cause, thoroughness, lock ownership |
| `startup` | 1 startup workflow with its sweep, 1 sweep by hand, 1 task, 2 minutes, 1 fault | completion after the child; every process ends |
| `authority_log` | 2 grants on one trace, 2 damaged lines, 1 fault | replay, diff and evidence |
| `authority_mutation` (violated) | 1 grant, 1 damaged line | a record that lost its hash is accepted |
| `governance_trust` | 1 signer, 2 key pairs, 2 ticks, 3 exports, 1 edit, 2 entries, 1 new trust manifest | what an accepted signature means, when evidence is sound, when acceptance is lost |
| `evidence_reports` | 2 policy files (1 required) of 2 contents, 3 exported files, 2 edits | a verified policy section is a snapshot; verifiers agree with exporters; a verified index names the latest reports |
| `task_authoring` | 1 draft from one of 2 texts, 2 draft commands, 2 handlers, 3 clicks, 2 tasks, 1 edit or death | drafts become one task, risky tasks ask, the window at rest is current, the bridge follows the planner |

Why these bounds. Tasks do not share state, so one task shows every race on it;
two runners are the fewest that race for the lock, and an editor adds the
write-back race. A second fault adds no new kind of state that one fault and an
expiring lock do not reach, and the theorems hold for any number of each. Two
executions and a plan with a move, a copy and a delete are enough for one
execution to recreate what the other removed. The statuses that an operator may
type are limited to `running` and `completed`, the two that open and close most
transitions; the theorems allow all eight.

The clock of the due-task runs is bounded by `MaxTime`: three minutes let a lock
of one minute expire and be taken over, and let a recurring task with a period
of two minutes be due, pass and not be due. Faults are crashes and exceptions,
bounded together. Two grants append four records, enough for a line in the
middle to be lost, moved or stripped between two others; two damaged lines
are enough for one damage to cover another.

Two key pairs let a key be replaced, two entries let one stand before another,
and two ticks let a window end before or after a signature; the first edit
revokes, suspends, ends or tampers, and what a second would do to it is a
restored entry, which `CreateTrustManifest` also makes. Two policy files are the
fewest between whose readings an edit can come; two edits are needed to take a
content away and bring it back. Three exported files are a baseline, a diff and
a report built of them, or a report with an index before and after it. One
draft shows every race on it, as drafts share nothing; three clicks are
a listing, a decision on a card and a button that overtakes it. The texts are one whose
words point to different suggestions and a harmless one; `RiskyTasksAsk` and
`DraftBecomesTask` are proved for all texts.

Deadlock checking is off: when every process has ended, the system stops.

Fairness is assumed in `executor_checks` and `startup` only: weak fairness of
each process's own steps. A process is run by the operating system until it
ends. The only wait in either run is `spawnSync` of the startup workflow, which
is enabled when its child has ended. Crashes, errors, the clock, revocation,
expiry and resets are not fair.

The two violated runs are real: the code does what the counterexample shows,
and a document of the repository says otherwise (PROJECT.json, `findings`).
Three more such observations follow from the models and have no run of their own:

- two overlapping runners without any fault let a completed outcome be replaced by
  refused or failed, as `archiveTaskResult` (`taskStore.ts:80`) writes whatever is
  there (`tasks/history/README.md:5-10` wants the decision outcome preserved);
- a plan whose later action is refused has already performed the earlier ones
  (`commitExecutor.ts:160-173`; `docs/security/README.md:82` promises refusal
  "instead of partial execution"), which is why `PlanExecution` promises only
  that what was done is a journaled prefix;
- a mutation stays without journal entry when the append after it fails
  (`commitExecutor.ts:244`; `policy/invariants/invariants.json:43`).

## Proofs

The theorems hold for every set of tasks, runners, editors, executions, plans,
tokens and policies, and for every bound on the environment, under the named
assumptions of the modules only (types of the constants, and that the null
values are not values).

`TaskRunnerProofs`

- `TypeCorrect` needs `PhaseInv`, which ties the phase to the program counter
  (and so makes `ThrowTarget` land on a step of the right block).
- `ConsentCorrect` from `ConsentInv`: an open copy in anyone's hands, or an open
  file, means a person has consented. The invariant must speak of the copies,
  since they are written back later.
- `LockCorrect` and `OwnerCorrect` from `LockInv`: on an untainted task at most
  one runner is in the acquisition window or past it, and the lock on disk is
  its own.
- `LostCorrect` from `LostInv`: whoever is about to rename has stored a result.
- `AuditCorrect` from `AuditInv`: whoever is about to archive a verdict has
  audited it.

`TaskRunnerSerialProofs`

- `Implements` (`SerialSpec => TaskQueue!Spec` under the mapping) from `SerialInv`:
  at most one runner or editor works on a task (`Alone`); the copy that a runner
  decides on is the file, and what it will archive is refused of a closed gate or
  follows from a run (`Track`); a task still in the queue has been run only by the
  runner at work on it (`Unfinished`). The frame lemmas say once what a step
  leaves alone, so that each action has only its own runner and task to restore.
  Saving and writing back are `Decide`, entering the body is `Start`, the rename
  is `Close`; every other step stutters. Types and phases come from
  `TaskRunnerProofs`, since a serial step is a step of `TaskRunner`.

`CommitExecutorProofs`

- `ProgressInv` (with `TypeOK`) bounds the position in the plan at each step.
- `LedgerInv` says exactly which actions took effect and which are journaled at
  each step; `Refinement` (`Spec => PlanExecution!Spec` under the mapping) and
  `TruthCorrect` rest on it, the latter through `TruthInv`.
- `WithdrawalCorrect` from `LateInv`: between the check and the mutation of one
  action at most that one is late, and none after the next check.
- `BlockCorrect` from `BlockInv`: what is denied all along is not among the
  paths of an action past its guard.
- `OnceCorrect` from `GoneInv`: a source that nothing writes to stays gone.
- `AnswerCorrect` from `AnswerInv`.

`DueRunnerProofs`

- `TypeCorrect` needs `WorkInv` and `RoleInv`: a sweep past the head of its loop
  has a task at hand, whose copy is a record, and a program counter is one of
  the process's own program. The order in which tasks are treated has a
  first element by well-foundedness of the natural numbers.
- `StartupCorrect` from `StartInv`, with `ChildOf` injective: a child belongs to
  one workflow, so no other can start it anew.
- `ExclusionCorrect` from `LockInv`: while a lock is untainted, at most one
  process is in its acquisition window or inside, and while one is inside there
  is a lock on disk that has not expired.
- `OwnerCorrect` from `OwnerInv`, which also holds when the lock is tainted.
- `RunsCorrect` from `RunsInv`: as long as sweeps exclude each other, a task that
  is in the queue and in no sweep's body has been run no more often than it was
  broken off, and the tasks a sweep has yet to treat are still in the queue.
- `ThoroughCorrect` from `ThoroughInv`: what a sweep that holds the lock alone has
  started is at hand, with its result at the step that writes the window, or
  accounted for and no longer among the tasks to treat.

`AuthorityLogProofs`

- `ReplayCorrect` from `ChainInv`: in an undamaged, unraced trace each record
  carries its own hash and that of the one before, at most one grant is about to
  append, and it has read the last hash.
- `EvidenceCorrect` from `EvidenceInv`: a grant about to write its artifact has
  its token in the log, and one past its audit has its event.
- `EndsCorrect` and `DiffCorrect` rest on `OriginInv`: damage makes no hash, so each
  hash in the log, read by a writer or kept with a baseline is that of a record
  written. With the modelled hash, which is injective in content and predecessor,
  a record that passes the replay is one of those written.
- `EndsCorrect` also needs `EndsInv` (records are chained in the order written). A
  log that replays as valid links each record to its predecessor; by
  well-foundedness the positions follow each other, so it is a stretch.
- `DiffCorrect`: records that pass the replay rise in the order written, and two
  rising sequences with the same sets of hashes are the same.
- `TypeCorrect`.

`GovernanceTrustProofs`

- `TypeCorrect`; the first matching entry exists because a nonempty set of
  numbers has a least one (well-foundedness of the natural numbers).
- `AcceptedCorrect` from `Vouched`: every envelope on disk or in a script's hands
  is one that was signed, and a verification past its policy holds an entry that
  serves and covers its time.
- `EvidenceCorrect` from `Dated`: a manifest is signed after its export, and one
  exported of a bundle that verifies says of its hash what the replay says.
- `HistoryCorrect` (an action property) from `Dated` as well: an entry that served at
  the time of the signature still does when entries are added, revoked or ended:
  the historical mode accepts revoked entries, and an end is set to the present,
  which no signature already made lies after.

`EvidenceReportsProofs`

- `TypeCorrect` with `Rounded`, for reports of every status the builders derive.
- `SnapshotCorrect` from `Compared`, about the second reading: as long as no file got
  its hashed content back, a file that matches when it is read had that content
  when the reading began.
- `VerifiersCorrect` from `AllKept`: every exported file is what its builder made of
  some inputs, edited by hand; the rest is by cases over statuses.
- `IndexCorrect` from `IndexInv`: a reference of the index is the latest report, or
  lacks what its verifier asks for. A file of another kind that is the last of the
  directory (a baseline or a diff) has no date where a report has one.

`TaskAuthoringProofs`

- `TypeCorrect` with `Aimed`: a handler with a decision points to a task.
- `DraftCorrect` from `Numbered`, `Reviewed` and `Orderly`, who holds a draft: on an
  undisturbed draft at most one command works, and a task exists only past the save.
- `RiskyCorrect` from `PolicyKept` and `Asked`: the policy of a draft survives edits
  in every copy, and a risky task stays guarded in every record of the queue.
- `WindowCorrect` from `Watching`: the last reading is the queue, or some handler
  will read again.
- `BridgeCorrect` from `Answered`: an answer on show is the bridge's to the request
  it came with. Planner and bridge infer the same capability and extension from
  the same words, and a search counts by the same test as a summary.

Only model-checked: `EveryExecutionEnds` and `EveryProcessEnds`, since liveness under
fairness is out of the prover's reach, and the two violated properties, which the
code does not have. Every other property of the runs is a theorem.

## Plan

Done: the task layer with its lock, drafts and window; the executor; the
due-task runner; the authority log and its replay; governance trust; the
evidence reports; proofs of every module with state.

Open, in this order:

1. `CapabilityGrant` and `KernelValidation`: the order of the refusals of
   `validateCapabilityGrant`, `validateAction` and `validatePlan`, as operators
   checked against a declarative definition over bounded inputs. `Decide` of
   `AuthorityLog` then takes its verdict from `CapabilityGrant`.
2. A path tree in `CommitExecutor` in place of flat paths.

Later modules that share state with a present one are checked in its instances,
so that a run stays one question asked of the system.

## Not modelled

Wording, formatting and identifiers; the text rules of planner and draft parser
beyond the words that decide; cryptography; the validation of a proposed action
or plan by the kernel and the order of the refusals of a grant (in the plan);
the diagnostics registry and its runner, a table of commands and a loop that
spawns them; the views of the desktop other than the queue, an executed request
and the evidence index; `readCapabilityInventory`, which reads one file;
`undoExecutor.ts`, a stub. PROJECT.json names each component with its reason.
