--------------------------- MODULE TaskAuthoring ---------------------------
(***************************************************************************)
(* How tasks come to the queue and how a person decides about them: draft  *)
(* commands, each a process that loads a draft and writes files one by one *)
(* (scripts/dev/convert-task-draft.ts, edit-task-draft.ts), and the        *)
(* desktop window (apps/desktop), whose buttons start scripts and show     *)
(* their answers whenever they come. TaskRunner has the scripts of the     *)
(* task store step by step; here each of them is one step.                 *)
(***************************************************************************)
EXTENDS TaskDrafts, UserRequests

CONSTANTS Texts, EditStatus, EditFlags,   \* what people type
          Requests, Places,      \* what they ask the bridge, and what the path leads to
          Command, Handler,      \* the draft commands; the handlers of clicks at work
          MaxDrafts, MaxTasks, MaxClicks,
          MaxIncidents,          \* bounds, the last on edits and deaths of commands together
          NoFile

ASSUME TextsAssumption  == Texts \subseteq Text /\ EditStatus \subseteq Status /\ EditFlags \subseteq Flag
ASSUME RequestsAssumption == Requests \subseteq SUBSET RequestWord /\ Places \subseteq Place
ASSUME NoFileAssumption == NoFile \notin Draft \cup TaskRec
ASSUME BoundAssumption  == {MaxDrafts, MaxTasks, MaxClicks, MaxIncidents} \subseteq Nat

VARIABLES
  drafts, reviewed,   \* tasks/drafts/ and tasks/drafts/reviewed/
  queue,              \* tasks/queue/
  made, taken,        \* how many drafts and tasks have been created
  pc, cur, copy,      \* the draft commands
  handlers,           \* the click handlers of the window, each one at its await
  shown,              \* the cards in the window: the queue of some moment, an answer, or others
  clicks, incidents,   \* bounded counters
  \* History variables: they guard nothing and are read by properties only.
  typed,      \* what was typed when a draft was created
  source,     \* the draft of each task, 0 for a planned request
  disturbed,  \* drafts on which two commands overlapped or a command died
  consented, ran,   \* tasks a person approved; tasks whose body was entered
  foreign,    \* a draft command has changed the queue since the window's last reading
  readings    \* how often the window has read the queue

commands == <<pc, cur, copy>>
window   == <<handlers, shown>>
ghosts   == <<typed, source, disturbed, consented, ran, foreign, readings>>
counters == <<clicks, incidents>>
vars == <<drafts, reviewed, queue, made, taken, commands, window, counters, ghosts>>

Id     == 1 .. MaxDrafts
TaskId == 1 .. MaxTasks
Other  == [kind |-> "other"]
Queues == [TaskId -> TaskRec \cup {NoFile}]

Action == {"none", "create", "approve", "cancel", "run"}
Answer == [kind: {"answer"}, words: Requests, place: Places,
           result: [capability: Capability \cup {None}, ok: BOOLEAN, files: SUBSET Entry]]
Idle == [step |-> "idle", action |-> "none", target |-> 0, ended |-> TRUE, read |-> Other]

\* What a script has read of the queue, and a handler of a click.
Reading == [kind: {"tasks"}, list: Queues, at: Nat]
Waiting == [step: {"idle", "action", "view"}, action: Action, target: 0 .. MaxTasks,
            ended: BOOLEAN, read: Reading \cup {Other}]

TypeOK ==
  /\ drafts \in [Id -> Draft \cup {NoFile}] /\ reviewed \in [Id -> Draft \cup {NoFile}]
  /\ queue \in Queues /\ made \in 0 .. MaxDrafts /\ taken \in 0 .. MaxTasks
  /\ pc \in [Command -> {"idle", "edit", "convert", "archive"}]
  /\ cur \in [Command -> 0 .. MaxDrafts] /\ copy \in [Command -> Draft \cup {NoFile}]
  /\ handlers \in [Handler -> Waiting] /\ shown \in Reading \cup Answer \cup {Other}
  /\ clicks \in 0 .. MaxClicks /\ incidents \in 0 .. MaxIncidents
  /\ typed \in [Id -> Text] /\ source \in [TaskId -> 0 .. MaxDrafts]
  /\ disturbed \subseteq Id /\ consented \subseteq TaskId /\ ran \subseteq TaskId
  /\ foreign \in BOOLEAN /\ readings \in Nat

Init ==
  /\ drafts = [d \in Id |-> NoFile] /\ reviewed = [d \in Id |-> NoFile]
  /\ queue = [t \in TaskId |-> NoFile] /\ made = 0 /\ taken = 0
  /\ pc = [c \in Command |-> "idle"] /\ cur = [c \in Command |-> 0]
  /\ copy = [c \in Command |-> NoFile]
  /\ handlers = [h \in Handler |-> Idle] /\ shown = Other
  /\ clicks = 0 /\ incidents = 0
  /\ typed = [d \in Id |-> {}] /\ source = [t \in TaskId |-> 0]
  /\ disturbed = {} /\ consented = {} /\ ran = {} /\ foreign = FALSE /\ readings = 0

-----------------------------------------------------------------------------
(***************************************************************************)
(* The draft commands                                                      *)
(***************************************************************************)
\* create-task-draft; a draft may also be left from before drafts had a policy.
CreateDraft ==
  /\ made < MaxDrafts
  /\ made' = made + 1
  /\ \E text \in Texts, older \in BOOLEAN :
       /\ drafts' = [drafts EXCEPT ![made'] =
                       IF older THEN [parseTaskDraft(text) EXCEPT !.policy = NoPolicy]
                       ELSE parseTaskDraft(text)]
       /\ typed' = [typed EXCEPT ![made'] = text]
  /\ UNCHANGED <<reviewed, queue, taken, commands, window, counters, source, disturbed,
                 consented, ran, foreign, readings>>

\* Command c opens draft d, which others may have open.
LoadDraft(c, d, next) ==
  /\ pc[c] = "idle" /\ drafts[d] # NoFile
  /\ pc' = [pc EXCEPT ![c] = next] /\ cur' = [cur EXCEPT ![c] = d]
  /\ copy' = [copy EXCEPT ![c] = drafts[d]]
  /\ disturbed' = IF \E o \in Command : pc[o] # "idle" /\ cur[o] = d
                    THEN disturbed \cup {d} ELSE disturbed

Incident == incidents < MaxIncidents /\ incidents' = incidents + 1

LoadToEdit(c) ==
  /\ Incident
  /\ \E d \in Id : LoadDraft(c, d, "edit")
  /\ UNCHANGED <<drafts, reviewed, queue, made, taken, window, clicks, typed, source,
                 consented, ran, foreign, readings>>

CloseDraft(c) ==
  /\ pc' = [pc EXCEPT ![c] = "idle"] /\ cur' = [cur EXCEPT ![c] = 0]
  /\ copy' = [copy EXCEPT ![c] = NoFile]

\* updateTaskDraft writes the file, whether or not it is still there.
WriteEdited(c) ==
  /\ pc[c] = "edit"
  /\ \E e \in Edits(copy[c], Texts, EditStatus, EditFlags) : drafts' = [drafts EXCEPT ![cur[c]] = e]
  /\ CloseDraft(c)
  /\ UNCHANGED <<reviewed, queue, made, taken, window, counters, ghosts>>

LoadToConvert(c) ==
  /\ \E d \in Id :
       /\ LoadDraft(c, d, "convert")
       /\ Convertible(drafts[d])   \* a refused draft stays as it is
  /\ UNCHANGED <<drafts, reviewed, queue, made, taken, window, counters, typed, source,
                 consented, ran, foreign, readings>>

SaveConvertedBug(c) ==
  /\ pc[c] = "convert" /\ taken < MaxTasks
  /\ taken' = taken + 1
  /\ queue' = [queue EXCEPT ![taken'] = convertDraftToTask(copy[c])]
  /\ source' = [source EXCEPT ![taken'] = cur[c]]
  /\ CloseDraft(c)
  /\ foreign' = TRUE
  /\ UNCHANGED <<drafts, reviewed, made, window, counters, typed, disturbed, consented, ran,
                 readings>>

\* saveTask, with an identifier that is new.
SaveConverted(c) ==
  /\ pc[c] = "convert" /\ taken < MaxTasks
  /\ taken' = taken + 1
  /\ queue' = [queue EXCEPT ![taken'] = convertDraftToTask(copy[c])]
  /\ source' = [source EXCEPT ![taken'] = cur[c]]
  /\ pc' = [pc EXCEPT ![c] = "archive"]
  /\ foreign' = TRUE
  /\ UNCHANGED <<drafts, reviewed, made, cur, copy, window, counters, typed, disturbed,
                 consented, ran, readings>>

\* archiveTaskDraft moves the file, as it is by now, if there is one.
ArchiveDraft(c) ==
  /\ pc[c] = "archive"
  /\ IF drafts[cur[c]] = NoFile THEN UNCHANGED <<drafts, reviewed>>
     ELSE /\ reviewed' = [reviewed EXCEPT ![cur[c]] = drafts[cur[c]]]
          /\ drafts' = [drafts EXCEPT ![cur[c]] = NoFile]
  /\ CloseDraft(c)
  /\ UNCHANGED <<queue, made, taken, window, counters, ghosts>>

Die(c) ==
  /\ Incident
  /\ pc[c] # "idle"
  /\ disturbed' = disturbed \cup {cur[c]}
  /\ CloseDraft(c)
  /\ UNCHANGED <<drafts, reviewed, queue, made, taken, window, clicks, typed, source,
                 consented, ran, foreign, readings>>

-----------------------------------------------------------------------------
(***************************************************************************)
(* The window: runAction clears the cards, starts a script and shows its   *)
(* answer; after an action of the task view a second runAction shows the   *)
(* queue. Nothing tells an answer from one to an earlier click.            *)
(***************************************************************************)
Click == clicks < MaxClicks /\ clicks' = clicks + 1

Begin(action, target) ==
  [step |-> IF action = "none" THEN "view" ELSE "action",
   action |-> action, target |-> target, ended |-> FALSE, read |-> Other]

\* The Tasks button, and the three buttons on the card of a task.
ClickTasks(h) ==
  /\ Click /\ handlers[h].step = "idle"
  /\ handlers' = [handlers EXCEPT ![h] = Begin("none", 0)]
  /\ shown' = Other
  /\ UNCHANGED <<drafts, reviewed, queue, made, taken, commands, incidents, ghosts>>

ClickCard(h) ==
  /\ Click /\ handlers[h].step = "idle"
  /\ shown.kind = "tasks"
  /\ \E t \in TaskId, action \in {"approve", "cancel", "run"} :
       /\ shown.list[t] # NoFile
       /\ handlers' = [handlers EXCEPT ![h] = Begin(action, t)]
  /\ shown' = Other
  /\ UNCHANGED <<drafts, reviewed, queue, made, taken, commands, incidents, ghosts>>

\* The listener of the button that queues a planned request is registered
\* twice: one click starts two handlers.
ClickCreate ==
  /\ Click
  /\ \E g, h \in Handler :
       /\ g # h /\ handlers[g].step = "idle" /\ handlers[h].step = "idle"
       /\ handlers' = [handlers EXCEPT ![g] = Begin("create", 0), ![h] = Begin("create", 0)]
  /\ shown' = Other
  /\ UNCHANGED <<drafts, reviewed, queue, made, taken, commands, incidents, ghosts>>

\* The Clear button, and every view that is not the queue.
ClickOther ==
  /\ Click
  /\ shown # Other
  /\ shown' = Other
  /\ UNCHANGED <<drafts, reviewed, queue, made, taken, commands, handlers, incidents,
                 ghosts>>

\* The button that executes a request: click, script and answer in one step,
\* since the script only reads and its answer replaces whatever is shown.
ClickExecute ==
  /\ Click
  /\ \E words \in Requests, place \in Places :
       shown' = [kind |-> "answer", words |-> words, place |-> place,
                 result |-> executePlannedRequest(words, place)]
  /\ UNCHANGED <<drafts, reviewed, queue, made, taken, commands, handlers, incidents,
                 ghosts>>

PlannedRequest ==
  [status |-> "pending", approved |-> FALSE, requires_confirmation |-> TRUE, auto_run |-> FALSE]

approveTask(rec) ==
  [rec EXCEPT !.approved = TRUE,
              !.status = IF @ \in {"pending", "scheduled"} THEN "approved" ELSE @]

cancelTask(rec) == IF TransitionOk(rec.status, "cancelled") THEN SetStatus(rec, "cancelled") ELSE rec

\* The script of handler h does its work, or fails before it.
Create(h) ==
  /\ taken < MaxTasks
  /\ taken' = taken + 1
  /\ queue' = [queue EXCEPT ![taken'] = PlannedRequest]
  /\ UNCHANGED <<consented, ran>>

Decide(h) ==
  LET t == handlers[h].target IN
    /\ queue[t] # NoFile
    /\ queue' = [queue EXCEPT ![t] = IF handlers[h].action = "approve" THEN approveTask(@)
                                     ELSE cancelTask(@)]
    /\ consented' = IF handlers[h].action = "approve" THEN consented \cup {t} ELSE consented
    /\ UNCHANGED <<taken, ran>>

\* runTask: a cancelled task and an illegal transition leave the task where it
\* is; it is archived when it is refused for want of approval and when it ran.
Run(h) ==
  LET t == handlers[h].target IN
    /\ queue[t] # NoFile /\ queue[t].status # "cancelled"
    /\ IF Open(queue[t])
         THEN TransitionOk(queue[t].status, "running") /\ ran' = ran \cup {t}
         ELSE TransitionOk(queue[t].status, "refused") /\ UNCHANGED ran
    /\ queue' = [queue EXCEPT ![t] = NoFile]
    /\ UNCHANGED <<taken, consented>>

Script(h) ==
  CASE handlers[h].action = "create" -> Create(h)
    [] handlers[h].action \in {"approve", "cancel"} -> Decide(h)
    [] handlers[h].action = "run" -> Run(h)

Act(h) ==
  /\ handlers[h].action # "none" /\ ~handlers[h].ended
  /\ handlers' = [handlers EXCEPT ![h].ended = TRUE]
  /\ Script(h) \/ UNCHANGED <<queue, taken, consented, ran>>
  /\ UNCHANGED <<drafts, reviewed, made, commands, shown, counters, typed, source, disturbed,
                 foreign, readings>>

ShowActionBug(h) ==
  /\ handlers[h].step = "action"
  /\ handlers' = [handlers EXCEPT ![h].step = "view"]
  /\ shown' = Other
  /\ UNCHANGED <<drafts, reviewed, queue, made, taken, commands, counters, ghosts>>

\* The answer of the action is shown and the queue asked for at once.
ShowAction(h) ==
  /\ handlers[h].step = "action" /\ handlers[h].ended
  /\ handlers' = [handlers EXCEPT ![h] = Begin("none", 0)]
  /\ shown' = Other
  /\ UNCHANGED <<drafts, reviewed, queue, made, taken, commands, counters, ghosts>>

\* get-tasks-json
ReadQueue(h) ==
  /\ handlers[h].step = "view" /\ handlers[h].read = Other
  /\ readings' = readings + 1
  /\ handlers' = [handlers EXCEPT ![h].read = [kind |-> "tasks", list |-> queue, at |-> readings']]
  /\ foreign' = FALSE
  /\ UNCHANGED <<drafts, reviewed, queue, made, taken, commands, shown, counters, typed, source,
                 disturbed, consented, ran>>

ShowQueue(h) ==
  /\ handlers[h].step = "view" /\ handlers[h].read # Other
  /\ shown' = handlers[h].read
  /\ handlers' = [handlers EXCEPT ![h] = Idle]
  /\ UNCHANGED <<drafts, reviewed, queue, made, taken, commands, counters, ghosts>>

Next ==
  \/ CreateDraft
  \/ \E c \in Command : \/ LoadToEdit(c) \/ WriteEdited(c)
                        \/ LoadToConvert(c) \/ SaveConverted(c) \/ ArchiveDraft(c)
                        \/ Die(c)
  \/ ClickCreate \/ ClickOther \/ ClickExecute
  \/ \E h \in Handler : \/ ClickTasks(h) \/ ClickCard(h)
                        \/ Act(h) \/ ShowAction(h) \/ ReadQueue(h) \/ ShowQueue(h)

Spec == Init /\ [][Next]_vars

-----------------------------------------------------------------------------
(***************************************************************************)
(* Properties                                                              *)
(***************************************************************************)
TasksOf(d) == {t \in TaskId : source[t] = d}

\* A draft among the reviewed ones has a task. Unless two commands overlapped
\* on it or one of them died, it has no second task, and while it lies open and
\* no command has it, none at all (convert-task-draft.ts:12-32,
\* edit-task-draft.ts:13-22, taskDraftStore.ts:44-51).
DraftBecomesTask ==
  \A d \in Id :
    /\ reviewed[d] # NoFile => TasksOf(d) # {}
    /\ d \notin disturbed =>
         /\ Cardinality(TasksOf(d)) <= 1
         /\ drafts[d] # NoFile /\ (\A c \in Command : cur[c] # d) => TasksOf(d) = {}

\* A task whose draft was typed with a filesystem word or a system path runs
\* only after a person has approved the task itself, whatever the parser
\* suggested and however the draft was edited (taskDraftConverter.ts:47-60).
RiskyTasksAsk ==
  \A t \in ran : source[t] # 0 /\ MustConfirm(buildDraftPolicy(typed[source[t]])) => t \in consented

\* When every click has been answered and the window shows the queue, as the
\* last of its scripts has read it, the queue is the one on disk, but for what
\* draft commands have added since. An older answer may hide it, and only that
\* (renderer.js:138-163, 687-708, 916-960).
SettledViewIsCurrent ==
  /\ \A h \in Handler : handlers[h].step = "idle"
  /\ shown.kind = "tasks" /\ ~foreign
  => shown.at < readings \/ shown.list = queue

\* The bridge infers capability, path and extension on its own. What it has run
\* is what the planner shows for the same request, it runs nothing where the
\* planner shows nothing, it succeeds only on a directory that the policy
\* allows, and a search for an extension finds as many files there as the
\* summary counts of it (plan-user-request-json.ts:17-51,
\* execute-planned-request-json.ts:57-102, fsSearch.ts:61-83, fsSummarize.ts:43-54).
BridgeFollowsPlanner ==
  shown.kind = "answer" =>
    LET result  == shown.result
        counted == summarizeDirectory(shown.place)
        ext     == inferExtension(shown.words)
    IN /\ result.capability # None => result.capability = planUserRequest(shown.words)
       /\ result.ok => result.capability # None /\ shown.place.allowed
                       /\ shown.place.kind = "directory"
       /\ result.capability = "search" =>
            Cardinality(result.files) =
              IF ext = AnyExtension THEN counted.count
              ELSE IF ext \in DOMAIN counted.breakdown THEN counted.breakdown[ext] ELSE 0
=============================================================================
