------------------------ MODULE TaskAuthoringProofs ------------------------
(***************************************************************************)
(* Proofs about TaskAuthoring for any texts, any number of drafts, tasks,  *)
(* commands and handlers, and any number of edits, clicks and deaths.      *)
(***************************************************************************)
EXTENDS TaskAuthoring, TLAPS, FiniteSetTheorems

-----------------------------------------------------------------------------
(***************************************************************************)
(* Drafts                                                                  *)
(***************************************************************************)
\* The policy of a draft is a policy, whatever its text (taskDraftParser.ts:49-67).
LEMMA PolicyType ==
  ASSUME NEW text \in Text
  PROVE  buildDraftPolicy(text) \in Policy
<1>1. detectDraftIntent(text) \in Intent
  BY DEF detectDraftIntent, Intent, FilesystemWord
<1>2. ASSUME NEW intent PROVE resolveDraftRisk(intent, text) \in Risk
  BY DEF resolveDraftRisk, Risk
<1> QED BY <1>1, <1>2 DEF buildDraftPolicy, Policy, isFilesystemIntent

\* parseTaskDraft makes a draft, with or without its policy.
LEMMA ParseType ==
  ASSUME NEW text \in Text
  PROVE  /\ parseTaskDraft(text) \in Draft
         /\ [parseTaskDraft(text) EXCEPT !.policy = NoPolicy] \in Draft
<1>1. suggestedTask(text) \in TaskRec
  BY DEF suggestedTask, TaskRec, Status
<1> QED BY <1>1, PolicyType DEF parseTaskDraft, Draft

\* An edit leaves a draft with its policy (taskDraftEditor.ts:4-44).
LEMMA EditType ==
  ASSUME NEW d \in Draft, NEW e \in Edits(d, Texts, EditStatus, EditFlags)
  PROVE  e \in Draft /\ e.policy = d.policy
<1>1. CASE \E t \in Texts : e = [d EXCEPT !.raw_input = t]
  BY <1>1, TextsAssumption DEF Draft
<1>2. CASE \E s \in EditStatus : e = [d EXCEPT !.suggested.status = s]
  BY <1>2, TextsAssumption DEF Draft, TaskRec
<1>3. CASE \E f \in EditFlags, b \in BOOLEAN : e = [d EXCEPT !.suggested[f] = b]
  <2>1. PICK f \in Flag, b \in BOOLEAN : e = [d EXCEPT !.suggested = [@ EXCEPT ![f] = b]]
    BY <1>3, TextsAssumption
  <2>2. [d.suggested EXCEPT ![f] = b] \in TaskRec
    BY <2>1 DEF Draft, TaskRec, Flag
  <2> QED BY <2>1, <2>2 DEF Draft
<1> QED BY <1>1, <1>2, <1>3 DEF Edits

\* The converted task of a risky policy asks, and none is approved
\* (taskDraftConverter.ts:50-60).
LEMMA ConvertFacts ==
  ASSUME NEW d \in Draft
  PROVE  /\ convertDraftToTask(d) \in TaskRec
         /\ ~convertDraftToTask(d).approved
         /\ MustConfirm(d.policy) => convertDraftToTask(d).requires_confirmation
<1>1. d.suggested \in TaskRec
  BY DEF Draft
<1>2. MustConfirm(d.policy) \in BOOLEAN
  BY DEF MustConfirm, isFilesystemIntent
<1> QED BY <1>1, <1>2 DEF convertDraftToTask, TaskRec

-----------------------------------------------------------------------------
(***************************************************************************)
(* Types                                                                   *)
(***************************************************************************)
LEMMA Bounds ==
  /\ MaxDrafts \in Nat /\ MaxTasks \in Nat /\ MaxClicks \in Nat /\ MaxIncidents \in Nat
  /\ NoFile \notin Draft /\ NoFile \notin TaskRec
BY BoundAssumption, NoFileAssumption

\* What the window's handlers are made of.
LEMMA HandlerTypes ==
  /\ Idle \in Waiting
  /\ \A a \in Action, t \in 0 .. MaxTasks : Begin(a, t) \in Waiting
BY Bounds DEF Idle, Begin, Waiting, Action

\* The queue's scripts keep task records task records.
LEMMA RecordTypes ==
  ASSUME NEW rec \in TaskRec
  PROVE  /\ approveTask(rec) \in TaskRec /\ cancelTask(rec) \in TaskRec
         /\ approveTask(rec).requires_confirmation = rec.requires_confirmation
         /\ cancelTask(rec).requires_confirmation = rec.requires_confirmation
         /\ cancelTask(rec).approved = rec.approved
BY DEF approveTask, cancelTask, SetStatus, TaskRec, Status

\* A command at work has a draft, and the buttons of a card aim at its task.
Aimed ==
  /\ \A c \in Command : IF pc[c] = "idle" THEN cur[c] = 0 ELSE cur[c] \in Id /\ copy[c] \in Draft
  /\ \A h \in Handler :
       handlers[h].action \in {"approve", "cancel", "run"} => handlers[h].target \in TaskId

LEMMA ScriptTypes ==
  ASSUME TypeOK, Aimed, NEW h \in Handler, handlers[h].action # "none", Script(h)
  PROVE  /\ queue' \in Queues /\ taken' \in 0 .. MaxTasks
         /\ consented' \subseteq TaskId /\ ran' \subseteq TaskId
<1>0. handlers[h] \in Waiting /\ queue \in Queues
  BY DEF TypeOK
<1>1. handlers[h].action \in {"create", "approve", "cancel", "run"} /\ handlers[h].target \in 0 .. MaxTasks
  BY <1>0 DEF Waiting, Action
<1>2. CASE handlers[h].action = "create"
  <2>1. Create(h)
    BY <1>2 DEF Script
  <2>2. PlannedRequest \in TaskRec
    BY DEF PlannedRequest, TaskRec, Status
  <2> QED BY <2>1, <2>2, Bounds DEF Create, TypeOK, Queues, TaskId
<1>3. CASE handlers[h].action \in {"approve", "cancel"}
  <2>1. Decide(h)
    BY <1>3 DEF Script
  <2>2. handlers[h].target \in TaskId
    BY <1>3 DEF Aimed
  <2>3. queue[handlers[h].target] \in TaskRec
    BY <2>1, <2>2, <1>0 DEF Decide, Queues
  <2>4. queue' \in Queues
    BY <2>1, <2>2, <2>3, <1>0, RecordTypes DEF Decide, Queues
  <2> QED BY <2>1, <2>2, <2>4 DEF Decide, TypeOK
<1>4. CASE handlers[h].action = "run"
  <2>1. Run(h)
    BY <1>4 DEF Script
  <2>2. handlers[h].target \in TaskId
    BY <1>4 DEF Aimed
  <2> QED BY <2>1, <2>2, <1>0 DEF Run, TypeOK, Queues
<1> QED BY <1>1, <1>2, <1>3, <1>4
\* Types and aims are inductive.
LEMMA TypeInit == Init => TypeOK /\ Aimed
<1> SUFFICES ASSUME Init PROVE TypeOK /\ Aimed
  OBVIOUS
<1>1. handlers \in [Handler -> Waiting] /\ \A h \in Handler : handlers[h].action = "none"
  BY HandlerTypes DEF Init, Idle
<1>2. typed \in [Id -> Text] /\ queue \in Queues
  BY DEF Init, Text, Queues
<1>3. Aimed
  BY <1>1 DEF Init, Aimed
<1>4. source \in [TaskId -> 0 .. MaxDrafts] /\ cur \in [Command -> 0 .. MaxDrafts]
  BY Bounds DEF Init
<1>5. /\ drafts \in [Id -> Draft \cup {NoFile}] /\ reviewed \in [Id -> Draft \cup {NoFile}]
      /\ copy \in [Command -> Draft \cup {NoFile}]
      /\ pc \in [Command -> {"idle", "edit", "convert", "archive"}]
  BY DEF Init
<1>6. /\ made \in 0 .. MaxDrafts /\ taken \in 0 .. MaxTasks
      /\ clicks \in 0 .. MaxClicks /\ incidents \in 0 .. MaxIncidents
      /\ readings \in Nat
  BY Bounds DEF Init
<1>7. /\ foreign \in BOOLEAN /\ disturbed \subseteq Id /\ consented \subseteq TaskId /\ ran \subseteq TaskId
      /\ shown \in Reading \cup Answer \cup {Other}
  BY DEF Init
<1>8. TypeOK
  BY <1>1, <1>2, <1>4, <1>5, <1>6, <1>7 DEF TypeOK
<1> QED BY <1>3, <1>8

\* The bridge lists files of the place only.
LEMMA AnswerType ==
  ASSUME NEW words \in Requests, NEW place \in Places
  PROVE  executePlannedRequest(words, place)
           \in [capability: Capability \cup {None}, ok: BOOLEAN, files: SUBSET Entry]
<1> DEFINE capability == IF inferPath(words) THEN inferCapability(words) ELSE None
<1>1. capability \in Capability \cup {None}
  BY DEF inferCapability, Capability
<1>2. place.files \subseteq Entry /\ place.allowed \in BOOLEAN
  BY RequestsAssumption DEF Place
<1>3. inspectDirectory(place) \in [ok: BOOLEAN, files: SUBSET Entry]
  BY <1>2 DEF inspectDirectory
<1>4. searchDirectory(place, inferExtension(words), 0) \in [ok: BOOLEAN, files: SUBSET Entry]
  BY <1>3 DEF searchDirectory
<1>5. summarizeDirectory(place).ok \in BOOLEAN
  BY <1>3 DEF summarizeDirectory
<1> HIDE DEF capability
<1> QED BY <1>1, <1>3, <1>4, <1>5 DEF executePlannedRequest, NoFiles, capability

\* A step of the draft commands.
LEMMA CommandTypeStep ==
  ASSUME TypeOK, Aimed, NEW c \in Command,
         LoadToEdit(c) \/ WriteEdited(c) \/ LoadToConvert(c) \/ SaveConverted(c)
           \/ ArchiveDraft(c) \/ Die(c)
  PROVE  TypeOK' /\ Aimed'
<1> USE Bounds DEF Id, TaskId
<1>0. pc[c] # "idle" => cur[c] \in Id /\ copy[c] \in Draft
  BY DEF Aimed
<1>2. ASSUME LoadToEdit(c) PROVE TypeOK' /\ Aimed'
  BY <1>2 DEF LoadToEdit, LoadDraft, Incident, TypeOK, Aimed, window
<1>3. ASSUME WriteEdited(c) PROVE TypeOK' /\ Aimed'
  <2>1. PICK e \in Edits(copy[c], Texts, EditStatus, EditFlags) :
          drafts' = [drafts EXCEPT ![cur[c]] = e]
    BY <1>3 DEF WriteEdited
  <2>2. e \in Draft
    BY <1>0, <1>3, EditType DEF WriteEdited
  <2> QED BY <1>3, <2>1, <2>2 DEF WriteEdited, CloseDraft, TypeOK, Aimed, window, counters, ghosts
<1>4. ASSUME LoadToConvert(c) PROVE TypeOK' /\ Aimed'
  BY <1>4 DEF LoadToConvert, LoadDraft, TypeOK, Aimed, window, counters
<1>5. ASSUME SaveConverted(c) PROVE TypeOK' /\ Aimed'
  <2>1. taken' \in TaskId /\ convertDraftToTask(copy[c]) \in TaskRec
    BY <1>0, <1>5, ConvertFacts DEF SaveConverted, TypeOK
  <2>2. queue' \in Queues
    BY <1>5, <2>1 DEF SaveConverted, TypeOK, Queues
  <2> QED BY <1>0, <1>5, <2>1, <2>2 DEF SaveConverted, TypeOK, Aimed, window, counters
<1>6. ASSUME ArchiveDraft(c) PROVE TypeOK' /\ Aimed'
  <2>1. drafts' \in [Id -> Draft \cup {NoFile}] /\ reviewed' \in [Id -> Draft \cup {NoFile}]
    BY <1>0, <1>6 DEF ArchiveDraft, TypeOK
  <2>2. /\ pc' \in [Command -> {"idle", "edit", "convert", "archive"}]
        /\ cur' \in [Command -> 0 .. MaxDrafts] /\ copy' \in [Command -> Draft \cup {NoFile}]
        /\ Aimed'
    BY <1>6 DEF ArchiveDraft, CloseDraft, TypeOK, Aimed, window
  <2> QED BY <1>6, <2>1, <2>2 DEF ArchiveDraft, TypeOK, window, counters, ghosts
<1>7. ASSUME Die(c) PROVE TypeOK' /\ Aimed'
  <2>1. /\ pc' \in [Command -> {"idle", "edit", "convert", "archive"}]
        /\ cur' \in [Command -> 0 .. MaxDrafts] /\ copy' \in [Command -> Draft \cup {NoFile}]
        /\ Aimed'
    BY <1>7 DEF Die, CloseDraft, TypeOK, Aimed, window
  <2>2. disturbed' \subseteq 1 .. MaxDrafts
    BY <1>0, <1>7 DEF Die, TypeOK
  <2>3. incidents' \in 0 .. MaxIncidents
    BY <1>7 DEF Die, Incident, TypeOK
  <2> QED BY <1>7, <2>1, <2>2, <2>3 DEF Die, TypeOK, window
<1> QED BY <1>2, <1>3, <1>4, <1>5, <1>6, <1>7

\* A step of a handler of the window.
LEMMA WindowTypeStep ==
  ASSUME TypeOK, Aimed, NEW h \in Handler,
         ClickTasks(h) \/ ClickCard(h) \/ Act(h) \/ ShowAction(h) \/ ReadQueue(h) \/ ShowQueue(h)
  PROVE  TypeOK' /\ Aimed'
<1> USE Bounds, HandlerTypes DEF commands, counters
<1>0. handlers[h] \in Waiting /\ handlers \in [Handler -> Waiting]
  BY DEF TypeOK
<1>1. \A t \in 0 .. MaxTasks, a \in Action : Begin(a, t).action = a /\ Begin(a, t).target = t
  BY DEF Begin
<1>2. ASSUME ClickTasks(h) PROVE TypeOK' /\ Aimed'
  <2>1. Begin("none", 0) \in Waiting
    BY DEF Action
  <2> QED BY <1>2, <2>1 DEF ClickTasks, Click, TypeOK, Aimed, Begin, ghosts
<1>3. ASSUME ClickCard(h) PROVE TypeOK' /\ Aimed'
  <2>1. PICK t \in TaskId, action \in {"approve", "cancel", "run"} :
          handlers' = [handlers EXCEPT ![h] = Begin(action, t)]
    BY <1>3 DEF ClickCard
  <2>2. Begin(action, t) \in Waiting /\ Begin(action, t).target = t
    BY <1>1 DEF Action, TaskId
  <2> QED BY <1>3, <2>1, <2>2 DEF ClickCard, Click, TypeOK, Aimed, ghosts
<1>4. ASSUME Act(h) PROVE TypeOK' /\ Aimed'
  <2>1. /\ queue' \in Queues /\ taken' \in 0 .. MaxTasks
        /\ consented' \subseteq TaskId /\ ran' \subseteq TaskId
    BY <1>4, ScriptTypes DEF Act, TypeOK
  <2>2. handlers' \in [Handler -> Waiting]
        /\ \A g \in Handler : handlers'[g].action = handlers[g].action
                             /\ handlers'[g].target = handlers[g].target
    BY <1>0, <1>4 DEF Act, Waiting
  <2> QED BY <1>4, <2>1, <2>2 DEF Act, TypeOK, Aimed
<1>5. ASSUME ShowAction(h) PROVE TypeOK' /\ Aimed'
  <2>1. Begin("none", 0) \in Waiting
    BY DEF Action
  <2> QED BY <1>5, <2>1 DEF ShowAction, TypeOK, Aimed, Begin, ghosts
<1>6. ASSUME ReadQueue(h) PROVE TypeOK' /\ Aimed'
  <2>1. [kind |-> "tasks", list |-> queue, at |-> readings'] \in Reading /\ readings' \in Nat
    BY <1>6 DEF ReadQueue, Reading, TypeOK
  <2>2. handlers' \in [Handler -> Waiting]
        /\ \A g \in Handler : handlers'[g].action = handlers[g].action
                             /\ handlers'[g].target = handlers[g].target
    BY <1>0, <1>6, <2>1 DEF ReadQueue, Waiting
  <2> QED BY <1>6, <2>1, <2>2 DEF ReadQueue, TypeOK, Aimed
<1>7. ASSUME ShowQueue(h) PROVE TypeOK' /\ Aimed'
  <2>1. shown' \in Reading
    BY <1>0, <1>7 DEF ShowQueue, Waiting
  <2> QED BY <1>7, <2>1 DEF ShowQueue, TypeOK, Aimed, Idle, ghosts
<1> QED BY <1>2, <1>3, <1>4, <1>5, <1>6, <1>7

LEMMA TypeStep ==
  ASSUME TypeOK, Aimed, [Next]_vars
  PROVE  TypeOK' /\ Aimed'
<1>1. CASE CreateDraft
  <2>1. PICK text \in Texts, older \in BOOLEAN :
          /\ drafts' = [drafts EXCEPT ![made'] =
                          IF older THEN [parseTaskDraft(text) EXCEPT !.policy = NoPolicy]
                          ELSE parseTaskDraft(text)]
          /\ typed' = [typed EXCEPT ![made'] = text]
    BY <1>1 DEF CreateDraft
  <2>2. text \in Text
    BY TextsAssumption
  <2>3. made' \in 1 .. MaxDrafts
    BY <1>1, Bounds DEF CreateDraft, TypeOK
  <2>4. drafts' \in [Id -> Draft \cup {NoFile}] /\ typed' \in [Id -> Text]
    BY <2>1, <2>2, <2>3, ParseType DEF TypeOK, Id
  <2> QED BY <1>1, <2>3, <2>4, Bounds DEF CreateDraft, TypeOK, Aimed, commands, window, counters
<1>2. CASE ClickCreate
  <2>1. PICK g \in Handler, h \in Handler :
          handlers' = [handlers EXCEPT ![g] = Begin("create", 0), ![h] = Begin("create", 0)]
    BY <1>2 DEF ClickCreate
  <2>2. Begin("create", 0) \in Waiting /\ Begin("create", 0).action = "create"
    BY HandlerTypes, Bounds DEF Action, Begin
  <2> QED BY <1>2, <2>1, <2>2, Bounds
          DEF ClickCreate, Click, TypeOK, Aimed, commands, ghosts
<1>3. CASE ClickOther
  BY <1>3, Bounds DEF ClickOther, Click, TypeOK, Aimed, commands, ghosts
<1>4. CASE ClickExecute
  <2>1. shown' \in Answer
    BY <1>4, AnswerType DEF ClickExecute, Answer
  <2> QED BY <1>4, <2>1, Bounds DEF ClickExecute, Click, TypeOK, Aimed, commands, ghosts
<1>5. CASE UNCHANGED vars
  BY <1>5 DEF vars, TypeOK, Aimed, commands, window, counters, ghosts
<1> QED BY <1>1, <1>2, <1>3, <1>4, <1>5, CommandTypeStep, WindowTypeStep DEF Next

\* The drafts, the queue, the commands and the window keep their types for any
\* number of them.
THEOREM TypeCorrect == Spec => []TypeOK
<1> QED BY TypeInit, TypeStep, PTL DEF Spec

-----------------------------------------------------------------------------
(***************************************************************************)
(* Drafts, tasks and their numbers                                         *)
(***************************************************************************)
\* What has not been created yet is nowhere.
Numbered ==
  /\ \A d \in Id : drafts[d] # NoFile \/ reviewed[d] # NoFile => d <= made
  /\ \A c \in Command : cur[c] <= made
  /\ \A t \in TaskId : /\ source[t] <= made
                       /\ t > taken => queue[t] = NoFile /\ source[t] = 0 /\ t \notin ran

\* A draft and the copies of it have the policy of the text first typed, or none.
PolicyOf(d) == buildDraftPolicy(typed[d])
PolicyKept ==
  /\ \A d \in Id : drafts[d] # NoFile => drafts[d].policy \in {NoPolicy, PolicyOf(d)}
  /\ \A c \in Command :
       /\ pc[c] # "idle" => copy[c].policy \in {NoPolicy, PolicyOf(cur[c])}
       /\ pc[c] = "convert" => copy[c].policy # NoPolicy

\* A task of a risky draft asks until it is approved.
Risky(t) == source[t] # 0 /\ MustConfirm(PolicyOf(source[t]))
Asked ==
  \A t \in TaskId : Risky(t) =>
    /\ t \in ran => t \in consented
    /\ queue[t] # NoFile => /\ queue[t].requires_confirmation
                            /\ queue[t].approved => t \in consented

\* The scripts of the queue keep numbers and tasks that ask.
LEMMA ScriptAsked ==
  ASSUME TypeOK, Aimed, Numbered, Asked, NEW h \in Handler, handlers[h].action # "none",
         Script(h), UNCHANGED <<drafts, reviewed, made, cur, source, typed>>
  PROVE  Numbered' /\ Asked'
<1>1. handlers[h].action \in {"create", "approve", "cancel", "run"}
  BY DEF TypeOK, Waiting, Action
<1>2. CASE handlers[h].action = "create"
  <2>1. /\ taken' = taken + 1 /\ taken \in Nat /\ taken' \in TaskId
        /\ queue' = [queue EXCEPT ![taken'] = PlannedRequest]
        /\ UNCHANGED <<consented, ran>>
    BY <1>2, Bounds DEF Script, Create, TypeOK, TaskId
  <2>2. source[taken'] = 0
    BY <2>1, Bounds DEF Numbered, TaskId
  <2>3. \A t \in TaskId \ {taken'} : queue'[t] = queue[t]
    BY <2>1 DEF TypeOK, Queues
  <2>4. Asked'
    BY <2>1, <2>2, <2>3 DEF Asked, Risky, PolicyOf
  <2>5. Numbered'
    BY <2>1, <2>3, Bounds DEF Numbered, TaskId
  <2> QED BY <2>4, <2>5
<1>3. CASE handlers[h].action \in {"approve", "cancel"}
  <2>1. Decide(h) /\ handlers[h].target \in TaskId
    BY <1>3 DEF Script, Aimed
  <2> DEFINE t == handlers[h].target
  <2>2. queue[t] \in TaskRec
    BY <2>1 DEF Decide, TypeOK, Queues
  <2>3. /\ queue' \in Queues
        /\ queue'[t].requires_confirmation = queue[t].requires_confirmation
        /\ queue'[t].approved => queue[t].approved \/ t \in consented'
        /\ consented \subseteq consented'
        /\ \A u \in TaskId \ {t} : queue'[u] = queue[u]
    <3>1. queue' = [queue EXCEPT ![t] = IF handlers[h].action = "approve" THEN approveTask(queue[t])
                                        ELSE cancelTask(queue[t])]
          /\ consented' = IF handlers[h].action = "approve" THEN consented \cup {t} ELSE consented
      BY <2>1 DEF Decide
    <3>2. queue \in Queues /\ DOMAIN queue = TaskId
      BY DEF TypeOK, Queues
    <3> HIDE DEF t
    <3>3. CASE handlers[h].action = "approve"
      BY <2>1, <2>2, <3>1, <3>2, <3>3, RecordTypes DEF Queues, t
    <3>4. CASE handlers[h].action # "approve"
      BY <2>1, <2>2, <3>1, <3>2, <3>4, RecordTypes DEF Queues, t
    <3> QED BY <3>3, <3>4
  <2>4. Asked'
    BY <2>1, <2>2, <2>3, Bounds DEF Decide, Asked, Risky, PolicyOf
  <2>5. Numbered'
    BY <2>1, <2>3 DEF Decide, Numbered
  <2> QED BY <2>4, <2>5
<1>4. CASE handlers[h].action = "run"
  <2>1. Run(h) /\ handlers[h].target \in TaskId
    BY <1>4 DEF Script, Aimed
  <2>2. \A u \in ran' : u \in ran \/ (u = handlers[h].target /\ Open(queue[u]))
    BY <2>1 DEF Run
  <2> QED BY <2>1, <2>2 DEF Run, Numbered, Asked, Risky, PolicyOf, Open, TypeOK, Queues
<1> QED BY <1>1, <1>2, <1>3, <1>4

LEMMA AskedStep ==
  ASSUME TypeOK, Aimed, Numbered, PolicyKept, Asked, [Next]_vars
  PROVE  Numbered' /\ PolicyKept' /\ Asked'
<1> USE Bounds DEF Id, TaskId
<1>1. CASE CreateDraft
  <2>1. PICK text \in Texts, older \in BOOLEAN :
          /\ drafts' = [drafts EXCEPT ![made'] =
                          IF older THEN [parseTaskDraft(text) EXCEPT !.policy = NoPolicy]
                          ELSE parseTaskDraft(text)]
          /\ typed' = [typed EXCEPT ![made'] = text]
    BY <1>1 DEF CreateDraft
  <2>2. made' = made + 1 /\ made' \in Id /\ made \in Nat
    BY <1>1 DEF CreateDraft, TypeOK
  <2>3. drafts'[made'].policy \in {NoPolicy, buildDraftPolicy(text)}
    BY <2>1, <2>2 DEF parseTaskDraft, TypeOK
  <2>4. \A d \in Id : d <= made => drafts'[d] = drafts[d] /\ typed'[d] = typed[d]
    BY <2>1, <2>2 DEF TypeOK
  <2>5. \A d \in Id : drafts'[d] # NoFile => d <= made'
    BY <2>1, <2>2 DEF TypeOK, Numbered
  <2>6. Numbered'
    BY <1>1, <2>2, <2>5 DEF CreateDraft, Numbered, TypeOK, commands
  <2>7. PolicyKept'
    BY <1>1, <2>1, <2>2, <2>3, <2>4, <2>5 DEF CreateDraft, PolicyKept, PolicyOf, Numbered, Aimed, TypeOK, commands
  <2>8. Asked'
    BY <1>1, <2>2, <2>4 DEF CreateDraft, Asked, Risky, PolicyOf, Numbered, TypeOK
  <2> QED BY <2>6, <2>7, <2>8
<1>2. ASSUME NEW c \in Command, LoadToEdit(c) PROVE Numbered' /\ PolicyKept' /\ Asked'
  BY <1>2 DEF LoadToEdit, LoadDraft, Numbered, PolicyKept, PolicyOf, Asked, Risky, TypeOK
<1>3. ASSUME NEW c \in Command, WriteEdited(c) PROVE Numbered' /\ PolicyKept' /\ Asked'
  <2>1. PICK e \in Edits(copy[c], Texts, EditStatus, EditFlags) :
          drafts' = [drafts EXCEPT ![cur[c]] = e]
    BY <1>3 DEF WriteEdited
  <2>2. copy[c] \in Draft /\ cur[c] \in Id
    BY <1>3 DEF WriteEdited, Aimed
  <2>3. e.policy = copy[c].policy
    BY <2>2, EditType
  <2>4. Numbered' /\ Asked'
    BY <1>3, <2>1, <2>2 DEF WriteEdited, CloseDraft, Numbered, Asked, Risky, PolicyOf, TypeOK, ghosts
  <2>5. copy[c].policy \in {NoPolicy, PolicyOf(cur[c])}
    BY <1>3 DEF WriteEdited, PolicyKept
  <2>6. \A d \in Id : drafts'[d] = IF d = cur[c] THEN e ELSE drafts[d]
    BY <2>1, <2>2 DEF TypeOK
  <2>7. \A b \in Command \ {c} : pc'[b] = pc[b] /\ cur'[b] = cur[b] /\ copy'[b] = copy[b]
    BY <1>3 DEF WriteEdited, CloseDraft, TypeOK
  <2>8. pc'[c] = "idle"
    BY <1>3 DEF WriteEdited, CloseDraft, TypeOK
  <2>9. PolicyKept'
    BY <1>3, <2>3, <2>5, <2>6, <2>7, <2>8 DEF WriteEdited, PolicyKept, PolicyOf, ghosts
  <2> QED BY <2>4, <2>9
<1>4. ASSUME NEW c \in Command, LoadToConvert(c) PROVE Numbered' /\ PolicyKept' /\ Asked'
  BY <1>4 DEF LoadToConvert, LoadDraft, Convertible, Numbered, PolicyKept, PolicyOf, Asked, Risky, TypeOK
<1>5. ASSUME NEW c \in Command, SaveConverted(c) PROVE Numbered' /\ PolicyKept' /\ Asked'
  <2>1. copy[c] \in Draft /\ cur[c] \in Id /\ copy[c].policy = PolicyOf(cur[c])
    BY <1>5 DEF SaveConverted, Aimed, PolicyKept
  <2>2. taken' \in TaskId /\ taken' > taken /\ taken \in Nat
    BY <1>5 DEF SaveConverted, TypeOK
  <2>3. /\ queue' = [queue EXCEPT ![taken'] = convertDraftToTask(copy[c])]
        /\ source' = [source EXCEPT ![taken'] = cur[c]]
    BY <1>5 DEF SaveConverted
  <2>4. /\ ~convertDraftToTask(copy[c]).approved
        /\ MustConfirm(PolicyOf(cur[c])) => convertDraftToTask(copy[c]).requires_confirmation
    BY <2>1, ConvertFacts
  <2>5. Asked'
    BY <1>5, <2>2, <2>3, <2>4 DEF SaveConverted, Asked, Risky, PolicyOf, Numbered, TypeOK, Queues
  <2>6. Numbered' /\ PolicyKept'
    BY <1>5, <2>1, <2>2, <2>3 DEF SaveConverted, Numbered, PolicyKept, PolicyOf, TypeOK, Queues
  <2> QED BY <2>5, <2>6
<1>6. ASSUME NEW c \in Command, ArchiveDraft(c) PROVE Numbered' /\ PolicyKept' /\ Asked'
  <2>1. UNCHANGED <<made, taken, queue, typed, source, consented, ran>>
    BY <1>6 DEF ArchiveDraft, ghosts
  <2>2. \A d \in Id : drafts'[d] \in {drafts[d], NoFile}
    BY <1>6 DEF ArchiveDraft, TypeOK
  <2>3. \A b \in Command : \/ cur'[b] = cur[b] /\ copy'[b] = copy[b]
                           \/ cur'[b] = 0 /\ copy'[b] = NoFile
    BY <1>6 DEF ArchiveDraft, CloseDraft, TypeOK
  <2>4. Numbered'
    <3>1. reviewed' = reviewed \/ \E d \in Id : drafts[d] # NoFile /\ reviewed' = [reviewed EXCEPT ![d] = drafts[d]]
      BY <1>6 DEF ArchiveDraft, Aimed
    <3>2. \A d \in Id : reviewed'[d] # NoFile => reviewed[d] # NoFile \/ drafts[d] # NoFile
      BY <3>1 DEF TypeOK
    <3>3. \A d \in Id : drafts'[d] # NoFile \/ reviewed'[d] # NoFile => d <= made'
      BY <2>1, <2>2, <3>2 DEF Numbered
    <3>4. \A b \in Command : cur'[b] <= made'
      <4>1. 0 <= made
        BY DEF TypeOK
      <4> QED BY <2>1, <2>3, <4>1 DEF Numbered
    <3>5. \A t \in TaskId : /\ source'[t] <= made'
                            /\ t > taken' => queue'[t] = NoFile /\ source'[t] = 0 /\ t \notin ran'
      BY <2>1 DEF Numbered
    <3> QED BY <3>3, <3>4, <3>5 DEF Numbered
  <2>5. PolicyKept'
    BY <1>6, <2>1, <2>2, <2>3 DEF ArchiveDraft, CloseDraft, PolicyKept, PolicyOf, TypeOK
  <2>6. Asked'
    BY <2>1 DEF Asked, Risky, PolicyOf
  <2> QED BY <2>4, <2>5, <2>6
<1>7. ASSUME NEW c \in Command, Die(c) PROVE Numbered' /\ PolicyKept' /\ Asked'
  BY <1>7 DEF Die, CloseDraft, Numbered, PolicyKept, PolicyOf, Asked, Risky, TypeOK
<1>8. ASSUME NEW h \in Handler, Act(h) PROVE Numbered' /\ PolicyKept' /\ Asked'
  <2>1. PolicyKept'
    BY <1>8 DEF Act, PolicyKept, PolicyOf, commands
  <2>2. CASE Script(h)
    BY <1>8, <2>1, <2>2, ScriptAsked DEF Act, commands
  <2>3. CASE UNCHANGED <<queue, taken, consented, ran>>
    BY <1>8, <2>1, <2>3 DEF Act, Numbered, Asked, Risky, PolicyOf, commands
  <2> QED BY <1>8, <2>2, <2>3 DEF Act
<1>9. CASE UNCHANGED <<drafts, reviewed, queue, made, taken, commands, typed, source, consented, ran>>
  BY <1>9 DEF Numbered, PolicyKept, PolicyOf, Asked, Risky, commands
<1>10. CASE \/ ClickCreate \/ ClickOther \/ ClickExecute
            \/ \E h \in Handler : ClickTasks(h) \/ ClickCard(h) \/ ShowAction(h) \/ ReadQueue(h) \/ ShowQueue(h)
            \/ UNCHANGED vars
  BY <1>9, <1>10 DEF ClickCreate, ClickOther, ClickExecute, ClickTasks, ClickCard, ShowAction, ReadQueue, ShowQueue, vars, ghosts
<1> QED BY <1>1, <1>2, <1>3, <1>4, <1>5, <1>6, <1>7, <1>8, <1>10 DEF Next

LEMMA AskedInit == Init => Numbered /\ PolicyKept /\ Asked
BY Bounds DEF Init, Numbered, PolicyKept, Asked, Risky, Id, TaskId

\* No task of a draft that was typed with a filesystem word or a system path
\* runs before a person has approved the task, whatever edits, conversions,
\* deaths and clicks come in whatever order.
THEOREM RiskyCorrect == Spec => []RiskyTasksAsk
<1>1. TypeOK /\ Asked => RiskyTasksAsk
  BY DEF TypeOK, Asked, Risky, PolicyOf, RiskyTasksAsk
<1> QED BY <1>1, TypeInit, TypeStep, AskedInit, AskedStep, PTL DEF Spec

-----------------------------------------------------------------------------
(***************************************************************************)
(* One task of each draft                                                  *)
(***************************************************************************)
\* A draft goes to the reviewed ones from a command that has made its task.
Reviewed ==
  /\ \A d \in Id : reviewed[d] # NoFile => \E t \in TaskId : source[t] = d
  /\ \A c \in Command : pc[c] = "archive" => \E t \in TaskId : source[t] = cur[c]

\* Of an undisturbed draft one command at most is at work; until it has made
\* the task there is none, and there is one after.
Untouched(d) ==
  /\ \A b, c \in Command : cur[b] = d /\ cur[c] = d => b = c
  /\ \A c \in Command : cur[c] = d /\ pc[c] \in {"edit", "convert"} =>
       \A t \in TaskId : source[t] # d
  /\ drafts[d] # NoFile /\ (\A c \in Command : cur[c] # d) => \A t \in TaskId : source[t] # d
  /\ \A t, u \in TaskId : source[t] = d /\ source[u] = d => t = u
Orderly == \A d \in Id : d \notin disturbed => Untouched(d)

LEMMA OrderlyStep ==
  ASSUME TypeOK, Aimed, Numbered, Reviewed, Orderly, [Next]_vars
  PROVE  Reviewed' /\ Orderly'
<1> USE Bounds DEF Id, TaskId
<1>1. CASE CreateDraft
  <2>1. made' = made + 1 /\ made' \in Id /\ made \in Nat
    BY <1>1 DEF CreateDraft, TypeOK
  <2>2. \A d \in Id \ {made'} : drafts'[d] = drafts[d]
    BY <1>1, <2>1 DEF CreateDraft, TypeOK
  <2>3. (\A t \in TaskId : source[t] # made') /\ (\A c \in Command : cur[c] # made')
    BY <2>1 DEF Numbered, TypeOK
  <2> QED BY <1>1, <2>1, <2>2, <2>3 DEF CreateDraft, Reviewed, Orderly, Untouched, commands
<1>2. ASSUME NEW c \in Command, NEW d \in Id, NEW next \in {"edit", "convert"},
             LoadDraft(c, d, next), UNCHANGED <<drafts, reviewed, source>>
      PROVE  Reviewed' /\ Orderly'
  <2>1. /\ cur[c] = 0 /\ cur'[c] = d /\ pc'[c] = next
        /\ \A b \in Command \ {c} : cur'[b] = cur[b] /\ pc'[b] = pc[b]
    BY <1>2 DEF LoadDraft, TypeOK, Aimed
  <2>2. \A b \in Command : cur[b] = d => pc[b] # "idle"
    BY DEF Aimed
  <2>3. d \notin disturbed' => d \notin disturbed /\ \A b \in Command : cur[b] # d
    BY <1>2, <2>2 DEF LoadDraft
  <2>4. \A e \in Id \ {d} : e \notin disturbed' => e \notin disturbed
    BY <1>2 DEF LoadDraft
  <2>5. drafts[d] # NoFile
    BY <1>2 DEF LoadDraft
  <2>6. Reviewed'
    BY <1>2, <2>1 DEF Reviewed
  <2>7. ASSUME NEW e \in Id, e \notin disturbed' PROVE Untouched(e)'
    BY <1>2, <2>1, <2>3, <2>4, <2>5, <2>7 DEF Orderly, Untouched
  <2> QED BY <2>6, <2>7 DEF Orderly
<1>3. ASSUME NEW c \in Command, pc[c] # "idle", CloseDraft(c),
             UNCHANGED <<reviewed, source>>, disturbed \subseteq disturbed',
             \A d \in Id \ {cur[c]} : drafts'[d] = drafts[d],
             cur[c] \notin disturbed' /\ drafts'[cur[c]] # NoFile => pc[c] \in {"edit", "convert"}
      PROVE  Reviewed' /\ Orderly'
  <2>1. /\ cur[c] \in Id /\ cur'[c] = 0 /\ pc'[c] = "idle"
        /\ \A b \in Command \ {c} : cur'[b] = cur[b] /\ pc'[b] = pc[b]
    BY <1>3 DEF CloseDraft, TypeOK, Aimed
  <2>2. Reviewed'
    BY <1>3, <2>1 DEF Reviewed
  <2>3. ASSUME NEW d \in Id, d \notin disturbed' PROVE Untouched(d)'
    <3>1. Untouched(d)
      BY <1>3, <2>3 DEF Orderly
    <3>2. CASE d = cur[c]
      BY <1>3, <2>1, <2>3, <3>1, <3>2 DEF Untouched
    <3>3. CASE d # cur[c]
      BY <1>3, <2>1, <3>1, <3>3 DEF Untouched
    <3> QED BY <3>2, <3>3
  <2> QED BY <2>2, <2>3 DEF Orderly
<1>4. ASSUME NEW c \in Command, LoadToEdit(c) \/ LoadToConvert(c) PROVE Reviewed' /\ Orderly'
  BY <1>2, <1>4 DEF LoadToEdit, LoadToConvert
<1>5. ASSUME NEW c \in Command, WriteEdited(c) PROVE Reviewed' /\ Orderly'
  BY <1>3, <1>5 DEF WriteEdited, TypeOK, ghosts
<1>6. ASSUME NEW c \in Command, SaveConverted(c) PROVE Reviewed' /\ Orderly'
  <2>1. /\ taken' \in TaskId /\ source[taken'] = 0 /\ source'[taken'] = cur[c]
        /\ \A t \in TaskId \ {taken'} : source'[t] = source[t]
    BY <1>6 DEF SaveConverted, TypeOK, Numbered
  <2>2. /\ cur[c] \in Id /\ pc[c] = "convert" /\ pc'[c] = "archive"
        /\ \A b \in Command \ {c} : pc'[b] = pc[b]
    BY <1>6 DEF SaveConverted, TypeOK, Aimed
  <2>3. Reviewed'
    <3>1. \A e \in Nat \ {0} : (\E t \in TaskId : source[t] = e) => \E t \in TaskId : source'[t] = e
      BY <2>1
    <3>2. \A b \in Command : pc[b] = "archive" => cur[b] \in Nat \ {0}
      BY DEF Aimed
    <3> QED BY <1>6, <2>1, <2>2, <3>1, <3>2 DEF SaveConverted, Reviewed
  <2>4. ASSUME NEW d \in Id, d \notin disturbed PROVE Untouched(d)'
    <3>1. Untouched(d)
      BY <2>4 DEF Orderly
    <3> QED BY <1>6, <2>1, <2>2, <3>1 DEF SaveConverted, Untouched
  <2> QED BY <1>6, <2>3, <2>4 DEF SaveConverted, Orderly
<1>7. ASSUME NEW c \in Command, ArchiveDraft(c) PROVE Reviewed' /\ Orderly'
  <2>1. cur[c] \in Id /\ pc[c] = "archive"
    BY <1>7 DEF ArchiveDraft, Aimed
  <2>2. /\ cur'[c] = 0 /\ pc'[c] = "idle"
        /\ \A b \in Command \ {c} : cur'[b] = cur[b] /\ pc'[b] = pc[b]
    BY <1>7 DEF ArchiveDraft, CloseDraft, TypeOK
  <2>3. /\ drafts'[cur[c]] = NoFile
        /\ \A d \in Id \ {cur[c]} : drafts'[d] = drafts[d] /\ reviewed'[d] = reviewed[d]
    BY <1>7, <2>1 DEF ArchiveDraft, TypeOK
  <2>4. Reviewed'
    BY <1>7, <2>1, <2>2, <2>3 DEF ArchiveDraft, Reviewed, ghosts
  <2>5. ASSUME NEW d \in Id, d \notin disturbed PROVE Untouched(d)'
    <3>1. Untouched(d)
      BY <2>5 DEF Orderly
    <3> QED BY <1>7, <2>2, <2>3, <3>1 DEF ArchiveDraft, Untouched, ghosts
  <2> QED BY <1>7, <2>4, <2>5 DEF ArchiveDraft, Orderly, ghosts
<1>8. ASSUME NEW c \in Command, Die(c) PROVE Reviewed' /\ Orderly'
  BY <1>3, <1>8 DEF Die
<1>9. CASE UNCHANGED <<drafts, reviewed, commands, source, disturbed>>
  BY <1>9 DEF Reviewed, Orderly, Untouched, commands
<1>10. CASE \/ ClickCreate \/ ClickOther \/ ClickExecute
            \/ \E h \in Handler : \/ ClickTasks(h) \/ ClickCard(h) \/ Act(h)
                                 \/ ShowAction(h) \/ ReadQueue(h) \/ ShowQueue(h)
            \/ UNCHANGED vars
  BY <1>9, <1>10
     DEF ClickCreate, ClickOther, ClickExecute, ClickTasks, ClickCard, Act, ShowAction, ReadQueue, ShowQueue, vars, ghosts
<1> QED BY <1>1, <1>4, <1>5, <1>6, <1>7, <1>8, <1>10 DEF Next

LEMMA OrderlyInit == Init => Reviewed /\ Orderly
BY Bounds DEF Init, Reviewed, Orderly, Untouched, Id, TaskId

\* A set of tasks in which any two are equal has one at most.
LEMMA AtMostOne ==
  ASSUME NEW S, \A t, u \in S : t = u
  PROVE  Cardinality(S) <= 1
<1>1. CASE S = {}
  BY <1>1, FS_EmptySet
<1>2. CASE S # {}
  <2>1. PICK t : t \in S
    BY <1>2
  <2>2. S = {t}
    BY <2>1
  <2>3. Cardinality({t}) = 1
    BY FS_Singleton
  <2> QED BY <2>2, <2>3
<1> QED BY <1>1, <1>2

\* A reviewed draft has a task, and an undisturbed one never two, for any
\* number of commands that convert, edit and die.
THEOREM DraftCorrect == Spec => []DraftBecomesTask
<1>1. Reviewed /\ Orderly => DraftBecomesTask
  <2> SUFFICES ASSUME Reviewed, Orderly, NEW d \in Id
               PROVE  /\ reviewed[d] # NoFile => TasksOf(d) # {}
                      /\ d \notin disturbed =>
                           /\ Cardinality(TasksOf(d)) <= 1
                           /\ drafts[d] # NoFile /\ (\A c \in Command : cur[c] # d) => TasksOf(d) = {}
    BY DEF DraftBecomesTask
  <2>1. reviewed[d] # NoFile => TasksOf(d) # {}
    BY DEF Reviewed, TasksOf
  <2>2. ASSUME d \notin disturbed PROVE \A t, u \in TasksOf(d) : t = u
    BY <2>2 DEF Orderly, Untouched, TasksOf
  <2>3. d \notin disturbed /\ drafts[d] # NoFile /\ (\A c \in Command : cur[c] # d) => TasksOf(d) = {}
    BY DEF Orderly, Untouched, TasksOf
  <2> QED BY <2>1, <2>2, <2>3, AtMostOne
<1> QED BY <1>1, TypeInit, TypeStep, AskedInit, AskedStep, OrderlyInit, OrderlyStep, PTL DEF Spec

-----------------------------------------------------------------------------
(***************************************************************************)
(* The window                                                              *)
(***************************************************************************)
\* Handler h will read the queue after all that its own script has changed.
WillRead(h) ==
  \/ handlers[h].step = "action" /\ handlers[h].ended
  \/ handlers[h].step = "view" /\ handlers[h].read = Other

\* A reading r is of the past, and the last one is still true, or it will be
\* followed by another.
Current(r) ==
  r.kind = "tasks" =>
    /\ r.at <= readings
    /\ r.at = readings /\ ~foreign => r.list = queue \/ \E h \in Handler : WillRead(h)

Watching ==
  /\ Current(shown)
  /\ \A h \in Handler :
       /\ Current(handlers[h].read)
       /\ handlers[h].read # Other => handlers[h].step = "view"
       /\ handlers[h].action # "none" /\ ~handlers[h].ended => handlers[h].step = "action"
       /\ handlers[h].step = "action" => handlers[h].action # "none"

LEMMA WatchingInit == Init => Watching
BY DEF Init, Watching, Current, Idle, Other

LEMMA WatchingStep ==
  ASSUME TypeOK, Aimed, Watching, [Next]_vars
  PROVE  Watching'
<1> USE DEF commands, counters
<1>0. /\ handlers \in [Handler -> Waiting] /\ readings \in Nat
      /\ \A h \in Handler : handlers[h] \in Waiting
      /\ Other.kind = "other"
      /\ \A r \in Reading : r # Other /\ r.kind = "tasks"
      /\ \A r \in Answer : r.kind = "answer"
  BY DEF TypeOK, Reading, Answer, Other
<1>1. TypeOK' /\ handlers' \in [Handler -> Waiting]
  BY TypeStep DEF TypeOK
<1>2. ASSUME NEW a \in Action, NEW t
      PROVE  /\ Begin(a, t).read = Other /\ ~Begin(a, t).ended
             /\ a = "none" => Begin(a, t).step = "view"
             /\ a # "none" => Begin(a, t).step = "action"
             /\ Begin(a, t).action = a
  BY DEF Begin
\* A handler that is idle begins, and the cards are cleared.
<1>3. ASSUME NEW h \in Handler, NEW a \in Action, NEW t,
             handlers[h].step = "idle" \/ a = "none",
             handlers' = [handlers EXCEPT ![h] = Begin(a, t)],
             shown' = Other, UNCHANGED <<queue, foreign, readings>>
      PROVE  Watching'
  <2>1. \A g \in Handler : WillRead(g) => WillRead(g)'
    BY <1>0, <1>2, <1>3 DEF WillRead
  <2>2. \A r : Current(r) => Current(r)'
    BY <1>3, <2>1 DEF Current
  <2>3. \A g \in Handler : handlers'[g] = IF g = h THEN Begin(a, t) ELSE handlers[g]
    BY <1>0, <1>3
  <2>4. Current(Other)
    BY <1>0 DEF Current
  <2> QED BY <1>2, <1>3, <2>2, <2>3, <2>4 DEF Watching
<1>4. ASSUME NEW h \in Handler, ClickTasks(h) PROVE Watching'
  BY <1>3, <1>4 DEF ClickTasks, Action, ghosts
<1>5. ASSUME NEW h \in Handler, ClickCard(h) PROVE Watching'
  <2>1. PICK t \in TaskId, action \in {"approve", "cancel", "run"} :
          handlers' = [handlers EXCEPT ![h] = Begin(action, t)]
    BY <1>5 DEF ClickCard
  <2> QED BY <1>3, <1>5, <2>1 DEF ClickCard, Action, ghosts
<1>6. CASE ClickCreate
  <2>1. PICK g \in Handler, h \in Handler :
          /\ g # h /\ handlers[g].step = "idle" /\ handlers[h].step = "idle"
          /\ handlers' = [handlers EXCEPT ![g] = Begin("create", 0), ![h] = Begin("create", 0)]
    BY <1>6 DEF ClickCreate
  <2>2. \A k \in Handler : handlers'[k] = IF k \in {g, h} THEN Begin("create", 0) ELSE handlers[k]
    BY <1>0, <2>1
  <2>3. \A k \in Handler : WillRead(k) => WillRead(k)'
    BY <2>1, <2>2 DEF WillRead
  <2>4. \A r : Current(r) => Current(r)'
    BY <1>6, <2>3 DEF ClickCreate, Current, ghosts
  <2>5. Current(Other) /\ "create" \in Action
    BY <1>0 DEF Current, Action
  <2>6. /\ Begin("create", 0).read = Other /\ Begin("create", 0).step = "action"
        /\ Begin("create", 0).action = "create"
    BY DEF Begin
  <2>7. ASSUME NEW k \in Handler
        PROVE  /\ Current(handlers[k].read)'
               /\ handlers'[k].read # Other => handlers'[k].step = "view"
               /\ handlers'[k].action # "none" /\ ~handlers'[k].ended => handlers'[k].step = "action"
               /\ handlers'[k].step = "action" => handlers'[k].action # "none"
    <3>1. CASE k \in {g, h}
      BY <2>2, <2>4, <2>5, <2>6, <3>1 DEF Current
    <3>2. CASE k \notin {g, h}
      <4>1. handlers'[k] = handlers[k]
        BY <2>2, <3>2
      <4>2. Current(handlers[k].read)
        BY DEF Watching
      <4>3. PICK r : r = handlers[k].read
        OBVIOUS
      <4>4. Current(r)'
        BY <2>4, <4>2, <4>3
      <4> QED BY <4>1, <4>3, <4>4 DEF Watching, Current
    <3> QED BY <3>1, <3>2
  <2>8. Current(shown)'
    BY <1>0, <1>6 DEF ClickCreate, Current
  <2> HIDE DEF Current
  <2> QED BY <2>7, <2>8 DEF Watching
<1>7. CASE ClickOther \/ ClickExecute
  <2>1. shown'.kind # "tasks"
    BY <1>0, <1>7 DEF ClickOther, ClickExecute
  <2>2. Current(shown)'
    BY <2>1 DEF Current
  <2>3. UNCHANGED <<handlers, queue, foreign, readings>>
    BY <1>7 DEF ClickOther, ClickExecute, ghosts
  <2>4. \A g \in Handler : Current(handlers[g].read)'
    BY <2>3 DEF Watching, Current, WillRead
  <2> QED BY <2>2, <2>3, <2>4 DEF Watching
\* A script has ended: what it has changed, its own handler will read.
<1>8. ASSUME NEW h \in Handler, Act(h) PROVE Watching'
  <2>1. handlers[h].step = "action" /\ handlers[h].action # "none"
    BY <1>8 DEF Act, Watching
  <2>2. /\ handlers'[h] = [handlers[h] EXCEPT !.ended = TRUE]
        /\ \A g \in Handler \ {h} : handlers'[g] = handlers[g]
    BY <1>0, <1>8 DEF Act
  <2>3. WillRead(h)'
    BY <1>0, <2>1, <2>2 DEF WillRead, Waiting
  <2>4. \A r : Current(r) => Current(r)'
    BY <1>8, <2>3 DEF Act, Current
  <2>5. /\ handlers'[h].read = handlers[h].read /\ handlers'[h].step = handlers[h].step
        /\ handlers'[h].action = handlers[h].action /\ handlers'[h].ended
    BY <1>0, <2>2 DEF Waiting
  <2> QED BY <1>8, <2>1, <2>2, <2>4, <2>5 DEF Act, Watching
<1>9. ASSUME NEW h \in Handler, ShowAction(h) PROVE Watching'
  BY <1>3, <1>9 DEF ShowAction, Action, ghosts
<1>10. ASSUME NEW h \in Handler, ReadQueue(h) PROVE Watching'
  <2>0. PICK r0 : r0 = [kind |-> "tasks", list |-> queue, at |-> readings + 1]
    OBVIOUS
  <2>1. /\ handlers'[h] = [handlers[h] EXCEPT !.read = r0]
        /\ \A g \in Handler \ {h} : handlers'[g] = handlers[g]
    BY <1>0, <1>10, <2>0 DEF ReadQueue
  <2>2. /\ handlers'[h].read = r0 /\ handlers'[h].step = "view"
        /\ handlers'[h].action = handlers[h].action /\ handlers'[h].ended = handlers[h].ended
    BY <1>0, <1>10, <2>1 DEF ReadQueue, Waiting
  <2>3. \A r \in Reading \cup Answer \cup {Other} : Current(r) => Current(r)'
    <3>1. \A r \in Reading : Current(r) => Current(r)'
      BY <1>0, <1>10 DEF ReadQueue, Current, Reading
    <3>2. \A r \in Answer \cup {Other} : Current(r)'
      BY <1>0 DEF Current
    <3> QED BY <3>1, <3>2
  <2>4. Current(r0)'
    <3>1. /\ queue' = queue /\ readings' = readings + 1 /\ readings' \in Nat
          /\ r0.list = queue /\ r0.at = readings'
      BY <1>0, <1>10, <2>0 DEF ReadQueue
    <3> QED BY <3>1 DEF Current
  <2>5. shown \in Reading \cup Answer \cup {Other} /\ \A g \in Handler : handlers[g].read \in Reading \cup {Other}
    BY <1>0 DEF TypeOK, Waiting
  <2>6. r0 # Other
    BY <2>0 DEF Other
  <2>7. ASSUME NEW g \in Handler PROVE Current(handlers[g].read)'
    <3>1. CASE g = h
      BY <2>2, <2>4, <3>1 DEF Current
    <3>2. CASE g # h
      <4>1. PICK r \in Reading \cup {Other} : r = handlers[g].read
        BY <2>5
      <4>2. Current(r)'
        BY <2>3, <4>1 DEF Watching
      <4> QED BY <2>1, <3>2, <4>1, <4>2 DEF Current
    <3> QED BY <3>1, <3>2
  <2>8. Current(shown)'
    <3>1. PICK r \in Reading \cup Answer \cup {Other} : r = shown
      BY <2>5
    <3>2. Current(r)' /\ shown' = r
      BY <1>10, <2>3, <3>1 DEF ReadQueue, Watching
    <3> QED BY <3>2 DEF Current
  <2> QED BY <1>10, <2>1, <2>2, <2>6, <2>7, <2>8 DEF ReadQueue, Watching
<1>11. ASSUME NEW h \in Handler, ShowQueue(h) PROVE Watching'
  <2>1. \A g \in Handler : handlers'[g] = IF g = h THEN Idle ELSE handlers[g]
    BY <1>0, <1>11 DEF ShowQueue
  <2>2. ~WillRead(h)
    BY <1>11 DEF ShowQueue, WillRead
  <2>3. \A g \in Handler : WillRead(g) => WillRead(g)'
    BY <2>1, <2>2 DEF WillRead
  <2>4. \A r : Current(r) => Current(r)'
    BY <1>11, <2>3 DEF ShowQueue, Current, ghosts
  <2>5. Current(handlers[h].read) /\ Current(Other)
    BY <1>0 DEF Watching, Current
  <2>6. Idle.read = Other /\ Idle.action = "none" /\ Idle.step = "idle"
    BY DEF Idle
  <2> QED BY <1>11, <2>1, <2>4, <2>5, <2>6 DEF ShowQueue, Watching
\* The draft commands only add to the queue, and say so.
<1>12. CASE UNCHANGED <<handlers, shown, readings>> /\ (foreign' \/ UNCHANGED <<foreign, queue>>)
  BY <1>12 DEF Watching, Current, WillRead
<1>13. CASE \/ CreateDraft \/ UNCHANGED vars
            \/ \E c \in Command : \/ LoadToEdit(c) \/ WriteEdited(c) \/ LoadToConvert(c)
                                 \/ SaveConverted(c) \/ ArchiveDraft(c) \/ Die(c)
  BY <1>12, <1>13
     DEF CreateDraft, LoadToEdit, WriteEdited, LoadToConvert, SaveConverted, ArchiveDraft, Die,
         vars, window, ghosts
<1> QED BY <1>4, <1>5, <1>6, <1>7, <1>8, <1>9, <1>10, <1>11, <1>13 DEF Next

\* A window at rest that shows the last answer shows the queue as it is, for
\* any number of clicks, handlers and late answers.
THEOREM WindowCorrect == Spec => []SettledViewIsCurrent
<1>1. TypeOK /\ Watching => SettledViewIsCurrent
  <2> SUFFICES ASSUME TypeOK, Watching, \A h \in Handler : handlers[h].step = "idle",
                      shown.kind = "tasks", ~foreign
               PROVE  shown.at < readings \/ shown.list = queue
    BY DEF SettledViewIsCurrent
  <2>0. shown \in Reading
    <3>1. shown \in Reading \cup Answer \cup {Other}
      BY DEF TypeOK
    <3> QED BY <3>1 DEF Answer, Other
  <2>1. shown.at \in Nat /\ readings \in Nat
    BY <2>0 DEF TypeOK, Reading
  <2>2. \A h \in Handler : ~WillRead(h)
    BY DEF WillRead
  <2> QED BY <2>1, <2>2 DEF Watching, Current
<1> QED BY <1>1, TypeInit, TypeStep, WatchingInit, WatchingStep, PTL DEF Spec
-----------------------------------------------------------------------------
(***************************************************************************)
(* The bridge and the planner                                              *)
(***************************************************************************)
\* The bridge runs nothing but what the planner shows for the words
\* (plan-user-request-json.ts:17-51, execute-planned-request-json.ts:57-102).
LEMMA InferencesAgree ==
  ASSUME NEW words, inferCapability(words) # None
  PROVE  inferCapability(words) = planUserRequest(words)
BY DEF inferCapability, planUserRequest

\* A search finds the files that a summary of the same place counts.
LEMMA SearchCounts ==
  ASSUME NEW place \in Place, NEW words
  PROVE  LET found   == searchDirectory(place, inferExtension(words), 0).files
             counted == summarizeDirectory(place)
             ext     == inferExtension(words)
         IN Cardinality(found) =
              IF ext = AnyExtension THEN counted.count
              ELSE IF ext \in DOMAIN counted.breakdown THEN counted.breakdown[ext] ELSE 0
<1> DEFINE ext   == inferExtension(words)
           files == inspectDirectory(place).files
           found == {f \in files : (ext # AnyExtension => f.ext = ext) /\ f.size >= 0}
<1>1. \A f \in files : f.size >= 0
  BY DEF inspectDirectory, Place, Entry
<1>2. searchDirectory(place, ext, 0).files = found
  BY DEF searchDirectory
<1>3. /\ summarizeDirectory(place).count = Cardinality(files)
      /\ summarizeDirectory(place).breakdown
           = [x \in {f.ext : f \in files} |-> Cardinality({f \in files : f.ext = x})]
  BY DEF summarizeDirectory
<1> HIDE DEF ext, files
<1>4. CASE ext = AnyExtension
  <2>1. found = files
    BY <1>1, <1>4
  <2> QED BY <1>2, <1>3, <1>4, <2>1 DEF ext
<1>5. CASE ext # AnyExtension /\ ext \in {f.ext : f \in files}
  <2>1. found = {f \in files : f.ext = ext}
    BY <1>1, <1>5
  <2>2. summarizeDirectory(place).breakdown[ext] = Cardinality({f \in files : f.ext = ext})
    BY <1>3, <1>5
  <2>3. ext \in DOMAIN summarizeDirectory(place).breakdown
    BY <1>3, <1>5
  <2> QED BY <1>2, <1>5, <2>1, <2>2, <2>3 DEF ext
<1>6. CASE ext # AnyExtension /\ ext \notin {f.ext : f \in files}
  <2>1. found = {}
    BY <1>6
  <2>2. Cardinality(found) = 0
    BY <2>1, FS_EmptySet
  <2>3. ext \notin DOMAIN summarizeDirectory(place).breakdown
    BY <1>3, <1>6
  <2> QED BY <1>2, <1>6, <2>2, <2>3 DEF ext
<1> QED BY <1>4, <1>5, <1>6

\* An answer in the window is the bridge's own, to the request it came with.
Answered ==
  shown.kind = "answer" => shown.result = executePlannedRequest(shown.words, shown.place)

LEMMA AnsweredStep ==
  ASSUME TypeOK, Answered, [Next]_vars
  PROVE  Answered'
<1>0. handlers \in [Handler -> Waiting]
  BY DEF TypeOK
<1>1. CASE shown' = shown
  BY <1>1 DEF Answered
<1>2. CASE shown' = Other
  BY <1>2 DEF Answered, Other
<1>3. CASE ClickExecute
  <2>1. PICK words \in Requests, place \in Places :
          shown' = [kind |-> "answer", words |-> words, place |-> place,
                    result |-> executePlannedRequest(words, place)]
    BY <1>3 DEF ClickExecute
  <2> QED BY <2>1 DEF Answered
<1>4. ASSUME NEW h \in Handler, ShowQueue(h) PROVE Answered'
  <2>1. shown' = handlers[h].read /\ handlers[h].read \in Reading \cup {Other}
    BY <1>0, <1>4 DEF ShowQueue, Waiting
  <2> QED BY <2>1 DEF Answered, Reading, Other
<1>5. CASE ClickCreate \/ ClickOther \/ \E h \in Handler : ClickTasks(h) \/ ClickCard(h) \/ ShowAction(h)
  BY <1>2, <1>5 DEF ClickCreate, ClickOther, ClickTasks, ClickCard, ShowAction
<1>6. CASE \/ CreateDraft \/ UNCHANGED vars
           \/ \E h \in Handler : Act(h) \/ ReadQueue(h)
           \/ \E c \in Command : \/ LoadToEdit(c) \/ WriteEdited(c) \/ LoadToConvert(c)
                                \/ SaveConverted(c) \/ ArchiveDraft(c) \/ Die(c)
  BY <1>1, <1>6
     DEF CreateDraft, Act, ReadQueue, LoadToEdit, WriteEdited, LoadToConvert, SaveConverted,
         ArchiveDraft, Die, vars, window
<1> QED BY <1>3, <1>4, <1>5, <1>6 DEF Next

\* The answer that the window shows of the bridge, to any request about any
\* place, is what the planner shows of it, and in a search as many files as a
\* summary counts.
THEOREM BridgeCorrect == Spec => []BridgeFollowsPlanner
<1>1. Init => Answered
  BY DEF Init, Answered, Other
<1>2. TypeOK /\ Answered => BridgeFollowsPlanner
  <2> SUFFICES ASSUME TypeOK, Answered, shown.kind = "answer"
               PROVE  LET result  == shown.result
                          counted == summarizeDirectory(shown.place)
                          ext     == inferExtension(shown.words)
                      IN /\ result.capability # None => result.capability = planUserRequest(shown.words)
                         /\ result.ok => result.capability # None /\ shown.place.allowed
                                         /\ shown.place.kind = "directory"
                         /\ result.capability = "search" =>
                              Cardinality(result.files) =
                                IF ext = AnyExtension THEN counted.count
                                ELSE IF ext \in DOMAIN counted.breakdown THEN counted.breakdown[ext]
                                ELSE 0
    BY DEF BridgeFollowsPlanner
  <2> DEFINE words == shown.words
             place == shown.place
             result == shown.result
             capability == IF inferPath(words) THEN inferCapability(words) ELSE None
  <2>1. place \in Place
    <3>1. shown \in Answer
      BY DEF TypeOK, Reading, Other
    <3> QED BY <3>1, RequestsAssumption DEF Answer
  <2>2. result = executePlannedRequest(words, place)
    BY DEF Answered
  <2> HIDE DEF words, place, result
  <2>3. result.capability = capability
    BY <2>2 DEF executePlannedRequest
  <2>4. result.ok => capability # None /\ place.allowed /\ place.kind = "directory"
    BY <2>2 DEF executePlannedRequest, searchDirectory, summarizeDirectory, inspectDirectory, NoFiles,
                None
  <2>5. capability = "search" => result.files = searchDirectory(place, inferExtension(words), 0).files
    BY <2>2 DEF executePlannedRequest
  <2>6. capability # None => capability = planUserRequest(words)
    BY InferencesAgree
  <2> QED BY <2>1, <2>3, <2>4, <2>5, <2>6, SearchCounts DEF words, place, result
<1> QED BY <1>1, <1>2, TypeInit, TypeStep, AnsweredStep, PTL DEF Spec
=============================================================================
