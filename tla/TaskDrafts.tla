----------------------------- MODULE TaskDrafts -----------------------------
(***************************************************************************)
(* A task draft: what a person typed, the task suggested from it, and the  *)
(* policy that binds its conversion (core/tasks/taskDraftParser.ts,        *)
(* taskDraftEditor.ts and taskDraftConverter.ts). A text is the set of the *)
(* words in it that the parser looks for; synonyms are one word.           *)
(***************************************************************************)
EXTENDS TaskLifecycle

FilesystemWord == {"delete", "move", "copy", "rename", "open", "search"}

Word == FilesystemWord
        \cup {"remind", "system path", "diagnostic", "audit", "validate plan",
              "execute plan", "tomorrow"}

Text == SUBSET Word
Flag == {"approved", "auto_run", "requires_confirmation"}

Intent == FilesystemWord \cup {"reminder", "custom"}
Risk   == {"low", "medium", "critical"}
Policy == [intent: Intent, risk: Risk, requires_approval: BOOLEAN]

CONSTANT NoPolicy   \* of a draft from before drafts had a policy
ASSUME NoPolicyAssumption == NoPolicy \notin Policy

Draft == [raw_input: Text, suggested: TaskRec, policy: Policy \cup {NoPolicy}]

\* The first of these words that the text has decides.
detectDraftIntent(text) ==
  CASE "delete" \in text -> "delete"
    [] "delete" \notin text /\ "move" \in text -> "move"
    [] text \cap {"delete", "move"} = {} /\ "copy" \in text -> "copy"
    [] text \cap {"delete", "move", "copy"} = {} /\ "rename" \in text -> "rename"
    [] text \cap {"delete", "move", "copy", "rename"} = {} /\ "open" \in text -> "open"
    [] text \cap FilesystemWord = {"search"} -> "search"
    [] text \cap FilesystemWord = {} /\ "remind" \in text -> "reminder"
    [] OTHER -> "custom"

resolveDraftRisk(intent, text) ==
  IF intent = "delete" \/ "system path" \in text THEN "critical"
  ELSE IF intent \in {"move", "rename", "copy"} THEN "medium" ELSE "low"

isFilesystemIntent(intent) == intent \in FilesystemWord

buildDraftPolicy(text) ==
  LET intent == detectDraftIntent(text)
      risk   == resolveDraftRisk(intent, text) IN
    [intent |-> intent, risk |-> risk,
     requires_approval |-> isFilesystemIntent(intent) \/ risk = "critical"]

\* Diagnostics and audit exports are suggested as approved and automatic, the
\* execution of a plan as to be confirmed; the first of these words decides.
suggestedTask(text) ==
  LET automatic == text \cap {"diagnostic", "audit"} # {} IN
    [status   |-> IF "tomorrow" \in text THEN "scheduled" ELSE "pending",
     approved |-> automatic,
     auto_run |-> automatic,
     requires_confirmation |->
       ~automatic /\ "validate plan" \notin text /\ "execute plan" \in text]

parseTaskDraft(text) ==
  [raw_input |-> text, suggested |-> suggestedTask(text), policy |-> buildDraftPolicy(text)]

\* editDraftField: the text or one field of the suggested task. The policy is
\* neither editable nor computed again from the text. Fields under "parsed."
\* are read by nothing but views.
Edits(draft, texts, statuses, flags) ==
  {[draft EXCEPT !.raw_input = t] : t \in texts}
  \cup {[draft EXCEPT !.suggested.status = s] : s \in statuses}
  \cup {[draft EXCEPT !.suggested[f] = b] : f \in flags, b \in BOOLEAN}

\* The refusals of convertDraftToTask: no program writes another execution
\* state than draft_only, or a draft that is safe to run.
Convertible(draft) == draft.policy # NoPolicy

MustConfirm(policy) ==
  policy.requires_approval \/ isFilesystemIntent(policy.intent) \/ policy.risk = "critical"

\* Faulty variants (each named ...Bug) stand in for the definition after them
\* when a property is tested for being breakable.
convertDraftToTaskBug(draft) ==
  [draft.suggested EXCEPT
     !.auto_run = FALSE, !.requires_confirmation = @ \/ MustConfirm(draft.policy)]
convertDraftToTaskSpreadBug(draft) == draft

convertDraftToTask(draft) ==
  [draft.suggested EXCEPT
     !.approved = FALSE, !.auto_run = FALSE,
     !.requires_confirmation = @ \/ MustConfirm(draft.policy)]
=============================================================================
