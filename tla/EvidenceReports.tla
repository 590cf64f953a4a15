-------------------------- MODULE EvidenceReports --------------------------
(***************************************************************************)
(* The evidence scripts at work. A report is built by one process: it      *)
(* reads the authority log, lists the policy files, hashes each of them    *)
(* (core/policy/policyHasher.ts) and then reads each of them again and     *)
(* compares; a federation audit does so three times, for the two reports   *)
(* inside it and for itself. Reports, replay baselines and replay diffs    *)
(* are written under exports/, where the index script looks for the latest *)
(* of each directory. Policy files, the authority log and the exports are  *)
(* plain files: they change between any two steps.                         *)
(***************************************************************************)
EXTENDS Reports, Sequences, SequencesExt, FiniteSetsExt

CONSTANTS Files,          \* the number of policy files, in the order of the manifest
          Required,       \* those a manifest lists also when they are missing
          Contents,       \* the number of contents a file may have
          NoIndex,
          MaxArtifacts, MaxEdits   \* bounds

ASSUME FilesAssumption == Files \in Nat /\ Contents \in Nat \ {0} /\ Required \subseteq 1 .. Files
ASSUME BoundAssumption == MaxArtifacts \in Nat /\ MaxEdits \in Nat

VARIABLES
  content,    \* the policy files
  authority,  \* the state of audit/authority
  exports,    \* what is under exports/, oldest modification first
  pc, job,    \* the exporting process, and what it builds
  round,      \* which of its rounds of hashing this is
  listed, hashed,   \* its policy manifest
  next, ok,   \* the file it is at, and whether all matched so far
  admissible, verdicts,       \* what it has found
  index,      \* the latest report index
  written, edits,   \* bounded counters
  \* History variables: they guard nothing and are read by properties only.
  between,    \* the policy files when the second reading began
  returned    \* a file got back, during the second reading, the content that was hashed

process == <<pc, job, round, listed, hashed, next, ok, admissible, verdicts>>
history == <<between, returned>>
vars == <<content, authority, exports, process, index, written, edits, history>>

File    == 1 .. Files
Absent  == 0
Content == 0 .. Contents

Replays == {"baseline", "diff"}
Kinds   == {"governance", "provenance", "federation"}
Rounds(kind) == IF kind = "federation" THEN 3 ELSE 1
Pc == {"idle", "list", "hash", "verify", "write"}

Baseline == [id: 1 .. MaxArtifacts, kind: {"baseline"}, safe: BOOLEAN]
Diff     == [id: 1 .. MaxArtifacts, kind: {"diff"}, admissible: BOOLEAN]
\* original is what the exporter wrote: a history field, read by properties only.
Written  == [id: 1 .. MaxArtifacts, kind: Kinds, report: AnyReport, original: AnyReport]
Artifact == Baseline \cup Diff \cup Written

Job == [kind: Kinds, baseline: Baseline \cup {NoInput}, diff: Diff \cup {NoInput}]

TypeOK ==
  /\ content \in [File -> Content] /\ authority \in Logs
  /\ pc \in Pc /\ round \in 1 .. 4 /\ listed \subseteq File /\ hashed \in [File -> Content]
  /\ next \in 1 .. (Files + 1) /\ ok \in BOOLEAN
  /\ admissible \in BOOLEAN /\ verdicts \in Seq(BOOLEAN)
  /\ job \in Job /\ exports \in Seq(Artifact)
  /\ written \in 0 .. MaxArtifacts /\ edits \in 0 .. MaxEdits
  /\ between \in [File -> Content] /\ returned \in BOOLEAN

NoFiles == [f \in File |-> Absent]
NoJob   == [kind |-> "governance", baseline |-> NoInput, diff |-> NoInput]

Init ==
  /\ content = [f \in File |-> 1] /\ authority = "sound" /\ exports = <<>>
  /\ pc = "idle" /\ job = NoJob /\ round = 1
  /\ listed = {} /\ hashed = NoFiles /\ next = 1 /\ ok = TRUE
  /\ admissible = TRUE /\ verdicts = <<>>
  /\ index = NoIndex /\ written = 0 /\ edits = 0
  /\ between = NoFiles /\ returned = FALSE

-----------------------------------------------------------------------------
(***************************************************************************)
(* What hands and other programs do to the files                           *)
(***************************************************************************)
Edit == edits < MaxEdits /\ edits' = edits + 1

EditPolicy(f) ==
  /\ Edit
  /\ \E v \in Content \ {content[f]} :
       /\ content' = [content EXCEPT ![f] = v]
       /\ returned' = (returned \/ (pc = "verify" /\ v = hashed[f]))
  /\ UNCHANGED <<authority, exports, process, index, written, between>>

\* A line of the log is damaged or torn, or mended (AuthorityLog has the detail).
EditAuthority ==
  /\ Edit
  /\ authority' \in Logs \ {authority}
  /\ UNCHANGED <<content, exports, process, index, written, history>>

\* The reports a hand makes of the report r: its claim or its status raised,
\* or its date removed.
Raised(r) == {[r EXCEPT !.claim = TRUE], [r EXCEPT !.status = "verified"]}
Edited(r) == (Raised(r) \cup {[r EXCEPT !.intact = FALSE]}) \ {r}

IsReport(a) == a.kind \in Kinds

\* The edited file is the latest of its directory from then on.
EditReport ==
  /\ Edit
  /\ \E i \in DOMAIN exports :
       /\ IsReport(exports[i])
       /\ \E r \in Edited(exports[i].report) :
            exports' = Append(RemoveAt(exports, i), [exports[i] EXCEPT !.report = r])
  /\ UNCHANGED <<content, authority, process, index, written, history>>

RemoveExport ==
  /\ Edit
  /\ \E i \in DOMAIN exports : exports' = RemoveAt(exports, i)
  /\ UNCHANGED <<content, authority, process, index, written, history>>

\* export-replay-baseline and export-replay-diff: what they find is AuthorityLog's.
ExportReplay ==
  /\ written < MaxArtifacts
  /\ written' = written + 1
  /\ \E b \in BOOLEAN :
       \/ exports' = Append(exports, [id |-> written', kind |-> "baseline", safe |-> b])
       \/ /\ \E i \in DOMAIN exports : exports[i].kind = "baseline"
          /\ exports' = Append(exports, [id |-> written', kind |-> "diff", admissible |-> b])
  /\ UNCHANGED <<content, authority, process, index, edits, history>>

-----------------------------------------------------------------------------
(***************************************************************************)
(* The exporters                                                           *)
(***************************************************************************)
\* The replay inputs: none, or a baseline and a diff, of whatever baseline.
Inputs ==
  {<<NoInput, NoInput>>}
  \cup {p \in Range(exports) \X Range(exports) : p[1].kind = "baseline" /\ p[2].kind = "diff"}

Start ==
  /\ pc = "idle"
  /\ written < MaxArtifacts
  /\ \E kind \in Kinds, in \in Inputs :
       job' = [kind |-> kind, baseline |-> in[1], diff |-> in[2]]
  /\ pc' = "list"
  /\ UNCHANGED <<content, authority, exports, round, listed, hashed, next, ok, admissible,
                 verdicts, index, written, edits, history>>

\* A federation audit reads no snapshot for its own policy section.
Snapshots == round <= 2

\* buildPolicyManifest
ListedFiles == Required \cup {f \in File : content[f] # Absent}

\* buildAuthoritySnapshot, which a torn line stops, and verifyAuthoritySnapshotExport;
\* then the policy files are listed.
ListFiles ==
  /\ pc = "list"
  /\ Snapshots => Readable(authority)
  /\ admissible' = IF round = 1 THEN Admissible(authority) ELSE admissible
  /\ listed' = ListedFiles
  /\ pc' = "hash"
  /\ UNCHANGED <<content, authority, exports, job, round, hashed, next, ok, verdicts, index,
                 written, edits, history>>

HashFileBug ==
  /\ pc = "hash" /\ next <= Files + 1
  /\ hashed' = [hashed EXCEPT ![next] = IF next \in listed THEN content[next] ELSE Absent]
  /\ next' = next + 1
  /\ UNCHANGED <<content, authority, exports, pc, job, round, listed, ok, admissible,
                 verdicts, index, written, edits, history>>

\* hashFileRef: a missing file gets no hash.
HashFile ==
  /\ pc = "hash" /\ next <= Files
  /\ hashed' = [hashed EXCEPT ![next] = IF next \in listed THEN content[next] ELSE Absent]
  /\ next' = next + 1
  /\ UNCHANGED <<content, authority, exports, pc, job, round, listed, ok, admissible,
                 verdicts, index, written, edits, history>>

BeginVerify ==
  /\ pc = "hash" /\ next = Files + 1
  /\ pc' = "verify" /\ next' = 1
  /\ between' = content /\ returned' = FALSE
  /\ UNCHANGED <<content, authority, exports, job, round, listed, hashed, ok, admissible,
                 verdicts, index, written, edits>>

FileStatusBug(f) ==
  IF hashed[f] # Absent /\ content[f] \notin {Absent, hashed[f]} THEN "mismatch" ELSE "match"

\* One entry of verifyPolicyHashes.
FileStatus(f) ==
  CASE hashed[f] = Absent                               -> "invalid_entry"
    [] hashed[f] # Absent /\ content[f] = Absent        -> "missing"
    [] hashed[f] # Absent /\ content[f] = hashed[f]     -> "match"
    [] OTHER                                            -> "mismatch"

VerifyFile ==
  /\ pc = "verify" /\ next <= Files
  /\ ok' = (ok /\ (next \in listed => FileStatus(next) = "match"))
  /\ next' = next + 1
  /\ UNCHANGED <<content, authority, exports, pc, job, round, listed, hashed, admissible,
                 verdicts, index, written, edits, history>>

\* The manifest of a round is garbage after it.
Forget ==
  /\ listed' = {} /\ hashed' = NoFiles /\ next' = 1 /\ ok' = TRUE
  /\ between' = NoFiles /\ returned' = FALSE

EndRound ==
  /\ pc = "verify" /\ next = Files + 1
  /\ verdicts' = Append(verdicts, ok)
  /\ round' = round + 1
  /\ pc' = IF round < Rounds(job.kind) THEN "list" ELSE "write"
  /\ Forget
  /\ UNCHANGED <<content, authority, exports, job, admissible, index, written, edits>>

EndProcess ==
  /\ pc' = "idle" /\ job' = NoJob /\ round' = 1
  /\ admissible' = TRUE /\ verdicts' = <<>>
  /\ Forget

HasReplay == job.baseline # NoInput

\* The report of the job.
Report ==
  CASE job.kind = "governance" -> GovernanceReport(admissible, verdicts[1], HasReplay)
    [] job.kind = "provenance" -> ProvenanceReport(job.baseline, job.diff, verdicts[1])
    [] job.kind = "federation" ->
         FederationAudit(GovernanceReport(admissible, verdicts[1], HasReplay),
                         ProvenanceReport(job.baseline, job.diff, verdicts[2]), verdicts[3])

WriteReport ==
  /\ pc = "write"
  /\ written < MaxArtifacts
  /\ written' = written + 1
  /\ exports' = Append(exports, [id |-> written', kind |-> job.kind, report |-> Report,
                                 original |-> Report])
  /\ EndProcess
  /\ UNCHANGED <<content, authority, index, edits>>

\* An exception, such as a torn log or a file gone between two calls, or a kill.
Die ==
  /\ pc # "idle"
  /\ EndProcess
  /\ UNCHANGED <<content, authority, exports, index, written, edits>>

-----------------------------------------------------------------------------
(***************************************************************************)
(* The index of the latest reports                                         *)
(***************************************************************************)
\* A provenance report shares its directory with the baselines and diffs.
Directory(kind) == IF kind \in Replays \cup {"provenance"} THEN "provenance" ELSE kind

Latest(kind) ==
  LET I == {i \in DOMAIN exports : Directory(exports[i].kind) = kind} IN
    IF I = {} THEN NoInput ELSE exports[Max(I)]

\* What the index says of the latest file: a date, a status and a claim only
\* where the file has them under the names of this kind of report.
NoRef == [path |-> 0, dated |-> FALSE, status |-> "null", claim |-> "null"]
Claim(report) == IF report.claim THEN "true" ELSE "false"
Ref(kind) ==
  LET a == Latest(kind) IN
    IF a = NoInput THEN NoRef
    ELSE IF ~IsReport(a) THEN [NoRef EXCEPT !.path = a.id]
    ELSE [path |-> a.id, dated |-> a.report.intact, status |-> a.report.status,
          claim |-> Claim(a.report)]

\* Read by properties only: the latest report of the kind, wherever it lies.
LatestReport(kind) ==
  LET I == {i \in DOMAIN exports : exports[i].kind = kind}
      a == exports[Max(I)]
  IN IF I = {} THEN NoInput
     ELSE [path |-> a.id, status |-> a.report.status, claim |-> Claim(a.report)]

WriteIndex ==
  /\ written < MaxArtifacts
  /\ written' = written + 1
  /\ index' = [refs   |-> [kind \in Kinds |-> Ref(kind)],
               latest |-> [kind \in Kinds |-> LatestReport(kind)]]
  /\ UNCHANGED <<content, authority, exports, process, edits, history>>

RefVerifiesBug(ref) ==
  ref.path # 0 => \E i \in DOMAIN exports : exports[i].id = ref.path

\* verify-latest-report-index
RefVerifies(ref) ==
  ref.path # 0 =>
    /\ ref.dated /\ ref.status \in Status
    /\ \E i \in DOMAIN exports : exports[i].id = ref.path
IndexVerifies == index # NoIndex /\ \A kind \in Kinds : RefVerifies(index.refs[kind])

\* The Evidence Overview of the desktop window. It shows whatever the index
\* says, verified or not.
readLatestReportIndex ==
  IF index = NoIndex THEN [ok |-> FALSE] ELSE [ok |-> TRUE, refs |-> index.refs]

evidenceStatusLabel(status) == IF status \in Status THEN status ELSE "Missing"
yesNoUnknown(value) ==
  CASE value = "true" -> "Yes" [] value = "false" -> "No" [] OTHER -> "Unknown"

renderEvidenceIndex(data) ==
  IF ~data.ok THEN [kind \in Kinds |-> "No evidence index found"]
  ELSE [kind \in Kinds |-> <<evidenceStatusLabel(data.refs[kind].status),
                             yesNoUnknown(data.refs[kind].claim)>>]

Next ==
  \/ \E f \in File : EditPolicy(f)
  \/ EditAuthority \/ EditReport \/ RemoveExport \/ ExportReplay
  \/ Start \/ ListFiles \/ HashFile \/ BeginVerify \/ VerifyFile \/ EndRound
  \/ WriteReport \/ Die
  \/ WriteIndex

Spec == Init /\ [][Next]_vars

-----------------------------------------------------------------------------
(***************************************************************************)
(* Properties                                                              *)
(***************************************************************************)
\* The policy files are hashed one by one and compared one by one while they
\* change. When all match, the manifest states contents that all its files had
\* at one moment, the required ones among them, unless a file got its hashed
\* content back in between (policyHasher.ts:84-168, governanceReport.ts:193-199).
VerifiedIsSnapshot ==
  pc = "verify" /\ next = Files + 1 /\ ok /\ ~returned =>
    /\ Required \subseteq listed
    /\ \A f \in listed : hashed[f] # Absent /\ between[f] = hashed[f]

\* The verifiers accept each report as an exporter wrote it, whatever its
\* inputs and whatever changed while it was built; and they refuse it once a
\* hand has raised what it claims, except for a governance report all of whose
\* sections hold and that only warnings keep from being release safe (the
\* verify-*-report.ts scripts against the three builders).
VerifiersAgree ==
  \A i \in DOMAIN exports : IsReport(exports[i]) =>
    LET r == exports[i].report IN
      /\ Verifies(exports[i].original)
      /\ r.claim /\ ~exports[i].original.claim /\ Verifies(r)
         => r.kind = "governance" /\ ~HasIncompleteSection(r)

\* An index that passes its verifier names, for each kind, the report that was
\* the latest when the index was written, and the window made of it shows the
\* status and the claim that report had; baselines and diffs, which lie in the
\* same directory as the provenance reports, never hide a report behind them
\* (export-latest-report-index.ts:63-193, verify-latest-report-index.ts:84-135,
\* renderer.js:210-345).
VerifiedIndexNamesLatest ==
  IndexVerifies =>
    \A kind \in Kinds :
      LET latest == index.latest[kind] IN
        latest # NoInput =>
          /\ index.refs[kind].path = latest.path
          /\ renderEvidenceIndex(readLatestReportIndex)[kind]
               = <<latest.status, IF latest.claim = "true" THEN "Yes" ELSE "No">>
=============================================================================
