----------------------- MODULE EvidenceReportsProofs -----------------------
(***************************************************************************)
(* Proofs about EvidenceReports for any number of policy files, contents,  *)
(* edits and exports.                                                      *)
(***************************************************************************)
EXTENDS EvidenceReports, WellFoundedInduction, TLAPS

-----------------------------------------------------------------------------
(***************************************************************************)
(* What the builders return                                                *)
(***************************************************************************)
\* What every edit by hand leaves of a report that an exporter wrote.
Built(o) ==
  /\ Verifies(o)
  /\ o.kind = "provenance" /\ o.complete => o.claim
  /\ o.kind = "federation" => ~o.ready

LEMMA StatusTypes ==
  /\ \A b : Passed(b) \in Status /\ Given(b) \in Status
  /\ \A S : Worst(S) \in Status
BY DEF Passed, Given, Worst, Status

\* A summary is verified only if nothing fails, lacks or warns.
LEMMA WorstVerified ==
  ASSUME NEW S, S \cap {"failed", "incomplete", "verified_with_warnings"} # {}
  PROVE  Worst(S) # "verified"
<1>1. CASE "failed" \in S
  BY <1>1 DEF Worst, Incomplete
<1>2. CASE "failed" \notin S /\ "incomplete" \in S
  <2>1. S \cap Incomplete = {"incomplete"}
    BY <1>2 DEF Incomplete
  <2> QED BY <1>2, <2>1 DEF Worst
<1>3. CASE "failed" \notin S /\ "incomplete" \notin S
  <2>1. S \cap Incomplete = {} /\ "verified_with_warnings" \in S
    BY <1>3 DEF Incomplete
  <2> QED BY <1>3, <2>1 DEF Worst
<1> QED BY <1>1, <1>2, <1>3

LEMMA GovernanceBuilt ==
  ASSUME NEW authorityOk \in BOOLEAN, NEW policyOk \in BOOLEAN, NEW replay \in BOOLEAN
  PROVE  LET r == GovernanceReport(authorityOk, policyOk, replay) IN
           r \in GovernanceReports /\ Built(r)
<1> DEFINE sections == GovernanceSections(authorityOk, policyOk, replay)
           r == GovernanceReport(authorityOk, policyOk, replay)
<1>1. sections \in [authority: Status, trust: Status, revocation: Status, policy: Status,
                    replay: Status, diagnostics: Status]
  BY StatusTypes DEF GovernanceSections, Status
<1>2. /\ r.kind = "governance" /\ r.intact /\ r.sections = sections
      /\ r.status = Worst(Range(sections)) /\ r.claim = (r.status = "verified")
      /\ r.status \in Status
  BY StatusTypes DEF GovernanceReport
<1>3. r \in GovernanceReports
  BY <1>1, <1>2, StatusTypes DEF GovernanceReport, GovernanceReports
<1>4. HasIncompleteSection(r) => r.status # "verified"
  BY <1>2, WorstVerified DEF HasIncompleteSection, Incomplete
<1>5. Built(r)
  BY <1>2, <1>4 DEF Built, Verifies, GovernanceVerifies, Overstated
<1> QED BY <1>3, <1>5

LEMMA ProvenanceBuilt ==
  ASSUME NEW baseline \in Baseline \cup {NoInput}, NEW diff \in Diff \cup {NoInput},
         NEW policyOk \in BOOLEAN
  PROVE  LET r == ProvenanceReport(baseline, diff, policyOk) IN
           r \in ProvenanceReports /\ Built(r)
<1> DEFINE sections == ProvenanceSections(baseline, diff, policyOk)
           warnings == Warnings(baseline, diff)
           criticals == Criticals(baseline, diff, policyOk)
           r == ProvenanceReport(baseline, diff, policyOk)
<1>1. sections \in [authority: Status, replay: Status, trust: Status, revocation: Status,
                    policy: Status]
  BY StatusTypes DEF ProvenanceSections, Status
<1>2. warnings \subseteq Gap /\ criticals \subseteq Gap
  BY DEF Warnings, Criticals, Gap
<1>3. /\ r.kind = "provenance" /\ r.intact /\ r.sections = sections
      /\ r.baseline = (baseline # NoInput) /\ r.diff = (diff # NoInput)
      /\ r.gaps = warnings \cup criticals
      /\ r.complete = (NoInput \notin {baseline, diff} /\ criticals = {})
      /\ r.explainable = (NoInput \notin {baseline, diff} /\ policyOk)
      /\ r.status = ProvenanceStatus(r.complete, r.explainable, warnings, criticals)
      /\ r.claim = (r.status = "verified")
  BY DEF ProvenanceReport
<1>4. r.status \in Status
  BY <1>3 DEF ProvenanceStatus, Status
<1>5. r \in ProvenanceReports
  BY <1>1, <1>2, <1>4 DEF ProvenanceReport, ProvenanceReports
<1>6. r.status = "verified" => r.complete
  BY <1>3 DEF ProvenanceStatus
<1>7. r.complete => warnings = {} /\ criticals = {} /\ policyOk
  BY <1>3 DEF Warnings, Criticals
<1>8. r.complete => r.explainable /\ r.status = "verified"
  BY <1>3, <1>7 DEF ProvenanceStatus
<1>9. r.complete => ~HasIncompleteSection(r) /\ r.sections.replay = "verified"
  <2> SUFFICES ASSUME r.complete PROVE ~HasIncompleteSection(r) /\ r.sections.replay = "verified"
    OBVIOUS
  <2>1. sections = [authority |-> "verified", replay |-> "verified",
                    trust |-> "verified_with_warnings", revocation |-> "verified",
                    policy |-> "verified"]
    BY <1>3, <1>7 DEF ProvenanceSections, Given, Passed
  <2>2. \A x \in Range(sections) : x \in {"verified", "verified_with_warnings"}
    BY <2>1 DEF Range
  <2> QED BY <1>3, <2>1, <2>2 DEF HasIncompleteSection, Incomplete
<1>10. GapsDeclared(r)
  BY <1>3 DEF GapsDeclared, Warnings
<1>11. ~LineageOverstated(r)
  BY <1>3, <1>6, <1>9 DEF LineageOverstated, Incomplete
<1>12. ~Overstated(r)
  BY <1>6, <1>9 DEF Overstated
<1>13. Built(r)
  BY <1>3, <1>8, <1>10, <1>11, <1>12 DEF Built, Verifies, ProvenanceVerifies
<1> QED BY <1>5, <1>13

LEMMA FederationBuilt ==
  ASSUME NEW governance \in GovernanceReports, NEW provenance \in ProvenanceReports,
         NEW policyOk \in BOOLEAN
  PROVE  LET r == FederationAudit(governance, provenance, policyOk) IN
           r \in FederationAudits /\ Built(r)
<1> DEFINE missing == Missing(governance, provenance)
           criticals == IF policyOk THEN {} ELSE {"policy_hashes"}
           r == FederationAudit(governance, provenance, policyOk)
<1>1. /\ r.kind = "federation" /\ r.intact /\ r.release_safe = governance.claim
      /\ r.admissible = provenance.claim /\ r.complete = provenance.complete
      /\ r.missing = missing /\ r.warnings = NotImplemented
      /\ r.ready = (criticals = {} /\ missing = {} /\ NotImplemented = {})
      /\ r.status = FederationStatus(criticals, missing, NotImplemented)
      /\ r.claim = (r.status = "verified" /\ r.ready)
      /\ r.sections = [governance |-> governance.status, replay_provenance |-> provenance.status,
                       policy |-> Passed(policyOk), diagnostics |-> "verified"]
  BY DEF FederationAudit
<1>2. NotImplemented # {} /\ ~r.ready /\ ~r.claim
  BY <1>1 DEF NotImplemented
<1>3. r.status # "verified" /\ r.status \in Status
  BY <1>1, <1>2, StatusTypes, WorstVerified DEF FederationStatus
<1>4. missing \subseteq {"release_safe", "admissible", "lineage_complete"}
  BY DEF Missing
<1>5. r \in FederationAudits
  BY <1>1, <1>2, <1>3, <1>4, StatusTypes
     DEF FederationAudit, FederationAudits, GovernanceReports, ProvenanceReports, NotImplemented, Status
<1>6. ~ReadyOverstated(r)
  BY <1>2, <1>3 DEF ReadyOverstated
<1>7. AllDeclared(r)
  BY <1>1 DEF AllDeclared, Missing
<1>8. Built(r)
  BY <1>1, <1>2, <1>6, <1>7 DEF Built, Verifies, FederationVerifies
<1> QED BY <1>5, <1>8

-----------------------------------------------------------------------------
(***************************************************************************)
(* Types                                                                   *)
(***************************************************************************)
\* A process has one verdict for each round behind it.
Rounded ==
  /\ Len(verdicts) = round - 1
  /\ pc \in {"list", "hash", "verify"} => round <= Rounds(job.kind)
  /\ pc = "write" => round = Rounds(job.kind) + 1
  /\ pc = "idle" => round = 1

LEMMA JobTypes ==
  /\ NoJob \in Job
  /\ \A kind \in Kinds : Rounds(kind) \in {1, 3}
BY DEF NoJob, Job, Kinds, Rounds

\* A sequence without one of its elements.
LEMMA RemoveAtType ==
  ASSUME NEW S, NEW s \in Seq(S), NEW i \in DOMAIN s
  PROVE  RemoveAt(s, i) \in Seq(S)
<1>1. SubSeq(s, 1, i - 1) \in Seq(S)
  OBVIOUS
<1>2. SubSeq(s, i + 1, Len(s)) \in Seq(S)
  OBVIOUS
<1> QED BY <1>1, <1>2 DEF RemoveAt

LEMMA ReportType ==
  ASSUME TypeOK, Rounded, pc = "write"
  PROVE  Report \in AnyReport /\ Report.kind = job.kind /\ Built(Report)
<1>1. /\ job.kind \in Kinds /\ job.baseline \in Baseline \cup {NoInput}
      /\ job.diff \in Diff \cup {NoInput} /\ admissible \in BOOLEAN /\ HasReplay \in BOOLEAN
  BY DEF TypeOK, Job, HasReplay
<1>2. verdicts \in Seq(BOOLEAN) /\ Len(verdicts) = Rounds(job.kind)
  BY JobTypes, <1>1 DEF TypeOK, Rounded
<1>3. verdicts[1] \in BOOLEAN /\ (job.kind = "federation" => verdicts[2] \in BOOLEAN /\ verdicts[3] \in BOOLEAN)
  BY <1>1, <1>2 DEF Rounds
<1>4. GovernanceReport(admissible, verdicts[1], HasReplay) \in GovernanceReports
      /\ Built(GovernanceReport(admissible, verdicts[1], HasReplay))
  BY <1>1, <1>3, GovernanceBuilt
<1>5. CASE job.kind = "governance"
  BY <1>4, <1>5 DEF Report, AnyReport, GovernanceReports
<1>6. CASE job.kind = "provenance"
  <2>1. ProvenanceReport(job.baseline, job.diff, verdicts[1]) \in ProvenanceReports
        /\ Built(ProvenanceReport(job.baseline, job.diff, verdicts[1]))
    BY <1>1, <1>3, ProvenanceBuilt
  <2> QED BY <1>6, <2>1 DEF Report, AnyReport, ProvenanceReports
<1>7. CASE job.kind = "federation"
  <2>1. ProvenanceReport(job.baseline, job.diff, verdicts[2]) \in ProvenanceReports
    BY <1>1, <1>3, <1>7, ProvenanceBuilt
  <2> DEFINE g == GovernanceReport(admissible, verdicts[1], HasReplay)
             p == ProvenanceReport(job.baseline, job.diff, verdicts[2])
  <2>2. /\ FederationAudit(g, p, verdicts[3]) \in FederationAudits
        /\ Built(FederationAudit(g, p, verdicts[3]))
    BY <1>3, <1>4, <1>7, <2>1, FederationBuilt
  <2>3. Report = FederationAudit(g, p, verdicts[3])
    BY <1>7 DEF Report
  <2> QED BY <1>7, <2>2, <2>3 DEF AnyReport, FederationAudits
<1> QED BY <1>1, <1>5, <1>6, <1>7 DEF Kinds

\* An edited report is a report.
LEMMA EditedType ==
  ASSUME NEW o \in AnyReport, NEW r \in Edited(o)
  PROVE  r \in AnyReport /\ r.kind = o.kind
<1>1. "verified" \in Status
  BY DEF Status
<1>2. r \in {[o EXCEPT !.claim = TRUE], [o EXCEPT !.status = "verified"], [o EXCEPT !.intact = FALSE]}
  BY DEF Edited, Raised
<1>3. CASE o \in GovernanceReports
  <2>1. [o EXCEPT !.claim = TRUE] \in GovernanceReports /\ [o EXCEPT !.claim = TRUE].kind = o.kind
    BY <1>3 DEF GovernanceReports
  <2>2. [o EXCEPT !.status = "verified"] \in GovernanceReports /\ [o EXCEPT !.status = "verified"].kind = o.kind
    BY <1>1, <1>3 DEF GovernanceReports
  <2>3. [o EXCEPT !.intact = FALSE] \in GovernanceReports /\ [o EXCEPT !.intact = FALSE].kind = o.kind
    BY <1>3 DEF GovernanceReports
  <2> QED BY <1>2, <2>1, <2>2, <2>3 DEF AnyReport
<1>4. CASE o \in ProvenanceReports
  <2>1. [o EXCEPT !.claim = TRUE] \in ProvenanceReports /\ [o EXCEPT !.claim = TRUE].kind = o.kind
    BY <1>4 DEF ProvenanceReports
  <2>2. [o EXCEPT !.status = "verified"] \in ProvenanceReports /\ [o EXCEPT !.status = "verified"].kind = o.kind
    BY <1>1, <1>4 DEF ProvenanceReports
  <2>3. [o EXCEPT !.intact = FALSE] \in ProvenanceReports /\ [o EXCEPT !.intact = FALSE].kind = o.kind
    BY <1>4 DEF ProvenanceReports
  <2> QED BY <1>2, <2>1, <2>2, <2>3 DEF AnyReport
<1>5. CASE o \in FederationAudits
  <2>1. [o EXCEPT !.claim = TRUE] \in FederationAudits /\ [o EXCEPT !.claim = TRUE].kind = o.kind
    BY <1>5 DEF FederationAudits
  <2>2. [o EXCEPT !.status = "verified"] \in FederationAudits /\ [o EXCEPT !.status = "verified"].kind = o.kind
    BY <1>1, <1>5 DEF FederationAudits
  <2>3. [o EXCEPT !.intact = FALSE] \in FederationAudits /\ [o EXCEPT !.intact = FALSE].kind = o.kind
    BY <1>5 DEF FederationAudits
  <2> QED BY <1>2, <2>1, <2>2, <2>3 DEF AnyReport
<1> QED BY <1>3, <1>4, <1>5 DEF AnyReport

LEMMA TypeInit == Init => TypeOK /\ Rounded
<1> SUFFICES ASSUME Init PROVE TypeOK /\ Rounded
  OBVIOUS
<1> USE FilesAssumption, BoundAssumption DEF File, Content, Absent
<1>1. /\ content \in [File -> Content] /\ hashed \in [File -> Content]
      /\ between \in [File -> Content]
  BY DEF Init, NoFiles
<1>2. /\ authority \in Logs /\ pc \in Pc /\ round \in 1 .. 4 /\ listed \subseteq File
      /\ next \in 1 .. (Files + 1) /\ written \in 0 .. MaxArtifacts /\ edits \in 0 .. MaxEdits
  BY DEF Init, Logs, Pc
<1>3. ok \in BOOLEAN /\ admissible \in BOOLEAN /\ returned \in BOOLEAN
  BY DEF Init
<1>4. verdicts \in Seq(BOOLEAN) /\ exports \in Seq(Artifact) /\ job \in Job /\ Len(verdicts) = 0
  BY JobTypes DEF Init
<1>5. Rounded
  BY <1>4 DEF Init, Rounded
<1> QED BY <1>1, <1>2, <1>3, <1>4, <1>5 DEF TypeOK

LEMMA TypeStep ==
  ASSUME TypeOK, Rounded, [Next]_vars
  PROVE  TypeOK' /\ Rounded'
<1> USE FilesAssumption, BoundAssumption DEF File, Content, Absent
<1>0. /\ content \in [File -> Content] /\ authority \in Logs /\ pc \in Pc /\ round \in 1 .. 4
      /\ listed \subseteq File /\ hashed \in [File -> Content] /\ next \in 1 .. (Files + 1)
      /\ ok \in BOOLEAN /\ admissible \in BOOLEAN /\ verdicts \in Seq(BOOLEAN)
      /\ job \in Job /\ exports \in Seq(Artifact)
      /\ written \in 0 .. MaxArtifacts /\ edits \in 0 .. MaxEdits
      /\ between \in [File -> Content] /\ returned \in BOOLEAN
  BY DEF TypeOK
<1>00. job.kind \in Kinds /\ Rounds(job.kind) \in {1, 3}
  BY <1>0, JobTypes DEF Job
\* What changes around the process, and what changes in it.
<1>1. ASSUME UNCHANGED process, between' = between,
             exports' \in Seq(Artifact), content' \in [File -> Content], authority' \in Logs,
             written' \in 0 .. MaxArtifacts, edits' \in 0 .. MaxEdits, returned' \in BOOLEAN
      PROVE  TypeOK' /\ Rounded'
  BY <1>1 DEF TypeOK, Rounded, process
<1>a. ASSUME UNCHANGED <<content, authority, edits>>,
             exports' \in Seq(Artifact), written' \in 0 .. MaxArtifacts,
             pc' \in Pc, job' \in Job, round' \in 1 .. 4, listed' \subseteq File,
             hashed' \in [File -> Content], next' \in 1 .. (Files + 1), ok' \in BOOLEAN,
             admissible' \in BOOLEAN, verdicts' \in Seq(BOOLEAN),
             between' \in [File -> Content], returned' \in BOOLEAN
      PROVE  TypeOK'
  BY <1>0, <1>a DEF TypeOK
<1>2. ASSUME NEW f \in File, EditPolicy(f) PROVE TypeOK' /\ Rounded'
  <2>1. content' \in [File -> Content]
    BY <1>0, <1>2 DEF EditPolicy
  <2>2. returned' \in BOOLEAN
    BY <1>2 DEF EditPolicy
  <2>3. edits' \in 0 .. MaxEdits
    BY <1>0, <1>2 DEF EditPolicy, Edit
  <2>4. UNCHANGED <<authority, exports, process, written, between>>
    BY <1>2 DEF EditPolicy
  <2> QED BY <1>0, <1>1, <2>1, <2>2, <2>3, <2>4
<1>3. CASE EditAuthority
  <2>1. authority' \in Logs /\ edits' \in 0 .. MaxEdits
    BY <1>0, <1>3 DEF EditAuthority, Edit
  <2>2. UNCHANGED <<content, exports, process, written, between, returned>>
    BY <1>3 DEF EditAuthority, history
  <2> QED BY <1>0, <1>1, <2>1, <2>2
<1>4. CASE EditReport
  <2>1. PICK i \in DOMAIN exports :
          /\ IsReport(exports[i])
          /\ \E r \in Edited(exports[i].report) :
               exports' = Append(RemoveAt(exports, i), [exports[i] EXCEPT !.report = r])
    BY <1>4 DEF EditReport
  <2>2. PICK r \in Edited(exports[i].report) :
          exports' = Append(RemoveAt(exports, i), [exports[i] EXCEPT !.report = r])
    BY <2>1
  <2>3. exports[i] \in Written
    <3>1. exports[i] \in Artifact
      BY <1>0
    <3> QED BY <2>1, <3>1 DEF IsReport, Artifact, Baseline, Diff, Kinds
  <2>4. r \in AnyReport
    BY <2>3, EditedType DEF Written
  <2>5. [exports[i] EXCEPT !.report = r] \in Artifact
    BY <2>3, <2>4 DEF Artifact, Written
  <2>6. exports' \in Seq(Artifact)
    BY <1>0, <2>2, <2>5, RemoveAtType
  <2>7. edits' \in 0 .. MaxEdits /\ UNCHANGED <<content, authority, process, written, between, returned>>
    BY <1>0, <1>4 DEF EditReport, Edit, history
  <2> QED BY <1>0, <1>1, <2>6, <2>7
<1>5. CASE RemoveExport
  <2>1. exports' \in Seq(Artifact)
    BY <1>0, <1>5, RemoveAtType DEF RemoveExport
  <2>2. edits' \in 0 .. MaxEdits /\ UNCHANGED <<content, authority, process, written, between, returned>>
    BY <1>0, <1>5 DEF RemoveExport, Edit, history
  <2> QED BY <1>0, <1>1, <2>1, <2>2
<1>6. CASE ExportReplay
  <2>1. written' \in 1 .. MaxArtifacts
        /\ UNCHANGED <<content, authority, process, edits, between, returned>>
    BY <1>0, <1>6 DEF ExportReplay, history
  <2>2. \A b \in BOOLEAN : /\ [id |-> written', kind |-> "baseline", safe |-> b] \in Artifact
                           /\ [id |-> written', kind |-> "diff", admissible |-> b] \in Artifact
    BY <2>1 DEF Artifact, Baseline, Diff
  <2>3. \E e \in Artifact : exports' = Append(exports, e)
    BY <1>6, <2>2 DEF ExportReplay
  <2>4. exports' \in Seq(Artifact)
    BY <1>0, <2>3
  <2> QED BY <1>0, <1>1, <2>1, <2>4
<1>7. CASE Start
  <2>1. PICK kind \in Kinds, in \in Inputs : job' = [kind |-> kind, baseline |-> in[1], diff |-> in[2]]
    BY <1>7 DEF Start
  <2>2. \A e \in Range(exports) : e \in Artifact
    BY <1>0 DEF Range
  <2>3. in[1] \in Baseline \cup {NoInput} /\ in[2] \in Diff \cup {NoInput}
    BY <2>1, <2>2 DEF Inputs, Artifact, Baseline, Diff, Written, Kinds
  <2>4. job' \in Job /\ job'.kind = kind
    BY <2>1, <2>3 DEF Job
  <2>5. /\ pc = "idle" /\ pc' = "list"
        /\ UNCHANGED <<content, authority, exports, round, listed, hashed, next, ok, admissible,
                       verdicts, written, edits, between, returned>>
    BY <1>7 DEF Start, history
  <2>6. TypeOK'
    BY <1>0, <1>a, <2>4, <2>5 DEF Pc
  <2>7. Rounded'
    BY <1>0, <2>1, <2>4, <2>5, JobTypes DEF Rounded
  <2> QED BY <2>6, <2>7
<1>8. CASE ListFiles
  <2>1. /\ pc = "list" /\ pc' = "hash" /\ listed' \subseteq File /\ admissible' \in BOOLEAN
        /\ UNCHANGED <<content, authority, exports, job, round, hashed, next, ok, verdicts,
                       written, edits, between, returned>>
    BY <1>0, <1>8 DEF ListFiles, ListedFiles, Admissible, history
  <2>2. TypeOK'
    BY <1>0, <1>a, <2>1 DEF Pc
  <2> QED BY <2>1, <2>2 DEF Rounded
<1>9. CASE HashFile
  <2>1. /\ pc = "hash" /\ hashed' \in [File -> Content] /\ next' \in 1 .. (Files + 1)
        /\ UNCHANGED <<content, authority, exports, pc, job, round, listed, ok, admissible,
                       verdicts, written, edits, between, returned>>
    BY <1>0, <1>9 DEF HashFile, history
  <2>2. TypeOK'
    BY <1>0, <1>a, <2>1
  <2> QED BY <2>1, <2>2 DEF Rounded
<1>10. CASE BeginVerify
  <2>0. returned' \in BOOLEAN
    BY <1>10 DEF BeginVerify
  <2>1. /\ pc = "hash" /\ pc' = "verify" /\ next' \in 1 .. (Files + 1) /\ between' = content
        /\ UNCHANGED <<content, authority, exports, job, round, listed, hashed, ok, admissible,
                       verdicts, written, edits>>
    BY <1>0, <1>10 DEF BeginVerify
  <2>2. TypeOK'
    BY <1>0, <1>a, <2>0, <2>1 DEF Pc
  <2> QED BY <2>1, <2>2 DEF Rounded
<1>11. CASE VerifyFile
  <2>1. ok' \in BOOLEAN
    BY <1>11 DEF VerifyFile
  <2>2. /\ pc = "verify" /\ next' \in 1 .. (Files + 1)
        /\ UNCHANGED <<content, authority, exports, pc, job, round, listed, hashed, admissible,
                       verdicts, written, edits, between, returned>>
    BY <1>0, <1>11 DEF VerifyFile, history
  <2>3. TypeOK'
    BY <1>0, <1>a, <2>1, <2>2
  <2> QED BY <2>2, <2>3 DEF Rounded
\* The manifest of a round is forgotten.
<1>b. ASSUME Forget
      PROVE  /\ listed' \subseteq File /\ hashed' \in [File -> Content] /\ next' \in 1 .. (Files + 1)
             /\ ok' \in BOOLEAN /\ between' \in [File -> Content] /\ returned' \in BOOLEAN
  <2>1. NoFiles \in [File -> Content]
    BY DEF NoFiles
  <2>2. listed' = {} /\ hashed' = NoFiles /\ next' = 1 /\ between' = NoFiles
    BY <1>b DEF Forget
  <2>3. ok' \in BOOLEAN /\ returned' \in BOOLEAN
    BY <1>b DEF Forget
  <2> QED BY <2>1, <2>2, <2>3
<1>12. CASE EndRound
  <2>1. /\ pc = "verify" /\ round <= Rounds(job.kind) /\ round' = round + 1
        /\ verdicts' = Append(verdicts, ok)
        /\ pc' = IF round < Rounds(job.kind) THEN "list" ELSE "write"
        /\ UNCHANGED <<content, authority, exports, job, admissible, written, edits>>
    BY <1>12 DEF EndRound, Rounded
  <2>2. round' \in 1 .. 4 /\ pc' \in Pc
    BY <1>0, <1>00, <2>1 DEF Pc
  <2>3. verdicts' \in Seq(BOOLEAN) /\ Len(verdicts') = Len(verdicts) + 1
    BY <1>0, <2>1
  <2>4. Forget
    BY <1>12 DEF EndRound
  <2>5. TypeOK'
    BY <1>0, <1>a, <1>b, <2>1, <2>2, <2>3, <2>4
  <2>6. Rounded'
    BY <1>0, <1>00, <2>1, <2>3 DEF Rounded
  <2> QED BY <2>5, <2>6
<1>13. ASSUME EndProcess, exports' \in Seq(Artifact), written' \in 0 .. MaxArtifacts,
              UNCHANGED <<content, authority, edits>>
       PROVE  TypeOK' /\ Rounded'
  <2>1. pc' = "idle" /\ job' \in Job /\ round' = 1 /\ admissible' \in BOOLEAN /\ Forget
    BY <1>13, JobTypes DEF EndProcess
  <2>2. verdicts' \in Seq(BOOLEAN) /\ Len(verdicts') = 0
    BY <1>13 DEF EndProcess
  <2>3. TypeOK'
    BY <1>13, <1>a, <1>b, <2>1, <2>2 DEF Pc
  <2> QED BY <2>1, <2>2, <2>3 DEF Rounded
<1>14. CASE WriteReport
  <2>1. written' \in 1 .. MaxArtifacts /\ pc = "write"
    BY <1>0, <1>14 DEF WriteReport
  <2>2. [id |-> written', kind |-> job.kind, report |-> Report, original |-> Report] \in Artifact
    BY <1>00, <2>1, ReportType DEF Artifact, Written
  <2>3. exports' \in Seq(Artifact)
    BY <1>0, <1>14, <2>2 DEF WriteReport
  <2>4. EndProcess /\ UNCHANGED <<content, authority, edits>>
    BY <1>14 DEF WriteReport
  <2> QED BY <1>13, <2>1, <2>3, <2>4
<1>15. CASE Die
  <2>1. EndProcess /\ UNCHANGED <<content, authority, exports, written, edits>>
    BY <1>15 DEF Die
  <2> QED BY <1>0, <1>13, <2>1
<1>16. CASE WriteIndex
  <2>1. written' \in 0 .. MaxArtifacts
    BY <1>0, <1>16 DEF WriteIndex
  <2>2. UNCHANGED <<content, authority, exports, process, edits, between, returned>>
    BY <1>16 DEF WriteIndex, history
  <2> QED BY <1>0, <1>1, <2>1, <2>2
<1>17. CASE UNCHANGED vars
  <2>1. UNCHANGED <<content, authority, exports, process, written, edits, between, returned>>
    BY <1>17 DEF vars, history
  <2> QED BY <1>0, <1>1, <2>1
<1> QED BY <1>2, <1>3, <1>4, <1>5, <1>6, <1>7, <1>8, <1>9, <1>10, <1>11, <1>12, <1>14, <1>15,
           <1>16, <1>17 DEF Next

\* The scripts keep their types for any numbers of files, edits and exports.
THEOREM TypeCorrect == Spec => []TypeOK
BY TypeInit, TypeStep, PTL DEF Spec

-----------------------------------------------------------------------------
(***************************************************************************)
(* The two readings of the policy files                                    *)
(***************************************************************************)
\* A file that has its hashed content now has had it since the second reading
\* began; those compared so far had it then.
Compared ==
  /\ pc \in {"hash", "verify"} => Required \subseteq listed
  /\ pc = "verify" /\ ~returned =>
       /\ \A f \in File : hashed[f] # Absent /\ content[f] = hashed[f] => between[f] = hashed[f]
       /\ ok => \A f \in listed : f < next => hashed[f] # Absent /\ between[f] = hashed[f]

LEMMA ComparedInit == Init => Compared
BY DEF Init, Compared

LEMMA ComparedStep ==
  ASSUME TypeOK, Compared, [Next]_vars
  PROVE  Compared'
<1>0. /\ content \in [File -> Content] /\ listed \subseteq File /\ hashed \in [File -> Content]
      /\ next \in 1 .. (Files + 1) /\ between \in [File -> Content] /\ File \subseteq Nat
      /\ Files \in Nat /\ Required \subseteq File
  BY FilesAssumption DEF TypeOK, File
<1>1. CASE UNCHANGED <<content, process, between, returned>>
  BY <1>1 DEF Compared, process
<1>2. ASSUME NEW f \in File, EditPolicy(f) PROVE Compared'
  <2>1. PICK v \in Content : /\ content' = [content EXCEPT ![f] = v]
                             /\ returned' = (returned \/ (pc = "verify" /\ v = hashed[f]))
    BY <1>2 DEF EditPolicy
  <2>2. UNCHANGED <<pc, listed, hashed, next, ok, between>>
    BY <1>2 DEF EditPolicy, process
  <2>3. pc = "verify" /\ ~returned' => ~returned /\ v # hashed[f]
    BY <2>1
  <2>4. \A g \in File : content'[g] = IF g = f THEN v ELSE content[g]
    BY <1>0, <2>1
  <2> QED BY <2>2, <2>3, <2>4 DEF Compared
<1>3. CASE EditAuthority \/ EditReport \/ RemoveExport \/ ExportReplay \/ WriteIndex \/ UNCHANGED vars
  BY <1>1, <1>3 DEF EditAuthority, EditReport, RemoveExport, ExportReplay, WriteIndex, vars, history
<1>4. CASE Start
  BY <1>4 DEF Start, Compared
<1>5. CASE ListFiles
  BY <1>5 DEF ListFiles, ListedFiles, Compared
<1>6. CASE HashFile
  BY <1>6 DEF HashFile, Compared
<1>7. CASE BeginVerify
  <2>1. /\ pc' = "verify" /\ next' = 1 /\ between' = content /\ content' = content
        /\ listed' = listed /\ hashed' = hashed /\ pc = "hash"
    BY <1>7 DEF BeginVerify
  <2>2. \A f \in listed : ~(f < 1)
    BY <1>0 DEF File
  <2> QED BY <2>1, <2>2 DEF Compared
<1>8. CASE VerifyFile
  <2>1. /\ pc = "verify" /\ next \in File /\ next' = next + 1
        /\ UNCHANGED <<content, pc, listed, hashed, between, returned>>
    BY <1>0, <1>8 DEF VerifyFile, File, history
  <2>2. ok' => ok /\ (next \in listed => hashed[next] # Absent /\ content[next] = hashed[next])
    <3>1. ok' = (ok /\ (next \in listed => FileStatus(next) = "match"))
      BY <1>8 DEF VerifyFile
    <3>2. FileStatus(next) = "match" => hashed[next] # Absent /\ content[next] = hashed[next]
      BY DEF FileStatus
    <3> QED BY <3>1, <3>2
  <2>3. \A f \in listed : f < next + 1 => f < next \/ f = next
    BY <1>0 DEF File
  <2> QED BY <2>1, <2>2, <2>3 DEF Compared
<1>9. CASE EndRound
  BY <1>9 DEF EndRound, Compared
<1>10. CASE WriteReport \/ Die
  BY <1>10 DEF WriteReport, Die, EndProcess, Compared
<1> QED BY <1>2, <1>3, <1>4, <1>5, <1>6, <1>7, <1>8, <1>9, <1>10 DEF Next

\* Policy files that verify, for any number of files that change at any time,
\* had their hashed contents together at one moment, unless one went back.
THEOREM SnapshotCorrect == Spec => []VerifiedIsSnapshot
<1>1. TypeOK /\ Compared => VerifiedIsSnapshot
  <2> SUFFICES ASSUME TypeOK, Compared, pc = "verify", next = Files + 1, ok, ~returned
               PROVE  /\ Required \subseteq listed
                      /\ \A f \in listed : hashed[f] # Absent /\ between[f] = hashed[f]
    BY DEF VerifiedIsSnapshot
  <2>1. \A f \in listed : f < next
    BY FilesAssumption DEF TypeOK, File
  <2> QED BY <2>1 DEF Compared
<1> QED BY <1>1, TypeInit, TypeStep, ComparedInit, ComparedStep, PTL DEF Spec

-----------------------------------------------------------------------------
(***************************************************************************)
(* Reports and their verifiers                                             *)
(***************************************************************************)
\* What no edit by hand takes from an exported report: the sections, the
\* lineage and the readiness of the original, which an exporter built.
SameEvidence(r, o) ==
  /\ r.kind = o.kind
  /\ r.kind = "provenance" => r.complete = o.complete
  /\ r.kind = "federation" => r.ready = o.ready

Kept(a) == IsReport(a) => Built(a.original) /\ SameEvidence(a.report, a.original)
AllKept == \A i \in DOMAIN exports : Kept(exports[i])

LEMMA KeptInit == Init => AllKept
BY DEF Init, AllKept

\* Whatever is in a sequence without one of its elements was in it before.
LEMMA RemoveAtElements ==
  ASSUME NEW S, NEW s \in Seq(S), NEW i \in DOMAIN s, NEW j \in DOMAIN RemoveAt(s, i)
  PROVE  \E k \in DOMAIN s : RemoveAt(s, i)[j] = s[k]
<1> DEFINE front == SubSeq(s, 1, i - 1)
           back  == SubSeq(s, i + 1, Len(s))
<1>1. /\ front \in Seq(S) /\ Len(front) = i - 1
      /\ \A k \in 1 .. (i - 1) : front[k] = s[k]
  OBVIOUS
<1>2. /\ back \in Seq(S) /\ Len(back) = Len(s) - i
      /\ \A k \in 1 .. (Len(s) - i) : back[k] = s[i + k]
  OBVIOUS
<1>3. i \in Nat /\ Len(s) \in Nat /\ 1 <= i /\ i <= Len(s) /\ DOMAIN s = 1 .. Len(s)
  OBVIOUS
<1> HIDE DEF front, back
<1>4. RemoveAt(s, i) = front \o back
  BY DEF RemoveAt, front, back
<1>5. j \in 1 .. (Len(s) - 1)
  BY <1>1, <1>2, <1>3, <1>4
<1>6. CASE j <= i - 1
  <2>1. RemoveAt(s, i)[j] = front[j]
    BY <1>1, <1>2, <1>3, <1>4, <1>5, <1>6
  <2> QED BY <1>1, <1>3, <1>5, <1>6, <2>1
<1>7. CASE ~(j <= i - 1)
  <2>1. RemoveAt(s, i)[j] = back[j - (i - 1)]
    BY <1>1, <1>2, <1>3, <1>4, <1>5, <1>7
  <2>2. j - (i - 1) \in 1 .. (Len(s) - i)
    BY <1>3, <1>5, <1>7
  <2>3. back[j - (i - 1)] = s[i + (j - (i - 1))] /\ i + (j - (i - 1)) \in DOMAIN s
    BY <1>2, <1>3, <1>5, <1>7, <2>2
  <2> QED BY <2>1, <2>3
<1> QED BY <1>6, <1>7

LEMMA KeptStep ==
  ASSUME TypeOK, Rounded, AllKept, [Next]_vars
  PROVE  AllKept'
<1>0. exports \in Seq(Artifact) /\ job.kind \in Kinds
  BY DEF TypeOK, Job
<1>1. ASSUME NEW s \in Seq(Artifact), \A i \in DOMAIN s : Kept(s[i]),
             NEW e, Kept(e), exports' = Append(s, e)
      PROVE  AllKept'
  <2>1. \A i \in DOMAIN exports' : \/ i \in DOMAIN s /\ exports'[i] = s[i]
                                  \/ exports'[i] = e
    BY <1>1
  <2>2. \A a : Kept(a) => Kept(a)'
    BY DEF Kept, IsReport
  <2> QED BY <1>1, <2>1 DEF AllKept, Kept, IsReport
<1>2. ASSUME NEW i \in DOMAIN exports, NEW j \in DOMAIN RemoveAt(exports, i)
      PROVE  Kept(RemoveAt(exports, i)[j])
  <2>1. PICK k \in DOMAIN exports : RemoveAt(exports, i)[j] = exports[k]
    BY <1>0, RemoveAtElements
  <2>2. Kept(exports[k])
    BY DEF AllKept
  <2> QED BY <2>1, <2>2
<1>3. CASE EditReport
  <2>1. PICK i \in DOMAIN exports :
          /\ IsReport(exports[i])
          /\ \E r \in Edited(exports[i].report) :
               exports' = Append(RemoveAt(exports, i), [exports[i] EXCEPT !.report = r])
    BY <1>3 DEF EditReport
  <2>2. PICK r \in Edited(exports[i].report) :
          exports' = Append(RemoveAt(exports, i), [exports[i] EXCEPT !.report = r])
    BY <2>1
  <2>3. exports[i] \in Written
    <3>1. exports[i] \in Artifact
      BY <1>0
    <3> QED BY <2>1, <3>1 DEF IsReport, Artifact, Baseline, Diff, Kinds
  <2>4. SameEvidence(exports[i].report, exports[i].original) /\ Built(exports[i].original)
    BY <2>1 DEF AllKept, Kept
  <2>5. exports[i].report \in AnyReport
    BY <2>3 DEF Written
  <2>6. SameEvidence(r, exports[i].original)
    <3>1. r \in {[exports[i].report EXCEPT !.claim = TRUE], [exports[i].report EXCEPT !.status = "verified"],
                 [exports[i].report EXCEPT !.intact = FALSE]}
      BY <2>2 DEF Edited, Raised
    <3>2. r.kind = exports[i].report.kind
      BY <2>2, <2>5, EditedType
    <3>3. r.kind = "provenance" => r.complete = exports[i].report.complete
      BY <2>5, <3>1, <3>2 DEF AnyReport, GovernanceReports, ProvenanceReports, FederationAudits
    <3>4. r.kind = "federation" => r.ready = exports[i].report.ready
      BY <2>5, <3>1, <3>2 DEF AnyReport, GovernanceReports, ProvenanceReports, FederationAudits
    <3> QED BY <2>4, <3>2, <3>3, <3>4 DEF SameEvidence
  <2> DEFINE e == [exports[i] EXCEPT !.report = r]
  <2>7. e.report = r /\ e.original = exports[i].original /\ e.kind = exports[i].kind
    BY <2>3 DEF Written
  <2>8. Kept(e)
    BY <2>4, <2>6, <2>7 DEF Kept
  <2>9. RemoveAt(exports, i) \in Seq(Artifact)
    BY <1>0, RemoveAtType
  <2> HIDE DEF e
  <2> QED BY <1>1, <1>2, <2>2, <2>8, <2>9 DEF e
<1>4. CASE RemoveExport
  <2>1. PICK i \in DOMAIN exports : exports' = RemoveAt(exports, i)
    BY <1>4 DEF RemoveExport
  <2> QED BY <1>2, <2>1 DEF AllKept, Kept, IsReport
<1>5. CASE ExportReplay
  <2>1. PICK b \in BOOLEAN : \/ exports' = Append(exports, [id |-> written', kind |-> "baseline", safe |-> b])
                             \/ exports' = Append(exports, [id |-> written', kind |-> "diff", admissible |-> b])
    BY <1>5 DEF ExportReplay
  <2>2. PICK e \in {[id |-> written', kind |-> "baseline", safe |-> b],
                    [id |-> written', kind |-> "diff", admissible |-> b]} : exports' = Append(exports, e)
    BY <2>1
  <2>3. Kept(e)
    BY <2>2 DEF Kept, IsReport, Kinds
  <2> QED BY <1>0, <1>1, <2>2, <2>3 DEF AllKept
<1>6. CASE WriteReport
  <2>1. Report \in AnyReport /\ Report.kind = job.kind /\ Built(Report)
    BY <1>6, ReportType DEF WriteReport
  <2> DEFINE e == [id |-> written', kind |-> job.kind, report |-> Report, original |-> Report]
  <2>2. Kept(e)
    BY <2>1 DEF Kept, SameEvidence
  <2>3. exports' = Append(exports, e)
    BY <1>6 DEF WriteReport
  <2> HIDE DEF e
  <2> QED BY <1>0, <1>1, <2>2, <2>3 DEF AllKept
<1>7. CASE exports' = exports
  BY <1>7 DEF AllKept, Kept, IsReport
<1>8. CASE \/ \E f \in File : EditPolicy(f)
           \/ EditAuthority \/ Start \/ ListFiles \/ HashFile \/ BeginVerify \/ VerifyFile
           \/ EndRound \/ Die \/ WriteIndex \/ UNCHANGED vars
  BY <1>7, <1>8 DEF EditPolicy, EditAuthority, Start, ListFiles, HashFile, BeginVerify, VerifyFile,
                    EndRound, Die, WriteIndex, vars
<1> QED BY <1>3, <1>4, <1>5, <1>6, <1>8 DEF Next

\* The verifiers accept what the exporters write and refuse a raised claim, for
\* any inputs and however often the files and the reports change.
THEOREM VerifiersCorrect == Spec => []VerifiersAgree
<1>1. TypeOK /\ AllKept => VerifiersAgree
  <2> SUFFICES ASSUME TypeOK, AllKept, NEW i \in DOMAIN exports, IsReport(exports[i])
               PROVE  LET r == exports[i].report IN
                        /\ Verifies(exports[i].original)
                        /\ r.claim /\ ~exports[i].original.claim /\ Verifies(r)
                           => r.kind = "governance" /\ ~HasIncompleteSection(r)
    BY DEF VerifiersAgree
  <2> DEFINE r == exports[i].report
             o == exports[i].original
  <2>0. r \in AnyReport
    <3>1. exports[i] \in Artifact
      BY DEF TypeOK
    <3> QED BY <3>1 DEF IsReport, Artifact, Baseline, Diff, Written, Kinds
  <2>1. Built(o) /\ SameEvidence(r, o)
    BY DEF AllKept, Kept
  <2> HIDE DEF r, o
  <2>2. Verifies(o)
    BY <2>1 DEF Built
  <2>3. ASSUME r.claim, ~o.claim, Verifies(r)
        PROVE  r.kind = "governance" /\ ~HasIncompleteSection(r)
    <3>1. CASE r.kind = "governance"
      BY <2>3, <3>1 DEF Verifies, GovernanceVerifies
    <3>2. CASE r.kind = "provenance"
      <4>1. ~r.complete
        BY <2>1, <2>3, <3>2 DEF Built, SameEvidence
      <4> QED BY <2>3, <3>2, <4>1 DEF Verifies, ProvenanceVerifies, LineageOverstated
    <3>3. CASE r.kind = "federation"
      <4>1. ~r.ready
        BY <2>1, <3>3 DEF Built, SameEvidence
      <4> QED BY <2>3, <3>3, <4>1 DEF Verifies, FederationVerifies, ReadyOverstated
    <3> QED BY <2>0, <3>1, <3>2, <3>3 DEF AnyReport, GovernanceReports, ProvenanceReports, FederationAudits
  <2> QED BY <2>2, <2>3 DEF r, o
<1> QED BY <1>1, TypeInit, TypeStep, KeptInit, KeptStep, PTL DEF Spec
-----------------------------------------------------------------------------
(***************************************************************************)
(* The index of the latest reports                                         *)
(***************************************************************************)
\* A set of positions has a last.
LEMMA MaxFacts ==
  ASSUME NEW n \in Nat, NEW S, S \subseteq 1 .. n, S # {}
  PROVE  Max(S) \in S /\ \A i \in S : i <= Max(S)
<1> DEFINE Above == {m \in Nat : \A i \in S : i <= m}
           R == OpToRel(<, Nat)
<1>1. IsWellFoundedOn(R, Nat)
  BY NatLessThanWellFounded, Zenon
<1>2. \A y, x \in Nat : y < x => <<y, x>> \in R
  BY Zenon DEF OpToRel
<1> HIDE DEF R
<1>3. n \in Above /\ Above \subseteq Nat
  OBVIOUS
<1> HIDE DEF Above
<1>4. PICK m \in Above : \A y \in Above : <<y, m>> \notin R
  BY <1>1, <1>3, WFMin
<1> USE DEF Above
<1>5. m \in S
  <2>1. SUFFICES ASSUME m \notin S PROVE FALSE
    OBVIOUS
  <2>2. \A i \in S : i \in Nat /\ 1 <= i /\ i < m
    BY <1>4, <2>1
  <2>3. m - 1 \in Nat
    <3>1. PICK i \in S : TRUE
      OBVIOUS
    <3>2. i \in Nat /\ 1 <= i /\ i < m /\ m \in Nat
      BY <1>4, <2>2, <3>1
    <3> HIDE DEF Above
    <3> QED BY <3>2
  <2>4. m - 1 \in Above /\ m - 1 < m
    BY <1>4, <2>2, <2>3
  <2> QED BY <1>2, <1>4, <2>4
<1>6. \E x \in S : \A i \in S : x >= i
  BY <1>4, <1>5
<1>7. Max(S) \in S /\ \A i \in S : Max(S) >= i
  BY <1>6 DEF Max
<1> QED BY <1>7

\* What the index says of the latest file, if the verifier accepts it, is what
\* the latest report says.
Agrees(ref, latest) ==
  latest # NoInput =>
    /\ ref.path # 0
    /\ ref.dated /\ ref.status \in Status =>
         /\ ref.path = latest.path /\ ref.status = latest.status
         /\ ref.claim = latest.claim /\ ref.claim \in {"true", "false"}

IndexInv == index # NoIndex => \A kind \in Kinds : Agrees(index.refs[kind], index.latest[kind])

\* A baseline or a diff that is the latest file of the directory has no date
\* where a report has one; another report cannot be, since only reports of one
\* kind share a directory.
LEMMA RefAgrees ==
  ASSUME TypeOK, NEW kind \in Kinds
  PROVE  Agrees(Ref(kind), LatestReport(kind))
<1> DEFINE I == {i \in DOMAIN exports : Directory(exports[i].kind) = kind}
           J == {i \in DOMAIN exports : exports[i].kind = kind}
<1>1. CASE J = {}
  BY <1>1 DEF LatestReport, Agrees
<1>2. CASE J # {}
  <2>1. Len(exports) \in Nat /\ DOMAIN exports = 1 .. Len(exports)
    BY DEF TypeOK
  <2>2. J \subseteq I
    BY DEF Directory, Kinds, Replays
  <2>3. Max(I) \in I /\ \A i \in I : i <= Max(I)
    BY <1>2, <2>1, <2>2, MaxFacts
  <2>4. Max(J) \in J /\ \A i \in J : i <= Max(J)
    BY <1>2, <2>1, MaxFacts
  <2> DEFINE a == exports[Max(I)]
             l == exports[Max(J)]
  <2>5. Latest(kind) = a
    BY <2>3 DEF Latest
  <2>6. LatestReport(kind) = [path |-> l.id, status |-> l.report.status, claim |-> Claim(l.report)]
    BY <1>2 DEF LatestReport
  <2>7. a \in Artifact /\ a.id \in 1 .. MaxArtifacts
    BY <2>3 DEF TypeOK, Artifact, Baseline, Diff, Written
  <2>8. Directory(a.kind) = kind
    BY <2>3
  <2>9. a # NoInput /\ a.id # 0
    BY <2>7, BoundAssumption DEF Artifact, Baseline, Diff, Written, NoInput, Kinds
  <2>10. CASE ~IsReport(a)
    <3>1. Ref(kind) = [NoRef EXCEPT !.path = a.id]
      BY <2>5, <2>9, <2>10 DEF Ref
    <3>2. Ref(kind).path # 0 /\ Ref(kind).dated = FALSE
      BY <2>9, <3>1 DEF NoRef
    <3> QED BY <3>2 DEF Agrees
  <2>11. CASE IsReport(a)
    <3>1. a.kind = kind
      BY <2>8, <2>11 DEF IsReport, Directory, Kinds, Replays
    <3>2. Max(I) \in J
      BY <2>3, <3>1
    <3>3. Max(I) = Max(J)
      <4>1. Max(I) \in Nat /\ Max(J) \in Nat
        BY <2>1, <2>3, <2>4
      <4>2. Max(I) <= Max(J) /\ Max(J) <= Max(I)
        BY <2>2, <2>3, <2>4, <3>2
      <4> HIDE DEF I, J
      <4> QED BY <4>1, <4>2
    <3>4. Ref(kind) = [path |-> a.id, dated |-> a.report.intact, status |-> a.report.status,
                       claim |-> Claim(a.report)]
      BY <2>5, <2>9, <2>11 DEF Ref
    <3> HIDE DEF I, J
    <3> QED BY <2>6, <2>9, <3>3, <3>4 DEF Agrees, Claim
  <2> QED BY <2>10, <2>11
<1> QED BY <1>1, <1>2

LEMMA IndexStep ==
  ASSUME TypeOK, IndexInv, [Next]_vars
  PROVE  IndexInv'
<1>1. CASE WriteIndex
  <2>1. index' = [refs   |-> [kind \in Kinds |-> Ref(kind)],
                  latest |-> [kind \in Kinds |-> LatestReport(kind)]]
    BY <1>1 DEF WriteIndex
  <2> QED BY <2>1, RefAgrees DEF IndexInv
<1>2. CASE index' = index
  BY <1>2 DEF IndexInv
<1>3. CASE \/ \E f \in File : EditPolicy(f)
           \/ EditAuthority \/ EditReport \/ RemoveExport \/ ExportReplay
           \/ Start \/ ListFiles \/ HashFile \/ BeginVerify \/ VerifyFile
           \/ EndRound \/ WriteReport \/ Die \/ UNCHANGED vars
  BY <1>2, <1>3 DEF EditPolicy, EditAuthority, EditReport, RemoveExport, ExportReplay, Start, ListFiles,
                    HashFile, BeginVerify, VerifyFile, EndRound, WriteReport, Die, vars
<1> QED BY <1>1, <1>3 DEF Next

\* The index that its verifier accepts tells of each kind the latest report
\* there was, whatever else lies in its directory and is edited or removed.
THEOREM IndexCorrect == Spec => []VerifiedIndexNamesLatest
<1>1. Init => IndexInv
  BY DEF Init, IndexInv
<1>2. IndexInv => VerifiedIndexNamesLatest
  <2> SUFFICES ASSUME IndexInv, IndexVerifies, NEW kind \in Kinds, index.latest[kind] # NoInput
               PROVE  LET latest == index.latest[kind] IN
                        /\ index.refs[kind].path = latest.path
                        /\ renderEvidenceIndex(readLatestReportIndex)[kind]
                             = <<latest.status, IF latest.claim = "true" THEN "Yes" ELSE "No">>
    BY DEF VerifiedIndexNamesLatest
  <2> DEFINE ref == index.refs[kind]
             latest == index.latest[kind]
  <2>1. index # NoIndex /\ RefVerifies(ref)
    BY DEF IndexVerifies
  <2>2. Agrees(ref, latest)
    BY <2>1 DEF IndexInv
  <2>3. /\ ref.status \in Status /\ ref.path = latest.path /\ ref.status = latest.status
        /\ ref.claim = latest.claim /\ ref.claim \in {"true", "false"}
    BY <2>1, <2>2 DEF Agrees, RefVerifies
  <2>4. renderEvidenceIndex(readLatestReportIndex)[kind]
          = <<evidenceStatusLabel(ref.status), yesNoUnknown(ref.claim)>>
    BY <2>1 DEF renderEvidenceIndex, readLatestReportIndex
  <2>5. /\ evidenceStatusLabel(ref.status) = latest.status
        /\ yesNoUnknown(ref.claim) = IF latest.claim = "true" THEN "Yes" ELSE "No"
    BY <2>3 DEF evidenceStatusLabel, yesNoUnknown
  <2> QED BY <2>3, <2>4, <2>5
<1> QED BY <1>1, <1>2, TypeInit, TypeStep, IndexStep, PTL DEF Spec
=============================================================================
