------------------------------ MODULE Reports ------------------------------
(***************************************************************************)
(* The three reports PathWarden writes about itself (core/audit/           *)
(* governanceReport.ts, replayProvenanceReport.ts and                      *)
(* federationReadinessAudit.ts) and the scripts that verify them, as       *)
(* operators. A report is the statuses of its sections, its summary and    *)
(* its claim: release_safe, admissible or ready_for_federation. Texts,     *)
(* identifiers, dates and artifact references are left out; intact says    *)
(* that they and the types of all fields are as the report was written.    *)
(***************************************************************************)
EXTENDS Naturals, Functions

Status     == {"verified", "verified_with_warnings", "incomplete", "failed"}
Incomplete == {"incomplete", "failed"}
NoInput    == [kind |-> "none"]

\* The reports and audits there may be.
GovernanceReports ==
  [kind: {"governance"}, intact: BOOLEAN,
   sections: [authority: Status, trust: Status, revocation: Status, policy: Status,
              replay: Status, diagnostics: Status],
   status: Status, claim: BOOLEAN]

Gap == {"missing_replay_baseline", "missing_replay_diff", "policy_hash_verification_failure",
        "unsafe_replay_baseline", "inadmissible_replay_diff"}

ProvenanceReports ==
  [kind: {"provenance"}, intact: BOOLEAN,
   sections: [authority: Status, replay: Status, trust: Status, revocation: Status,
              policy: Status],
   baseline: BOOLEAN, diff: BOOLEAN, gaps: SUBSET Gap,
   complete: BOOLEAN, explainable: BOOLEAN, status: Status, claim: BOOLEAN]

FederationAudits ==
  [kind: {"federation"}, intact: BOOLEAN,
   sections: [governance: Status, replay_provenance: Status, policy: Status,
              diagnostics: Status],
   release_safe: BOOLEAN, admissible: BOOLEAN, complete: BOOLEAN,
   missing: SUBSET {"release_safe", "admissible", "lineage_complete"},
   warnings: SUBSET {"federation_runtime", "trust_negotiation"},
   ready: BOOLEAN, status: Status, claim: BOOLEAN]

AnyReport == GovernanceReports \cup ProvenanceReports \cup FederationAudits

Passed(ok) == IF ok THEN "verified" ELSE "failed"
Given(ok)  == IF ok THEN "verified" ELSE "incomplete"

\* The summary of sections, and of lists of failures, omissions and warnings.
Worst(S) ==
  CASE "failed" \in S                     -> "failed"
    [] S \cap Incomplete = {"incomplete"} -> "incomplete"
    [] S \cap Incomplete = {} /\ "verified_with_warnings" \in S -> "verified_with_warnings"
    [] OTHER                              -> "verified"

-----------------------------------------------------------------------------
(***************************************************************************)
(* The snapshot of the authority log inside a governance report            *)
(***************************************************************************)
\* The log is sound, or one of its records has no hash or one of another
\* length, or a line is torn.
Logs == {"sound", "stripped", "misshaped", "torn"}

\* A torn line is an exception. A record without a hash gets one that is made
\* for the snapshot.
Readable(log) == log # "torn"
SnapshotHashes(log) == IF log = "misshaped" THEN {"misshaped"} ELSE {"sha256"}

\* The number of signers an authority snapshot lists.
Signers == 0

\* buildAuthoritySnapshot: the records as they are, the rest always the same.
Snapshot(log) ==
  [hashes |-> SnapshotHashes(log), signers |-> Signers, revocation_checked |-> TRUE,
   replay_safe |-> TRUE]

\* verifyAuthoritySnapshotExport: the schema refuses what the references do;
\* the order and the count are the builder's own.
Checks(snapshot) ==
  [record_refs_valid          |-> snapshot.hashes \subseteq {"sha256"},
   replay_safe                |-> snapshot.replay_safe,
   trust_context_present      |-> snapshot.signers \in Nat,
   revocation_context_checked |-> snapshot.revocation_checked]

SnapshotStatus(checks) ==
  IF ~checks.record_refs_valid THEN "failed"
  ELSE IF ~checks.replay_safe THEN "not_replay_safe"
  ELSE IF ~(checks.trust_context_present /\ checks.revocation_context_checked)
    THEN "incomplete_context"
  ELSE "verified"

Admissible(log) == SnapshotStatus(Checks(Snapshot(log))) = "verified"

GovernanceSections(admissible, policyOk, replay) ==
  [authority   |-> Passed(admissible),
   trust       |-> IF Signers > 0 THEN "verified" ELSE "verified_with_warnings",
   revocation  |-> "verified",
   policy      |-> Passed(policyOk),
   replay      |-> Given(replay),
   diagnostics |-> "verified"]

GovernanceReport(admissible, policyOk, replay) ==
  LET sections == GovernanceSections(admissible, policyOk, replay)
      status   == Worst(Range(sections))
  IN [kind |-> "governance", intact |-> TRUE, sections |-> sections,
      status |-> status, claim |-> status = "verified"]

\* The names of the gaps in the lineage of a replay.
Warnings(baseline, diff) ==
  (IF baseline = NoInput THEN {"missing_replay_baseline"} ELSE {})
  \cup (IF diff = NoInput THEN {"missing_replay_diff"} ELSE {})
Criticals(baseline, diff, policyOk) ==
  (IF policyOk THEN {} ELSE {"policy_hash_verification_failure"})
  \cup (IF baseline = NoInput \/ baseline.safe THEN {} ELSE {"unsafe_replay_baseline"})
  \cup (IF diff = NoInput \/ diff.admissible THEN {} ELSE {"inadmissible_replay_diff"})

ProvenanceSections(baseline, diff, policyOk) ==
  [authority  |-> "verified",
   replay     |-> Given(NoInput \notin {baseline, diff}),
   trust      |-> "verified_with_warnings",
   revocation |-> Given(baseline # NoInput),
   policy     |-> Passed(policyOk)]

ProvenanceStatus(complete, explainable, warnings, criticals) ==
  CASE criticals # {}               -> "failed"
    [] criticals = {} /\ ~complete  -> "incomplete"
    [] criticals = {} /\ complete /\ (warnings # {} \/ ~explainable) -> "verified_with_warnings"
    [] OTHER                        -> "verified"

ProvenanceReport(baseline, diff, policyOk) ==
  LET warnings    == Warnings(baseline, diff)
      criticals   == Criticals(baseline, diff, policyOk)
      supplied    == NoInput \notin {baseline, diff}
      complete    == supplied /\ criticals = {}
      explainable == supplied /\ policyOk
      status      == ProvenanceStatus(complete, explainable, warnings, criticals)
  IN [kind |-> "provenance", intact |-> TRUE,
      sections |-> ProvenanceSections(baseline, diff, policyOk),
      baseline |-> baseline # NoInput, diff |-> diff # NoInput,
      gaps |-> warnings \cup criticals, complete |-> complete, explainable |-> explainable,
      status |-> status, claim |-> status = "verified"]

NotImplemented == {"federation_runtime", "trust_negotiation"}

Missing(governance, provenance) ==
  (IF governance.claim THEN {} ELSE {"release_safe"})
  \cup (IF provenance.claim THEN {} ELSE {"admissible"})
  \cup (IF provenance.complete THEN {} ELSE {"lineage_complete"})

FederationStatus(criticals, missing, warnings) ==
  Worst((IF criticals # {} THEN {"failed"} ELSE {})
        \cup (IF missing # {} THEN {"incomplete"} ELSE {})
        \cup (IF warnings # {} THEN {"verified_with_warnings"} ELSE {}))

FederationAudit(governance, provenance, policyOk) ==
  LET missing   == Missing(governance, provenance)
      criticals == IF policyOk THEN {} ELSE {"policy_hashes"}
      ready     == criticals = {} /\ missing = {} /\ NotImplemented = {}
      status    == FederationStatus(criticals, missing, NotImplemented)
  IN [kind |-> "federation", intact |-> TRUE,
      sections |-> [governance |-> governance.status, replay_provenance |-> provenance.status,
                    policy |-> Passed(policyOk), diagnostics |-> "verified"],
      release_safe |-> governance.claim, admissible |-> provenance.claim,
      complete |-> provenance.complete, missing |-> missing, warnings |-> NotImplemented,
      ready |-> ready, status |-> status, claim |-> status = "verified" /\ ready]

-----------------------------------------------------------------------------
(***************************************************************************)
(* The verifiers                                                           *)
(***************************************************************************)
HasIncompleteSection(r) == Range(r.sections) \cap Incomplete # {}
Overstated(r) == HasIncompleteSection(r) /\ r.status = "verified"

\* Faulty variants (here and below, each named ...Bug) stand in for the
\* definition after them when a property is tested for being breakable.
GovernanceVerifiesBug(r) == r.intact /\ ~Overstated(r)
GovernanceVerifies(r) ==
  /\ r.intact
  /\ ~Overstated(r)
  /\ ~(HasIncompleteSection(r) /\ r.claim)

\* What a missing input requires of the lineage, and the lineage of the claim.
GapsDeclared(r) ==
  /\ ~r.baseline => "missing_replay_baseline" \in r.gaps
  /\ ~r.diff => "missing_replay_diff" \in r.gaps
LineageOverstated(r) ==
  \/ ~(r.baseline /\ r.diff) /\ (r.complete \/ r.explainable)
  \/ r.claim /\ (~r.complete \/ r.sections.replay \in Incomplete)

ProvenanceVerifies(r) ==
  r.intact /\ GapsDeclared(r) /\ ~LineageOverstated(r) /\ ~Overstated(r)

EvidenceIncomplete(r) ==
  \/ HasIncompleteSection(r)
  \/ ~r.release_safe \/ ~r.admissible \/ ~r.complete

ReadyOverstated(r) ==
  \/ (EvidenceIncomplete(r) \/ ~r.ready) /\ r.claim
  \/ /\ r.ready
     /\ \/ r.sections.governance \in Incomplete \/ r.sections.replay_provenance \in Incomplete
        \/ ~r.release_safe \/ ~r.admissible \/ ~r.complete
  \/ EvidenceIncomplete(r) /\ r.status = "verified"

AllDeclared(r) ==
  /\ ~r.release_safe => "release_safe" \in r.missing
  /\ ~r.admissible => "admissible" \in r.missing
  /\ ~r.complete => "lineage_complete" \in r.missing
  /\ NotImplemented \subseteq r.warnings

FederationVerifies(r) == r.intact /\ ~ReadyOverstated(r) /\ AllDeclared(r)

Verifies(r) ==
  CASE r.kind = "governance" -> GovernanceVerifies(r)
    [] r.kind = "provenance" -> ProvenanceVerifies(r)
    [] r.kind = "federation" -> FederationVerifies(r)
=============================================================================
