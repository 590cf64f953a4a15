---------------------------- MODULE TraceReplay ----------------------------
(***************************************************************************)
(* What replay, baseline and diff conclude from the records of one trace:  *)
(* core/audit/executionReplay.ts, replayBaseline.ts and replayDiff.ts.     *)
(*                                                                         *)
(* A record is a function of its writer, its type, the state of its        *)
(* content, the hash it is chained to and the hash it carries. A hash is   *)
(* modelled by what it is computed from, so that different contents have   *)
(* different hashes, as for SHA-256 in practice.                           *)
(***************************************************************************)
EXTENDS SequencesExt

\* An absent hash field, different from every hash.
NoHash == <<>>

RecordType == {"permission_token", "legitimacy_artifact"}

\* What became of the content of a record since it was written. "rechained":
\* the authority chain inside an artifact no longer matches its own hash.
Body == {"intact", "altered", "rechained"}

\* hashAuthorityRecord, recomputeAuthorityRecordHash.
Hash(grant, type, body, prev) == <<grant, type, body, prev>>
HashOf(r) == Hash(r.grant, r.type, r.body, r.prev)

Hashed(r) == r.hash # NoHash

\* Records without a hash are skipped.
HashMismatches(s) == {i \in DOMAIN s : Hashed(s[i]) /\ s[i].hash # HashOf(s[i])}

ChainMismatches(s) ==
  {i \in DOMAIN s : s[i].type = "legitimacy_artifact" /\ s[i].body = "rechained"}

ContinuityBreaksBug(s) ==
  {i \in DOMAIN s : i > 1 /\ Hashed(s[i]) /\ s[i].prev = NoHash}

\* The first record, and the one after a record without hash, are compared
\* with nothing.
ContinuityBreaks(s) ==
  {i \in DOMAIN s :
     /\ i > 1 /\ Hashed(s[i]) /\ Hashed(s[i - 1])
     /\ s[i].prev # s[i - 1].hash}

\* isBaselineSafe
Safe(s) ==
  /\ HashMismatches(s) = {}
  /\ ChainMismatches(s) = {}
  /\ ContinuityBreaks(s) = {}

\* toAuthorityRef: the key by which a diff compares records. One without hash
\* gets a hash of its type, trace and time, which differ in type only here.
AuthorityKey(r) == <<r.type, IF Hashed(r) THEN r.hash ELSE <<r.type>>>>

Refs(s) == {AuthorityKey(s[i]) : i \in DOMAIN s}

\* compareSets
ChangedBug(baseline, candidate) == candidate \ baseline # {}
Changed(baseline, candidate) ==
  candidate \ baseline # {} \/ baseline \ candidate # {}

\* buildReplayDiff and buildSummary: the records s, the events and the revoked
\* tokens of a trace now, against a baseline of it.
DiffStatus(baseline, s, events, revoked) ==
  CASE ~Safe(s) -> "invalid_diff"
    [] Safe(s) /\ Changed(baseline.revoked, revoked) -> "revocation_divergence"
    [] Safe(s) /\ ~Changed(baseline.revoked, revoked)
         /\ (Changed(baseline.refs, Refs(s)) \/ Changed(baseline.events, events))
         -> "unexpected_divergence"
    [] OTHER -> "no_divergence"
============================================================================
