--------------------------- MODULE AuthorityLog ---------------------------
(***************************************************************************)
(* The authority log: processes that grant a capability                    *)
(* (core/kernel/capabilityGrantValidator.ts) audit the grant and append    *)
(* its token and its legitimacy artifact to the log of their trace         *)
(* (core/audit/authorityWriter.ts). A record is chained to the last record *)
(* of its trace that the writer has read. A reader replays a trace, takes  *)
(* a baseline of it and compares a later replay with it (TraceReplay).     *)
(*                                                                         *)
(* A trace is named by the millisecond of its grant, so two grants may     *)
(* share one. The daily files are one sequence per trace.                  *)
(***************************************************************************)
EXTENDS TraceReplay

CONSTANTS Grant, Trace,
          TraceOf,      \* the trace of each grant
          NoBaseline,
          MaxDamage, MaxErrors   \* bounds on the environment

ASSUME TraceAssumption == TraceOf \in [Grant -> Trace]
ASSUME LimitAssumption == MaxDamage \in Nat /\ MaxErrors \in Nat

VARIABLES
  log,       \* the records of each trace in audit/authority
  events,    \* the grants audited under each trace in audit/events
  revoked,   \* the revocation list: grants whose token is revoked
  pc, prev,  \* the grants, and the hash each has read
  baseline,  \* a baseline of each trace
  damage, errors,
  \* History variables: they guard nothing and are read by properties only.
  written,   \* the records of each trace in the order they were appended
  kept,      \* the records and events of each trace when its baseline was taken
  raced,     \* traces on which two appends overlapped
  damaged,   \* traces whose files were damaged
  mended     \* traces that were appended to after that

files   == <<log, events, revoked>>
writers == <<pc, prev>>
reader  == <<baseline, kept>>
vars    == <<files, writers, reader, damage, errors, written, raced, damaged, mended>>

Ended == {"denied", "thrown", "answered", "dead"}
Pc == {"start", "audit", "find_token", "append_token", "find_artifact",
       "append_artifact"} \cup Ended

\* Hashes are values of any depth and have no type of their own here.
TypeOK ==
  /\ \A t \in Trace : \A i \in DOMAIN log[t] :
       /\ log[t][i].grant \in {g \in Grant : TraceOf[g] = t}
       /\ log[t][i].type \in RecordType /\ log[t][i].body \in Body
  /\ events \in [Trace -> SUBSET Grant]
  /\ revoked \subseteq Grant
  /\ pc \in [Grant -> Pc]
  /\ damage \in Nat /\ errors \in Nat
  /\ raced \subseteq Trace /\ damaged \subseteq Trace /\ mended \subseteq Trace

Init ==
  /\ log      = [t \in Trace |-> <<>>]
  /\ events   = [t \in Trace |-> {}]
  /\ revoked  = {}
  /\ pc       = [g \in Grant |-> "start"]
  /\ prev     = [g \in Grant |-> NoHash]
  /\ baseline = [t \in Trace |-> NoBaseline]
  /\ damage = 0 /\ errors = 0
  /\ written  = [t \in Trace |-> <<>>]
  /\ kept     = [t \in Trace |-> NoBaseline]
  /\ raced = {} /\ damaged = {} /\ mended = {}

Goto(g, l) == pc' = [pc EXCEPT ![g] = l]

-----------------------------------------------------------------------------
(***************************************************************************)
(* validateCapabilityGrant                                                 *)
(***************************************************************************)
\* One of eight refusals, which leave no trace, or a token is minted.
Decide(g) ==
  /\ pc[g] = "start"
  /\ Goto(g, "denied") \/ Goto(g, "audit")
  /\ UNCHANGED <<files, prev, reader, damage, errors, written, raced, damaged, mended>>

\* writeAuditEvent ALLOW_CAPABILITY_GRANT
AuditGrant(g) ==
  /\ pc[g] = "audit"
  /\ events' = [events EXCEPT ![TraceOf[g]] = @ \cup {g}]
  /\ Goto(g, "find_token")
  /\ UNCHANGED <<log, revoked, prev, reader, damage, errors, written, raced, damaged, mended>>

\* Faulty variants (here and below, each named ...Bug) stand in for the
\* definition after them when a property is tested for being breakable.

\* findPreviousAuthorityHash: the last record of the trace that has a hash.
LastHashBug(s) == IF s = <<>> THEN NoHash ELSE s[1].hash
LastHash(s) ==
  LET I == {i \in DOMAIN s : Hashed(s[i])} IN
    IF I = {} THEN NoHash ELSE s[CHOOSE i \in I : \A j \in I : j <= i].hash

Appending(g) == pc[g] \in {"append_token", "append_artifact"}

\* writeAuthorityArtifact, first half: read the log.
FindPrevious(g) ==
  /\ pc[g] \in {"find_token", "find_artifact"}
  /\ prev' = [prev EXCEPT ![g] = LastHash(log[TraceOf[g]])]
  /\ Goto(g, IF pc[g] = "find_token" THEN "append_token" ELSE "append_artifact")
  /\ raced' = raced \cup {t \in {TraceOf[g]} :
       \E h \in Grant \ {g} : TraceOf[h] = t /\ Appending(h)}
  /\ UNCHANGED <<files, reader, damage, errors, written, damaged, mended>>

Record(g, type) ==
  [grant |-> g, type |-> type, body |-> "intact", prev |-> prev[g],
   hash |-> Hash(g, type, "intact", prev[g])]

NewRecordBug(g) == Record(g, pc[g])
NewRecord(g) ==
  Record(g, IF pc[g] = "append_token" THEN "permission_token" ELSE "legitimacy_artifact")

\* Second half: append the record with its own hash.
AppendRecord(g) ==
  /\ Appending(g)
  /\ LET t == TraceOf[g] IN
       /\ log'     = [log EXCEPT ![t] = Append(@, NewRecord(g))]
       /\ written' = [written EXCEPT ![t] = Append(@, NewRecord(g))]
       /\ mended'  = mended \cup ({t} \cap damaged)
  /\ Goto(g, IF pc[g] = "append_token" THEN "find_artifact" ELSE "answered")
  /\ UNCHANGED <<events, revoked, prev, reader, damage, errors, raced, damaged>>

AfterFailureBug(g) ==
  CASE pc[g] = "audit" -> "thrown"
    [] pc[g] \in {"find_token", "append_token"} -> "find_artifact"
    [] OTHER -> "answered"

\* A failing audit event throws. A failing authority write ends the try block;
\* it is swallowed, and the grant is answered all the same.
AfterFailure(g) == IF pc[g] = "audit" THEN "thrown" ELSE "answered"

IoError(g) ==
  /\ errors < MaxErrors
  /\ pc[g] \notin Ended \cup {"start"}
  /\ errors' = errors + 1
  /\ Goto(g, AfterFailure(g))
  /\ UNCHANGED <<files, prev, reader, damage, written, raced, damaged, mended>>

Crash(g) ==
  /\ errors < MaxErrors
  /\ pc[g] \notin Ended \cup {"start"}
  /\ errors' = errors + 1
  /\ Goto(g, "dead")
  /\ UNCHANGED <<files, prev, reader, damage, written, raced, damaged, mended>>

-----------------------------------------------------------------------------
(***************************************************************************)
(* What becomes of the files, and the reader                               *)
(***************************************************************************)
Revoke(g) ==
  /\ pc[g] = "answered" /\ g \notin revoked
  /\ revoked' = revoked \cup {g}
  /\ UNCHANGED <<log, events, writers, reader, damage, errors, written, raced, damaged, mended>>

\* The logs that the log s becomes when its line i is lost, chained elsewhere,
\* without its hash, altered, or swapped with the next.
LineDamages(s, i) ==
  {RemoveAt(s, i), [s EXCEPT ![i].prev = NoHash], [s EXCEPT ![i].hash = NoHash]}
  \cup {[s EXCEPT ![i].body = b] : b \in Body \ {"intact"}}
  \cup {[s EXCEPT ![i] = s[j], ![j] = s[i]] : j \in {i + 1} \cap DOMAIN s}

Damage(t) ==
  /\ damage < MaxDamage
  /\ damage' = damage + 1
  /\ \E i \in DOMAIN log[t] : \E s \in LineDamages(log[t], i) \ {log[t]} :
       log' = [log EXCEPT ![t] = s]
  /\ damaged' = damaged \cup {t}
  /\ UNCHANGED <<events, revoked, writers, reader, errors, written, raced, mended>>

\* A line of the audit log is lost.
LoseEvent(t) ==
  /\ damage < MaxDamage
  /\ damage' = damage + 1
  /\ \E g \in events[t] : events' = [events EXCEPT ![t] = @ \ {g}]
  /\ UNCHANGED <<log, revoked, writers, reader, errors, written, raced, damaged, mended>>

\* findRevokedTokenIds
RevokedTokens(t) ==
  {log[t][i].grant : i \in {j \in DOMAIN log[t] : log[t][j].type = "permission_token"}}
  \cap revoked

\* buildReplayBaseline
TakeBaseline(t) ==
  /\ baseline[t] = NoBaseline
  /\ baseline' = [baseline EXCEPT ![t] =
       [refs |-> Refs(log[t]), events |-> events[t], revoked |-> RevokedTokens(t),
        diff_eligible |-> Safe(log[t])]]
  /\ kept' = [kept EXCEPT ![t] = [records |-> log[t], events |-> events[t]]]
  /\ UNCHANGED <<files, writers, damage, errors, written, raced, damaged, mended>>

GrantStep(g) == Decide(g) \/ AuditGrant(g) \/ FindPrevious(g) \/ AppendRecord(g)

Next ==
  \/ \E g \in Grant : GrantStep(g) \/ IoError(g) \/ Crash(g) \/ Revoke(g)
  \/ \E t \in Trace : Damage(t) \/ LoseEvent(t) \/ TakeBaseline(t)

Spec == Init /\ [][Next]_vars

-----------------------------------------------------------------------------
(***************************************************************************)
(* Properties                                                              *)
(***************************************************************************)
\* An undamaged log replays as valid at every moment, after crashes between the
\* two records of a grant and after failed writes too, unless two appends to
\* one trace overlapped (authorityWriter.ts:77-119, executionReplay.ts:107-159).
UndamagedReplays == \A t \in Trace \ (damaged \cup raced) : Safe(log[t])

\* A damaged trace that still replays as valid, and all of whose records carry
\* a hash, has lost nothing but records at its two ends: no line inside was
\* lost, moved or changed, whatever happened to how many of them. A lost end
\* that was appended to since cannot be told (executionReplay.ts:107-159).
OnlyEndsAreLost ==
  \A t \in Trace \ (raced \cup mended) :
    Safe(log[t]) /\ (\A i \in DOMAIN log[t] : Hashed(log[t][i])) =>
      \E i \in 1 .. (Len(written[t]) + 1) : \E j \in 0 .. Len(written[t]) :
        log[t] = SubSeq(written[t], i, j)

\* A diff without divergence means what it says: the trace has the records and
\* events it had when its baseline was taken, lost ends included, as long as
\* the baseline was eligible, which no diff checks, and had no record without a
\* hash (replayBaseline.ts:158-195, replayDiff.ts:89-110, 134-219).
NoDivergenceMeansSame ==
  \A t \in Trace :
    /\ baseline[t] # NoBaseline /\ baseline[t].diff_eligible
    /\ \A i \in DOMAIN kept[t].records : Hashed(kept[t].records[i])
    /\ DiffStatus(baseline[t], log[t], events[t], RevokedTokens(t)) = "no_divergence"
    => log[t] = kept[t].records /\ events[t] = kept[t].events

\* A grant leaves authority records only after its audit event, and its artifact
\* only after its token, also when writes fail and are swallowed: the evidence
\* may be short of its tail but never has a gap (capabilityGrantValidator.ts:
\* 275-307).
EvidenceInOrder ==
  \A t \in Trace : \A i \in DOMAIN written[t] :
    LET r == written[t][i] IN
      /\ r.type = "legitimacy_artifact" =>
           \E j \in 1 .. (i - 1) : written[t][j].grant = r.grant
      /\ damage = 0 => r.grant \in events[t]

\* authorityWriter.ts:38: "Any mutation after write should be detectable during
\* replay." A trace that replays as valid holds no record that differs from
\* each record written.
MutationDetectable ==
  \A t \in Trace : Safe(log[t]) => ToSet(log[t]) \subseteq ToSet(written[t])
=============================================================================
