----------------------- MODULE GovernanceTrustProofs -----------------------
(***************************************************************************)
(* Proofs about GovernanceTrust for any signers, key files, trust entries  *)
(* and bounds.                                                             *)
(***************************************************************************)
EXTENDS GovernanceTrust, TLAPS, FiniteSetTheorems

LEMMA Bounds ==
  /\ MaxTime \in Nat /\ MaxKeys \in Nat /\ MaxLog \in Nat /\ MaxExports \in Nat
  /\ MaxEdits \in Nat /\ MaxEntries \in Nat /\ MaxRebuilds \in Nat
BY BoundAssumption

\* The files and the idle runs are none of the records.
LEMMA Distinct ==
  /\ \A e \in Entry : e # NoEntry /\ e.key # NoKey
  /\ IdleSigner \notin Signing /\ IdleVerifier \notin Verifying
  /\ IdleVerifier.pc = "idle"
BY Bounds DEF Entry, NoEntry, Key, NoKey, Signing, Verifying, IdleSigner, IdleVerifier

\* A set of natural numbers that is not empty has a least one.
LEMMA Least ==
  ASSUME NEW T, T \subseteq Nat, T # {}
  PROVE  \E n \in T : \A m \in T : n <= m
<1> DEFINE Up == {0 .. n : n \in T}
           R  == StrictSubsetOrdering(Nat)
<1>1. \A n \in T : 0 .. n \subseteq Nat /\ IsFiniteSet(0 .. n)
  BY FS_Interval
<1>2. Up \subseteq FiniteSubsetsOf(Nat) /\ Up # {}
  BY <1>1 DEF FiniteSubsetsOf
<1>3. IsWellFoundedOn(R, FiniteSubsetsOf(Nat))
  BY FS_StrictSubsetOrderingWellFounded
<1>4. PICK D \in Up : \A E \in Up : <<E, D>> \notin R
  BY <1>2, <1>3, WFMin, Zenon
<1>5. PICK n \in T : D = 0 .. n
  OBVIOUS
<1>6. ASSUME NEW m \in T, m < n PROVE FALSE
  <2>1. 0 .. m \in Up /\ 0 .. m \subseteq 0 .. n /\ n \in 0 .. n /\ n \notin 0 .. m
    BY <1>6
  <2> QED BY <1>1, <1>4, <1>5, <2>1 DEF StrictSubsetOrdering
<1> QED BY <1>6

\* The entry that is resolved is one of the manifest that names the signer and
\* the key of the envelope and serves.
LEMMA Resolved ==
  ASSUME NEW t \in Seq(Entry), NEW e, NEW mode, ResolveSigner(t, e, mode) # NoEntry
  PROVE  /\ ResolveSigner(t, e, mode) \in Entry
         /\ ResolveSigner(t, e, mode).signer = e.signer
         /\ ResolveSigner(t, e, mode).key = e.fp
         /\ StatusServes(ResolveSigner(t, e, mode), mode)
<1> DEFINE M == Matches(t, e, mode)
<1>1. M # {} /\ M \subseteq DOMAIN t /\ M \subseteq Nat
  BY DEF ResolveSigner, Matches
<1>2. PICK n \in M : \A j \in M : n <= j
  BY <1>1, Least
<1>3. (CHOOSE i \in M : \A j \in M : i <= j) \in M
  BY <1>2
<1>4. PICK i \in M : ResolveSigner(t, e, mode) = t[i]
  BY <1>1, <1>3 DEF ResolveSigner
<1> QED BY <1>4 DEF Matches

\* A judgement of "none" means that the files were there, that an entry was
\* resolved, and that its window held the time asked about.
LEMMA PolicyPassed ==
  ASSUME TypeOK, NEW mode \in Mode, PolicyReason(mode) = "none"
  PROVE  LET entry == ResolveSigner(trust, envelope, mode)
             at    == EvaluationTime(envelope, mode, now)
         IN /\ manifest \in Manifest /\ envelope \in Envelope /\ entry \in Entry
            /\ envelope \notin {NoFile, Malformed}
            /\ entry.signer = envelope.signer /\ entry.key = envelope.fp
            /\ StatusServes(entry, mode)
            /\ ~ (at < entry.from) /\ ~ (at > entry.until)
<1> DEFINE entry == ResolveSigner(trust, envelope, mode)
           at    == EvaluationTime(envelope, mode, now)
<1>1. /\ NoFile \notin {manifest, envelope} /\ envelope # Malformed /\ entry # NoEntry
      /\ ~ (at < entry.from) /\ ~ (at > entry.until)
  <2> HIDE DEF entry, at
  <2>1. PolicyReason(mode) =
          CASE NoFile \in {manifest, envelope} \/ trust = <<>> -> "missing_required_file"
            [] envelope = Malformed -> "invalid_signature_envelope_schema"
            [] entry = NoEntry      -> "signer_not_trusted"
            [] at < entry.from      -> "signer_not_yet_valid"
            [] at > entry.until     -> "signer_expired"
            [] OTHER                -> "none"
    BY Zenon DEF PolicyReason, entry, at
  <2> QED BY <2>1
<1>2. manifest \in Manifest /\ envelope \in Envelope /\ trust \in Seq(Entry)
  BY <1>1 DEF TypeOK
<1> QED BY <1>1, <1>2, Resolved

\* What holds of a verification once the policy has been judged.
Judged(v) ==
  /\ v.envelope \in signed
  /\ v.entry.signer = v.envelope.signer /\ v.entry.key = v.envelope.fp
  /\ StatusServes(v.entry, v.mode)
  /\ ~ (EvaluationTime(v.envelope, v.mode, v.at) < v.entry.from)
  /\ ~ (EvaluationTime(v.envelope, v.mode, v.at) > v.entry.until)

\* The envelope on disk is one that was signed; a verification that goes on has
\* judged one; an accepted one holds the signature of its entry's key.
Vouched ==
  /\ envelope \notin {NoFile, Malformed} => envelope \in signed
  /\ verifier # IdleVerifier => Judged(verifier)
  /\ verifier.pc = "ok" =>
       verifier.envelope.by = verifier.entry.key /\ verifier.envelope.over = verifier.manifest

IInv == TypeOK /\ Vouched

LEMMA Initial == Init => IInv
<1> SUFFICES ASSUME Init PROVE IInv
  OBVIOUS
<1> USE Bounds, Distinct
<1>1. /\ now \in Time /\ trace \in Replay /\ bundle = NoFile /\ manifest = NoFile
      /\ envelope = NoFile /\ trust \in Seq(Entry)
  BY DEF Init, Time, Replay
<1>2. keys \in [KeyFile -> Pair]
  BY DEF Init, Pair
<1>3. signer = IdleSigner /\ verifier = IdleVerifier /\ signed = {} /\ attested = FALSE
  BY DEF Init
<1>4. /\ written \in 0 .. MaxExports /\ minted \in 0 .. MaxKeys
      /\ edits \in 0 .. MaxEdits /\ rebuilds \in 0 .. MaxRebuilds
  BY DEF Init
<1>5. TypeOK
  BY <1>1, <1>2, <1>3, <1>4 DEF TypeOK
<1> QED BY <1>1, <1>3, <1>5 DEF IInv, Vouched

\* The files of the evidence and of the policy keep their types.
LEMMA FilesStep ==
  ASSUME TypeOK,
         \/ Tick \/ TraceChanges \/ ExportTrace \/ ExportTraceManifest \/ Tamper
         \/ \E f \in KeyFile : GenerateKeypair(f) \/ RemoveKeypair(f)
         \/ CreateTrustManifest \/ EditEntry
         \/ \E s \in Signer : AddEntry(s)
  PROVE  TypeOK'
<1>0. /\ now \in Time /\ trace \in Replay
      /\ bundle \in Bundle \cup {NoFile} /\ manifest \in Manifest \cup {NoFile}
      /\ envelope \in Envelope \cup {NoFile, Malformed}
      /\ keys \in [KeyFile -> Pair] /\ trust \in Seq(Entry)
      /\ signer \in Signing \cup {IdleSigner} /\ verifier \in Verifying \cup {IdleVerifier}
      /\ written \in 0 .. MaxExports /\ minted \in 0 .. MaxKeys
      /\ edits \in 0 .. MaxEdits /\ rebuilds \in 0 .. MaxRebuilds
      /\ signed \subseteq Envelope /\ attested \in BOOLEAN
  BY DEF TypeOK
<1> USE Bounds
<1>1. CASE Tick
  <2>1. now' \in Time
    BY <1>0, <1>1 DEF Tick, Time
  <2> QED BY <1>0, <1>1, <2>1 DEF Tick, TypeOK, exports, policy, counters, history
<1>2. CASE TraceChanges
  <2>1. trace' \in Replay
    <3>1. trace.len \in 0 .. MaxLog /\ trace.clean \in BOOLEAN
      BY <1>0 DEF Replay
    <3>2. CASE trace.len < MaxLog /\ trace' = [trace EXCEPT !.len = @ + 1]
      <4>1. trace.len + 1 \in 0 .. MaxLog
        BY <3>1, <3>2
      <4>2. \A n \in 0 .. MaxLog : [trace EXCEPT !.len = n] \in Replay
        BY <1>0 DEF Replay
      <4> QED BY <3>2, <4>1, <4>2
    <3>3. CASE trace' = [trace EXCEPT !.clean = FALSE]
      BY <1>0, <3>3 DEF Replay
    <3> QED BY <1>2, <3>2, <3>3 DEF TraceChanges
  <2> QED BY <1>0, <1>2, <2>1 DEF TraceChanges, TypeOK, exports, policy, counters, history
<1>3. CASE ExportTrace
  <2>1. bundle' \in Bundle /\ written' \in 0 .. MaxExports
    BY <1>0, <1>3 DEF ExportTrace, Export, Bundle
  <2> QED BY <1>0, <1>3, <2>1 DEF ExportTrace, TypeOK, policy, history
<1>4. CASE ExportTraceManifest
  <2>1. manifest' \in Manifest /\ written' \in 0 .. MaxExports
    BY <1>0, <1>4 DEF ExportTraceManifest, Export, ManifestOf, Manifest, Bundle, Replay
  <2>2. attested' \in BOOLEAN
    BY <1>4, Zenon DEF ExportTraceManifest, BundleVerifies
  <2> QED BY <1>0, <1>4, <2>1, <2>2 DEF ExportTraceManifest, TypeOK, policy
<1>5. CASE Tamper
  <2>1. edits' \in 0 .. MaxEdits
    BY <1>0, <1>5 DEF Tamper, Edit
  <2>2. bundle' \in Bundle \cup {NoFile}
    BY <1>0, <1>5 DEF Tamper, Bundle
  <2>3. manifest' \in Manifest \cup {NoFile}
    BY <1>0, <1>5 DEF Tamper, Manifest
  <2>4. envelope' \in Envelope \cup {NoFile, Malformed}
    BY <1>0, <1>5 DEF Tamper
  <2> QED BY <1>0, <1>5, <2>1, <2>2, <2>3, <2>4 DEF Tamper, TypeOK, policy, history
<1>6. ASSUME NEW f \in KeyFile, GenerateKeypair(f) PROVE TypeOK'
  <2>1. minted' \in 0 .. MaxKeys /\ minted + 1 \in Key
    BY <1>0, <1>6 DEF GenerateKeypair, Key
  <2>2. keys' \in [KeyFile -> Pair]
    BY <1>0, <1>6, <2>1 DEF GenerateKeypair, Pair
  <2> QED BY <1>0, <1>6, <2>1, <2>2 DEF GenerateKeypair, TypeOK, exports, history
<1>7. ASSUME NEW f \in KeyFile, RemoveKeypair(f) PROVE TypeOK'
  <2>1. keys' \in [KeyFile -> Pair]
    BY <1>0, <1>7 DEF RemoveKeypair, Pair
  <2> QED BY <1>0, <1>7, <2>1 DEF RemoveKeypair, TypeOK, exports, counters, history
<1>8. \A s \in Signer : keys[TrustFile[s]].pub # NoKey => NewEntry(s) \in Entry
  <2> TAKE s \in Signer
  <2>1. keys[TrustFile[s]].pub \in Key \cup {NoKey}
    BY <1>0, SignerAssumption DEF Pair
  <2> QED BY <1>0, <2>1 DEF NewEntry, Entry, Time, Never
<1>9. CASE CreateTrustManifest
  <2>1. SignerList \in Seq(Signer)
    BY SignerAssumption
  <2>2. trust' = [i \in 1 .. Len(SignerList) |-> NewEntry(SignerList[i])]
    BY <1>9, <2>1 DEF CreateTrustManifest
  <2>3. \A i \in 1 .. Len(SignerList) : NewEntry(SignerList[i]) \in Entry
    BY <1>8, <1>9, <2>1 DEF CreateTrustManifest
  <2>4. trust' \in Seq(Entry)
    BY <2>1, <2>2, <2>3
  <2>5. rebuilds' \in 0 .. MaxRebuilds
    BY <1>0, <1>9 DEF CreateTrustManifest
  <2> QED BY <1>0, <1>9, <2>4, <2>5 DEF CreateTrustManifest, TypeOK, exports, history
<1>10. CASE EditEntry
  <2>1. edits' \in 0 .. MaxEdits
    BY <1>0, <1>10 DEF EditEntry, Edit
  <2>2. PICK i \in DOMAIN trust :
          \/ \E st \in {"trusted", "revoked", "suspended"} :
               trust' = [trust EXCEPT ![i] = [trust[i] EXCEPT !.status = st]]
          \/ trust' = [trust EXCEPT ![i] = [trust[i] EXCEPT !.until = now]]
    BY <1>10 DEF EditEntry
  <2>3. \E e \in Entry : trust' = [trust EXCEPT ![i] = e]
    <3>1. trust[i] \in Entry
      BY <1>0
    <3>2. \A st \in {"trusted", "revoked", "suspended"} : [trust[i] EXCEPT !.status = st] \in Entry
      BY <3>1 DEF Entry
    <3>3. now \in 0 .. Never
      BY <1>0 DEF Time, Never
    <3>4. [trust[i] EXCEPT !.until = now] \in Entry
      BY <3>1, <3>3 DEF Entry
    <3> QED BY <2>2, <3>2, <3>4
  <2>4. trust' \in Seq(Entry)
    BY <1>0, <2>3
  <2> QED BY <1>0, <1>10, <2>1, <2>4 DEF EditEntry, TypeOK, exports, history
<1>11. ASSUME NEW s \in Signer, AddEntry(s) PROVE TypeOK'
  <2>1. trust' \in Seq(Entry)
    BY <1>0, <1>8, <1>11 DEF AddEntry
  <2> QED BY <1>0, <1>11, <2>1 DEF AddEntry, TypeOK, exports, counters, history
<1> QED BY <1>1, <1>2, <1>3, <1>4, <1>5, <1>6, <1>7, <1>9, <1>10, <1>11

\* and none of those steps makes an envelope or touches a verification.
LEMMA FilesVouched ==
  ASSUME Vouched,
         \/ Tick \/ TraceChanges \/ ExportTrace \/ ExportTraceManifest \/ Tamper
         \/ \E f \in KeyFile : GenerateKeypair(f) \/ RemoveKeypair(f)
         \/ CreateTrustManifest \/ EditEntry
         \/ \E s \in Signer : AddEntry(s)
  PROVE  Vouched'
<1>1. verifier' = verifier /\ signed' = signed
  BY DEF Tick, TraceChanges, ExportTrace, ExportTraceManifest, Tamper, GenerateKeypair,
         RemoveKeypair, CreateTrustManifest, EditEntry, AddEntry, history
<1>2. envelope' = envelope \/ envelope' = Malformed
  BY DEF Tick, TraceChanges, ExportTrace, ExportTraceManifest, Tamper, GenerateKeypair,
         RemoveKeypair, CreateTrustManifest, EditEntry, AddEntry, exports
<1> QED BY <1>1, <1>2 DEF Vouched, Judged

LEMMA SignStep ==
  ASSUME IInv, (\E s \in Signer : SignRead(s)) \/ SignWrite
  PROVE  IInv'
<1>0. /\ now \in Time /\ trace \in Replay
      /\ bundle \in Bundle \cup {NoFile} /\ manifest \in Manifest \cup {NoFile}
      /\ envelope \in Envelope \cup {NoFile, Malformed}
      /\ keys \in [KeyFile -> Pair] /\ trust \in Seq(Entry)
      /\ signer \in Signing \cup {IdleSigner} /\ verifier \in Verifying \cup {IdleVerifier}
      /\ written \in 0 .. MaxExports /\ minted \in 0 .. MaxKeys
      /\ edits \in 0 .. MaxEdits /\ rebuilds \in 0 .. MaxRebuilds
      /\ signed \subseteq Envelope /\ attested \in BOOLEAN
  BY DEF IInv, TypeOK
<1>1. ASSUME NEW s \in Signer, SignRead(s) PROVE IInv'
  <2>1. keys[SignFile[s]] \in Pair
    BY <1>0, SignerAssumption
  <2>2. signer' \in Signing
    BY <1>0, <1>1, <2>1 DEF SignRead, Signing, Pair
  <2>3. TypeOK'
    BY <1>0, <1>1, <2>2 DEF SignRead, TypeOK, exports, policy, counters, history
  <2>4. verifier' = verifier /\ signed' = signed /\ envelope' = envelope
    BY <1>1 DEF SignRead, exports, history
  <2> QED BY <2>3, <2>4 DEF IInv, Vouched, Judged
<1>2. CASE SignWrite
  <2>1. Signature \in Envelope
    BY <1>0, <1>2 DEF SignWrite, Signature, Signing, Envelope
  <2>2. TypeOK'
    BY <1>0, <1>2, <2>1 DEF SignWrite, TypeOK, policy, counters
  <2>3. verifier' = verifier /\ signed \subseteq signed' /\ envelope' \in signed'
    BY <1>2 DEF SignWrite
  <2> QED BY <2>2, <2>3 DEF IInv, Vouched, Judged
<1> QED BY <1>1, <1>2

LEMMA VerifyStep ==
  ASSUME IInv, (\E mode \in Mode : VerifyPolicy(mode)) \/ VerifyKey
  PROVE  IInv'
<1>0. /\ now \in Time /\ trace \in Replay
      /\ bundle \in Bundle \cup {NoFile} /\ manifest \in Manifest \cup {NoFile}
      /\ envelope \in Envelope \cup {NoFile, Malformed}
      /\ keys \in [KeyFile -> Pair] /\ trust \in Seq(Entry)
      /\ signer \in Signing \cup {IdleSigner} /\ verifier \in Verifying \cup {IdleVerifier}
      /\ written \in 0 .. MaxExports /\ minted \in 0 .. MaxKeys
      /\ edits \in 0 .. MaxEdits /\ rebuilds \in 0 .. MaxRebuilds
      /\ signed \subseteq Envelope /\ attested \in BOOLEAN
  BY DEF IInv, TypeOK
<1>1. ASSUME verifier' \in Verifying \cup {IdleVerifier},
             UNCHANGED <<now, trace, exports, policy, signer, counters, history>>
      PROVE  TypeOK'
  BY <1>0, <1>1 DEF TypeOK, exports, policy, counters, history
<1>2. ASSUME verifier' = IdleVerifier,
             UNCHANGED <<now, trace, exports, policy, signer, counters, history>>
      PROVE  IInv'
  <2>1. TypeOK'
    BY <1>1, <1>2
  <2>2. verifier'.pc = "idle"
    BY <1>2, Distinct
  <2> QED BY <1>2, <2>1, <2>2 DEF IInv, Vouched, exports, history
<1>3. ASSUME NEW mode \in Mode, VerifyPolicy(mode) PROVE IInv'
  <2>0. UNCHANGED <<now, trace, exports, policy, signer, counters, history>>
    BY <1>3 DEF VerifyPolicy
  <2>1. CASE PolicyReason(mode) # "none"
    BY <1>2, <1>3, <2>0, <2>1 DEF VerifyPolicy, Refuse
  <2>2. CASE PolicyReason(mode) = "none"
    <3> DEFINE entry == ResolveSigner(trust, envelope, mode)
    <3>1. /\ manifest \in Manifest /\ envelope \in Envelope /\ entry \in Entry
          /\ envelope \notin {NoFile, Malformed}
          /\ entry.signer = envelope.signer /\ entry.key = envelope.fp
          /\ StatusServes(entry, mode)
          /\ ~ (EvaluationTime(envelope, mode, now) < entry.from)
          /\ ~ (EvaluationTime(envelope, mode, now) > entry.until)
      BY <2>2, PolicyPassed DEF IInv
    <3>2. verifier' = [pc |-> "key", mode |-> mode, manifest |-> manifest,
                       envelope |-> envelope, entry |-> entry, at |-> now]
      BY <1>3, <2>2 DEF VerifyPolicy
    <3> HIDE DEF entry
    <3>3. verifier' \in Verifying
      BY <1>0, <1>3, <3>1, <3>2 DEF Verifying
    <3>4. TypeOK'
      BY <1>1, <2>0, <3>3
    <3>5. Judged(verifier)' /\ verifier'.pc = "key"
      BY <2>0, <3>1, <3>2 DEF Judged, IInv, Vouched, history
    <3> QED BY <2>0, <3>4, <3>5 DEF IInv, Vouched, exports, history
  <2> QED BY <2>1, <2>2
<1>4. CASE VerifyKey
  <2> DEFINE e == verifier.envelope
             r == KeyReason(verifier.entry, keys, e, verifier.manifest)
  <2>0. UNCHANGED <<now, trace, exports, policy, signer, counters, history>>
    BY <1>4 DEF VerifyKey
  <2>1. CASE r # "none"
    BY <1>2, <1>4, <2>0, <2>1 DEF VerifyKey, Refuse
  <2>2. CASE r = "none"
    <3>1. verifier \in Verifying /\ Judged(verifier)
      BY <1>0, <1>4, Distinct DEF VerifyKey, IInv, Vouched
    <3>2. verifier' = [verifier EXCEPT !.pc = "ok"]
      BY <1>4, <2>2 DEF VerifyKey
    <3>3. e.by = verifier.entry.key /\ e.over = verifier.manifest
      BY <2>2 DEF KeyReason
    <3>4. /\ verifier' \in Verifying /\ verifier'.pc = "ok"
          /\ verifier'.envelope = e /\ verifier'.entry = verifier.entry
          /\ verifier'.manifest = verifier.manifest /\ verifier'.mode = verifier.mode
          /\ verifier'.at = verifier.at
      BY <3>1, <3>2 DEF Verifying
    <3>5. TypeOK'
      BY <1>1, <2>0, <3>4
    <3>6. Judged(verifier)'
      BY <2>0, <3>1, <3>4 DEF Judged, StatusServes, EvaluationTime, history
    <3> QED BY <2>0, <3>3, <3>4, <3>5, <3>6 DEF IInv, Vouched, exports, history
  <2> QED BY <2>1, <2>2
<1> QED BY <1>3, <1>4

LEMMA Inductive == ASSUME IInv, [Next]_vars PROVE IInv'
<1>1. CASE \/ Tick \/ TraceChanges \/ ExportTrace \/ ExportTraceManifest \/ Tamper
           \/ \E f \in KeyFile : GenerateKeypair(f) \/ RemoveKeypair(f)
           \/ CreateTrustManifest \/ EditEntry
           \/ \E s \in Signer : AddEntry(s)
  BY <1>1, FilesStep, FilesVouched DEF IInv
<1>2. CASE (\E s \in Signer : SignRead(s)) \/ SignWrite
  BY <1>2, SignStep
<1>3. CASE (\E mode \in Mode : VerifyPolicy(mode)) \/ VerifyKey
  BY <1>3, VerifyStep
<1>4. CASE UNCHANGED vars
  BY <1>4 DEF IInv, TypeOK, Vouched, Judged, vars, exports, policy, counters, history
<1> QED BY <1>1, <1>2, <1>3, <1>4 DEF Next

\* Whatever the files and the clock do, the files, the runs and the counters
\* keep their types: TypeOK.
THEOREM TypeCorrect == Spec => []TypeOK
<1>1. IInv => TypeOK
  BY DEF IInv
<1> QED BY Initial, Inductive, <1>1, PTL DEF Spec

\* An answer verifyGovernanceManifestSignature accepts was signed: AcceptedWasSigned,
\* although the files change between its two reads and those of the signing script.
THEOREM AcceptedCorrect == Spec => []AcceptedWasSigned
<1>1. ASSUME IInv PROVE AcceptedWasSigned
  <2> SUFFICES ASSUME verifier.pc = "ok"
               PROVE  \E e \in signed :
                        /\ e.over = verifier.manifest /\ e.by = verifier.entry.key
                        /\ e.signer = verifier.entry.signer
                        /\ IF verifier.mode = "historical"
                           THEN /\ verifier.entry.status # "suspended"
                                /\ e.at \in verifier.entry.from .. verifier.entry.until
                           ELSE /\ verifier.entry.status = "trusted"
                                /\ verifier.at \in verifier.entry.from .. verifier.entry.until
    BY DEF AcceptedWasSigned
  <2>1. verifier \in Verifying /\ Judged(verifier)
    BY <1>1, Distinct DEF IInv, TypeOK, Vouched
  <2>2. /\ verifier.entry.from \in Nat /\ verifier.entry.until \in Nat
        /\ verifier.at \in Nat /\ verifier.envelope.at \in Nat
    BY <2>1, Bounds DEF Verifying, Entry, Envelope, Time, Never
  <2>3. verifier.envelope.by = verifier.entry.key /\ verifier.envelope.over = verifier.manifest
    BY <1>1 DEF IInv, Vouched
  <2> DEFINE e == verifier.envelope
             entry == verifier.entry
  <2>4. /\ e \in signed /\ e.signer = entry.signer
        /\ IF verifier.mode = "historical"
           THEN entry.status # "suspended" /\ ~ (e.at < entry.from) /\ ~ (e.at > entry.until)
           ELSE /\ entry.status = "trusted"
                /\ ~ (verifier.at < entry.from) /\ ~ (verifier.at > entry.until)
    BY <2>1 DEF Judged, StatusServes, EvaluationTime
  <2>5. \A x \in Nat : ~ (x < entry.from) /\ ~ (x > entry.until) => x \in entry.from .. entry.until
    BY <2>2
  <2> QED BY <2>2, <2>3, <2>4, <2>5
<1> QED BY Initial, Inductive, <1>1, PTL DEF Spec

-----------------------------------------------------------------------------
(***************************************************************************)
(* Three verifications that agree                                          *)
(***************************************************************************)
\* A manifest was signed after it was exported, in the past, and one that was
\* exported of a verified bundle says of its hash what it says of itself.
Dated ==
  /\ manifest # NoFile =>
       manifest.at <= now /\ (manifest.clean /\ attested => manifest.hash.clean)
  /\ signer # IdleSigner => signer.manifest.at <= now
  /\ \A e \in signed : e.over.at <= e.at /\ e.at <= now

LEMMA DatedStep == ASSUME IInv, Dated, [Next]_vars PROVE Dated'
<1>0. /\ now \in Nat /\ manifest \in Manifest \cup {NoFile} /\ bundle \in Bundle \cup {NoFile}
      /\ signer \in Signing \cup {IdleSigner}
  BY Bounds DEF IInv, TypeOK, Time
\* A step that makes no manifest and no signature.
<1>1. ASSUME now' = now, UNCHANGED <<signed, attested>>,
             manifest' = manifest \/ (manifest # NoFile /\ manifest' = [manifest EXCEPT !.clean = FALSE]),
             signer' = signer
      PROVE  Dated'
  <2>1. CASE manifest' = manifest
    BY <1>1, <2>1 DEF Dated
  <2>2. CASE manifest # NoFile /\ manifest' = [manifest EXCEPT !.clean = FALSE]
    <3>1. manifest'.at = manifest.at /\ manifest'.clean = FALSE
      BY <1>0, <2>2 DEF Manifest
    <3> QED BY <1>1, <2>2, <3>1 DEF Dated
  <2> QED BY <1>1, <2>1, <2>2
<1>2. CASE Tick
  <2>1. now' = now + 1 /\ UNCHANGED <<manifest, signer, signed, attested>>
    BY <1>2 DEF Tick, exports, history
  <2>2. manifest # NoFile => manifest.at \in Nat
    BY <1>0, Bounds DEF Manifest, Time
  <2>3. signer # IdleSigner => signer.manifest.at \in Nat
    BY <1>0, Bounds DEF Signing, Manifest, Time
  <2>4. \A e \in signed : e.at \in Nat
    BY Bounds DEF IInv, TypeOK, Envelope, Time
  <2> QED BY <1>0, <2>1, <2>2, <2>3, <2>4 DEF Dated
<1>3. CASE ExportTraceManifest
  <2>1. /\ manifest' = [at |-> now, hash |-> bundle.hash, clean |-> bundle.replay.clean]
        /\ attested' => bundle.hash = bundle.replay
        /\ UNCHANGED <<now, signer, signed>>
    BY <1>3 DEF ExportTraceManifest, ManifestOf, BundleVerifies
  <2> QED BY <1>0, <2>1 DEF Dated
<1>4. ASSUME NEW s \in Signer, SignRead(s) PROVE Dated'
  <2>1. /\ UNCHANGED <<now, manifest, signed, attested>>
        /\ manifest # NoFile /\ signer'.manifest = manifest
    BY <1>4 DEF SignRead, exports, history
  <2> QED BY <2>1 DEF Dated
<1>5. CASE SignWrite
  <2>1. /\ UNCHANGED <<now, manifest, attested>> /\ signer' = IdleSigner
        /\ signed' = signed \cup {Signature} /\ signer # IdleSigner
    BY <1>5 DEF SignWrite
  <2>2. Signature.over.at <= Signature.at /\ Signature.at <= now
    BY <1>0, <2>1 DEF Signature, Dated
  <2> HIDE DEF Signature
  <2> QED BY <2>1, <2>2 DEF Dated
<1>6. CASE Tamper
  BY <1>1, <1>6 DEF Tamper, history
<1>7. CASE \/ TraceChanges \/ ExportTrace
           \/ \E f \in KeyFile : GenerateKeypair(f) \/ RemoveKeypair(f)
           \/ CreateTrustManifest \/ EditEntry
           \/ \E s \in Signer : AddEntry(s)
           \/ \E mode \in Mode : VerifyPolicy(mode)
           \/ VerifyKey
  BY <1>1, <1>7
  DEF TraceChanges, ExportTrace, GenerateKeypair, RemoveKeypair, CreateTrustManifest, EditEntry,
      AddEntry, VerifyPolicy, VerifyKey, exports, history
<1>8. CASE UNCHANGED vars
  BY <1>1, <1>8 DEF vars, exports, history
<1> QED BY <1>2, <1>3, <1>4, <1>5, <1>6, <1>7, <1>8 DEF Next

\* Evidence that the three verifying scripts agree on holds a sound replay, and
\* was signed after it was exported: VerifiedEvidenceIsSound.
THEOREM EvidenceCorrect == Spec => []VerifiedEvidenceIsSound
<1>1. Init => Dated
  BY DEF Init, Dated
<1>2. ASSUME IInv, Dated PROVE VerifiedEvidenceIsSound
  <2> SUFFICES ASSUME BundleVerifies(bundle), ManifestVerifies(manifest), HistoricalOk,
                      manifest.hash = bundle.hash, attested
               PROVE  bundle.replay.clean /\ manifest.at <= envelope.at
    BY DEF VerifiedEvidenceIsSound
  <2>1. bundle.replay.clean
    BY <1>2 DEF Dated, BundleVerifies, ManifestVerifies
  <2>2. envelope \in signed
    BY <1>2, PolicyPassed DEF HistoricalOk, IInv, Vouched, Mode
  <2>3. envelope.over = manifest
    BY DEF HistoricalOk, KeyReason
  <2> QED BY <1>2, <2>1, <2>2, <2>3 DEF Dated
<1> QED BY Initial, Inductive, <1>1, DatedStep, <1>2, PTL DEF Spec

-----------------------------------------------------------------------------
(***************************************************************************)
(* What the historical mode accepts stays accepted                         *)
(***************************************************************************)
\* Where there is a match, the entry that is resolved is the first one.
LEMMA FirstMatch ==
  ASSUME NEW t \in Seq(Entry), NEW e, NEW mode, NEW i \in Matches(t, e, mode),
         \A j \in Matches(t, e, mode) : i <= j
  PROVE  ResolveSigner(t, e, mode) = t[i]
<1> DEFINE M == Matches(t, e, mode)
           k == CHOOSE n \in M : \A j \in M : n <= j
<1>1. M \subseteq Nat
  BY DEF Matches
<1>2. k \in M /\ \A j \in M : k <= j
  BY Zenon
<1>3. k = i
  BY <1>1, <1>2
<1> QED BY <1>3 DEF ResolveSigner

\* The manifest u lists what t lists in the same order, each entry suspended in
\* both or in neither, open since the same time, and still open at the time at.
Extends(u, t, at) ==
  /\ Len(t) <= Len(u)
  /\ \A i \in DOMAIN t :
       /\ u[i].signer = t[i].signer /\ u[i].key = t[i].key /\ u[i].from = t[i].from
       /\ (u[i].status = "suspended") <=> (t[i].status = "suspended")
       /\ at <= t[i].until => at <= u[i].until

\* Such a manifest resolves an envelope to the entry at the same place.
LEMMA SameEntry ==
  ASSUME NEW t \in Seq(Entry), NEW u \in Seq(Entry), NEW e, Extends(u, t, e.at),
         ResolveSigner(t, e, "historical") # NoEntry
  PROVE  \E i \in DOMAIN t : /\ ResolveSigner(t, e, "historical") = t[i]
                             /\ ResolveSigner(u, e, "historical") = u[i]
<1> DEFINE M == Matches(t, e, "historical")
           N == Matches(u, e, "historical")
<1>1. M # {} /\ M \subseteq DOMAIN t /\ M \subseteq Nat
  BY DEF ResolveSigner, Matches
<1>2. PICK i \in M : \A j \in M : i <= j
  BY <1>1, Least
<1>3. /\ DOMAIN t = 1 .. Len(t) /\ DOMAIN u = 1 .. Len(u) /\ Len(t) \in Nat /\ Len(u) \in Nat
      /\ Len(t) <= Len(u)
  BY DEF Extends
<1>4. i \in N
  BY <1>1, <1>3 DEF Matches, StatusServes, Extends
<1>5. ASSUME NEW j \in N PROVE i <= j
  <2>1. j \in DOMAIN u
    BY DEF Matches
  <2>2. CASE j \in DOMAIN t
    <3>1. j \in M
      BY <1>3, <2>2 DEF Matches, StatusServes, Extends
    <3> QED BY <1>2, <3>1
  <2>3. CASE j \notin DOMAIN t
    BY <1>1, <1>3, <2>1, <2>3
  <2> QED BY <2>2, <2>3
<1>6. ResolveSigner(t, e, "historical") = t[i]
  BY <1>2, FirstMatch
<1>7. ResolveSigner(u, e, "historical") = u[i]
  BY <1>4, <1>5, FirstMatch
<1> QED BY <1>1, <1>6, <1>7

\* An accepted judgement does not depend on the clock, nor on which of two such
\* trust manifests is asked.
LEMMA StillOk ==
  ASSUME TypeOK, TypeOK', HistoricalOk, UNCHANGED <<manifest, envelope, keys>>,
         Extends(trust', trust, envelope.at)
  PROVE  HistoricalOk'
<1> DEFINE old == ResolveSigner(trust, envelope, "historical")
           new == ResolveSigner(trust', envelope, "historical")
<1>0. trust \in Seq(Entry) /\ trust' \in Seq(Entry)
  BY DEF TypeOK
<1>1. /\ envelope \in Envelope /\ envelope \notin {NoFile, Malformed} /\ old \in Entry
      /\ ~ (envelope.at < old.from) /\ ~ (envelope.at > old.until)
      /\ NoFile \notin {manifest, envelope}
  <2>1. PolicyReason("historical") = "none" /\ "historical" \in Mode
    BY DEF HistoricalOk, Mode
  <2>2. NoFile \notin {manifest, envelope}
    BY <2>1, Zenon DEF PolicyReason
  <2> QED BY <2>1, <2>2, PolicyPassed DEF EvaluationTime
<1>2. PICK i \in DOMAIN trust : old = trust[i] /\ new = trust'[i]
  BY <1>0, <1>1, Distinct, SameEntry
<1>3. i \in DOMAIN trust' /\ trust'[i] \in Entry
  BY <1>0 DEF Extends
<1>4. /\ new.signer = old.signer /\ new.key = old.key /\ new.from = old.from
      /\ envelope.at <= old.until => envelope.at <= new.until
  BY <1>2 DEF Extends
<1>5. envelope.at \in Nat /\ old.until \in Nat /\ new.until \in Nat
  BY <1>1, <1>2, <1>3, Bounds DEF Envelope, Entry, Time, Never
<1>6. new # NoEntry /\ trust' # <<>>
  BY <1>0, <1>2, <1>3, Distinct
<1>7. ~ (envelope.at < new.from) /\ ~ (envelope.at > new.until)
  BY <1>1, <1>4, <1>5
<1>8. (KeyReason(old, keys, envelope, manifest) = "none")
  BY DEF HistoricalOk
<1>9. KeyReason(new, keys, envelope, manifest) = "none"
  BY <1>4, <1>8 DEF KeyReason
<1> HIDE DEF old, new
<1>10. PolicyReason("historical")' =
         CASE NoFile \in {manifest, envelope} \/ trust' = <<>> -> "missing_required_file"
           [] envelope = Malformed      -> "invalid_signature_envelope_schema"
           [] new = NoEntry             -> "signer_not_trusted"
           [] envelope.at < new.from    -> "signer_not_yet_valid"
           [] envelope.at > new.until   -> "signer_expired"
           [] OTHER                     -> "none"
  BY DEF PolicyReason, EvaluationTime, new
<1>11. PolicyReason("historical")' = "none"
  BY <1>1, <1>6, <1>7, <1>10
<1> QED BY <1>9, <1>11 DEF HistoricalOk, new

\* The clock, revocations, ends, restorations and new entries do not take back
\* what the historical mode accepts: HistorySurvives.
THEOREM HistoryCorrect == Spec => HistorySurvives
<1> DEFINE Lost == \/ manifest' # manifest \/ envelope' # envelope \/ keys' # keys
                   \/ rebuilds' # rebuilds
                   \/ \E i \in DOMAIN trust :
                        (trust[i].status = "suspended") # (trust'[i].status = "suspended")
<1>1. Init => Dated
  BY DEF Init, Dated
<1>2. ASSUME IInv, IInv', Dated, [Next]_vars, HistoricalOk, ~ Lost PROVE HistoricalOk'
  <2>0. /\ trust \in Seq(Entry) /\ trust' \in Seq(Entry) /\ rebuilds \in Nat /\ now \in Nat
    BY <1>2, Bounds DEF IInv, TypeOK, Time
  <2>1. Len(trust) <= Len(trust') /\ \A i \in DOMAIN trust :
          \/ trust'[i] = trust[i]
          \/ \E st \in {"trusted", "revoked", "suspended"} : trust'[i] = [trust[i] EXCEPT !.status = st]
          \/ trust'[i] = [trust[i] EXCEPT !.until = now]
    <3>1. CASE trust' = trust
      BY <2>0, <3>1
    <3>2. CASE CreateTrustManifest
      BY <1>2, <2>0, <3>2 DEF CreateTrustManifest
    <3>3. CASE EditEntry
      <4>1. PICK k \in DOMAIN trust :
              \/ \E st \in {"trusted", "revoked", "suspended"} :
                   trust' = [trust EXCEPT ![k] = [trust[k] EXCEPT !.status = st]]
              \/ trust' = [trust EXCEPT ![k] = [trust[k] EXCEPT !.until = now]]
        BY <3>3 DEF EditEntry
      <4> QED BY <2>0, <4>1
    <3>4. ASSUME NEW s \in Signer, AddEntry(s)
          PROVE  Len(trust) <= Len(trust') /\ \A i \in DOMAIN trust : trust'[i] = trust[i]
      <4>1. trust' = Append(trust, NewEntry(s))
        BY <3>4 DEF AddEntry
      <4> HIDE DEF NewEntry
      <4>2. trust \in Seq(Entry \cup {NewEntry(s)})
        BY <2>0
      <4> QED BY <4>1, <4>2
    <3>5. \/ trust' = trust \/ CreateTrustManifest \/ EditEntry
          \/ \E s \in Signer : AddEntry(s)
      BY <1>2 DEF Next, Tick, TraceChanges, ExportTrace, ExportTraceManifest, Tamper,
         GenerateKeypair, RemoveKeypair, SignRead, SignWrite, VerifyPolicy, VerifyKey, vars, policy
    <3> QED BY <3>1, <3>2, <3>3, <3>4, <3>5
  <2>2. envelope \in Envelope /\ envelope.at <= now
    <3>1. PolicyReason("historical") = "none" /\ "historical" \in Mode
      BY <1>2 DEF HistoricalOk, Mode
    <3>2. envelope \in Envelope /\ envelope \in signed
      BY <1>2, <3>1, PolicyPassed DEF IInv, Vouched
    <3> QED BY <1>2, <3>2 DEF Dated
  <2>3. ASSUME NEW i \in DOMAIN trust
        PROVE  /\ trust'[i].signer = trust[i].signer /\ trust'[i].key = trust[i].key
               /\ trust'[i].from = trust[i].from
               /\ (trust'[i].status = "suspended") <=> (trust[i].status = "suspended")
               /\ envelope.at <= trust[i].until => envelope.at <= trust'[i].until
    <3>1. trust[i] \in Entry
      BY <2>0
    <3>2. (trust'[i].status = "suspended") <=> (trust[i].status = "suspended")
      BY <1>2
    <3> QED BY <2>1, <2>2, <3>1, <3>2 DEF Entry
  <2>4. Extends(trust', trust, envelope.at)
    BY <2>1, <2>3 DEF Extends
  <2> QED BY <1>2, <2>4, StillOk DEF IInv
<1>3. ASSUME IInv, IInv', Dated, [Next]_vars
      PROVE  [HistoricalOk /\ ~HistoricalOk' => Lost]_vars
  BY <1>2, <1>3
<1> QED BY Initial, Inductive, <1>1, DatedStep, <1>3, PTL DEF Spec, HistorySurvives
=============================================================================
