-------------------------- MODULE GovernanceTrust --------------------------
(***************************************************************************)
(* Governance trust: the replay of a trace is exported as a hashed bundle, *)
(* the bundle is summed up in a manifest, the manifest is signed, and the  *)
(* signature is verified against the governance trust manifest             *)
(* (core/trust/governanceTrust.ts and the scripts around it). Every script *)
(* reads and writes plain files, so any of them may run between two reads  *)
(* of another, and operators edit the trust manifest and the keys by hand. *)
(*                                                                         *)
(* A key pair is a number; the fingerprint of a public key is that number, *)
(* and a signature carries the private key it was made with. A date is a   *)
(* tick of the clock.                                                      *)
(***************************************************************************)
EXTENDS Naturals, Sequences

CONSTANTS Signer, KeyFile,
          SignFile,       \* the key pair sign-trace-manifest uses for a signer
          TrustFile,      \* the public key the trust manifest names for it
          SignerList,     \* the signers create-governance-trust-manifest lists
          NoFile, Malformed,
          MaxTime, MaxKeys, MaxLog,
          MaxExports, MaxEdits, MaxEntries, MaxRebuilds   \* bounds

ASSUME SignerAssumption ==
  /\ SignFile \in [Signer -> KeyFile] /\ TrustFile \in [Signer -> KeyFile]
  /\ SignerList \in Seq(Signer) /\ SignerList # <<>>
ASSUME BoundAssumption ==
  {MaxTime, MaxKeys, MaxLog, MaxExports, MaxEdits, MaxEntries, MaxRebuilds} \subseteq Nat

VARIABLES
  now,        \* the clock
  trace,      \* the authority log of the trace
  bundle, manifest, envelope,   \* exports/traces/<id>{,.manifest,.manifest.sig}.json
  keys,       \* config/keys
  trust,      \* policy/trust: its entries in order; empty when missing or refused by the schema
  signer, verifier,             \* a run of the signing and of the verifying script
  written, minted, edits, rebuilds,   \* bounded counters
  \* History variables: they guard nothing and are read by properties only.
  signed,     \* every envelope the signing script has written
  attested    \* the bundle verified when the present manifest was exported of it

exports  == <<bundle, manifest, envelope>>
policy   == <<keys, trust>>
counters == <<written, minted, edits, rebuilds>>
history  == <<signed, attested>>
vars     == <<now, trace, exports, policy, signer, verifier, counters, history>>

Time  == 0 .. MaxTime
Never == MaxTime + 1
NoKey == 0
Key   == 1 .. MaxKeys
Pair  == [priv : Key \cup {NoKey}, pub : Key \cup {NoKey}]
Mode  == {"current", "historical"}

\* The replay a bundle holds: how much of the trace, and whether its hashes
\* and its chain are sound. The date in a bundle is left out: bundles of one
\* replay are one bundle.
Replay   == [len : 0 .. MaxLog, clean : BOOLEAN]
Bundle   == [replay : Replay, hash : Replay]
Manifest == [at : Time, hash : Replay, clean : BOOLEAN]
Envelope == [signer : Signer, fp : Key, at : Time, by : Key, over : Manifest]
Entry    == [signer : Signer, key : Key, from : Time, until : 0 .. Never,
             status : {"trusted", "revoked", "suspended"}]

NoEntry == [key |-> NoKey]

IdleSigner   == [pc |-> "idle"]
IdleVerifier == [pc |-> "idle"]
Signing == [pc : {"sign"}, signer : Signer, manifest : Manifest, priv : Key, pub : Key]
Verifying ==
  [pc : {"key", "ok"}, mode : Mode, manifest : Manifest, envelope : Envelope,
   entry : Entry, at : Time]

TypeOK ==
  /\ now \in Time /\ trace \in Replay
  /\ bundle \in Bundle \cup {NoFile}
  /\ manifest \in Manifest \cup {NoFile}
  /\ envelope \in Envelope \cup {NoFile, Malformed}
  /\ keys \in [KeyFile -> Pair] /\ trust \in Seq(Entry)
  /\ signer \in Signing \cup {IdleSigner} /\ verifier \in Verifying \cup {IdleVerifier}
  /\ written \in 0 .. MaxExports /\ minted \in 0 .. MaxKeys
  /\ edits \in 0 .. MaxEdits /\ rebuilds \in 0 .. MaxRebuilds
  /\ signed \subseteq Envelope /\ attested \in BOOLEAN

Init ==
  /\ now = 0 /\ trace = [len |-> 0, clean |-> TRUE]
  /\ bundle = NoFile /\ manifest = NoFile /\ envelope = NoFile
  /\ keys = [f \in KeyFile |-> [priv |-> NoKey, pub |-> NoKey]] /\ trust = <<>>
  /\ signer = IdleSigner /\ verifier = IdleVerifier
  /\ written = 0 /\ minted = 0 /\ edits = 0 /\ rebuilds = 0
  /\ signed = {} /\ attested = FALSE

Tick ==
  /\ now < MaxTime
  /\ now' = now + 1
  /\ UNCHANGED <<trace, exports, policy, signer, verifier, counters, history>>

-----------------------------------------------------------------------------
(***************************************************************************)
(* The evidence: trace, bundle, manifest                                   *)
(***************************************************************************)
\* The trace grows, or a record of it is damaged (AuthorityLog has the detail).
TraceChanges ==
  /\ \/ trace.len < MaxLog /\ trace' = [trace EXCEPT !.len = @ + 1]
     \/ trace.clean /\ trace' = [trace EXCEPT !.clean = FALSE]
  /\ UNCHANGED <<now, exports, policy, signer, verifier, counters, history>>

Export == written < MaxExports /\ written' = written + 1

ExportTrace ==
  /\ Export
  /\ bundle' = [replay |-> trace, hash |-> trace]
  /\ UNCHANGED <<now, trace, manifest, envelope, policy, signer, verifier, minted,
                 edits, rebuilds, history>>

\* Faulty variants (here and below, each named ...Bug) stand in for the
\* definition after them when a property is tested for being breakable.
BundleVerifiesBug(b) == b # NoFile

\* verify-trace-export and verify-trace-manifest.
BundleVerifies(b) == b # NoFile /\ b.hash = b.replay
ManifestVerifies(m) == m # NoFile /\ m.clean

\* The bundle's own hash is not looked at.
ManifestOf(b) == [at |-> now, hash |-> b.hash, clean |-> b.replay.clean]

ExportTraceManifest ==
  /\ Export
  /\ bundle # NoFile
  /\ manifest' = ManifestOf(bundle)
  /\ attested' = BundleVerifies(bundle)
  /\ UNCHANGED <<now, trace, bundle, envelope, policy, signer, verifier, minted, edits,
                 rebuilds, signed>>

Edit == edits < MaxEdits /\ edits' = edits + 1

\* A hand changes the replay in the bundle, the manifest's status, or breaks
\* the envelope.
Tamper ==
  /\ Edit
  /\ \/ /\ bundle # NoFile
        /\ \E r \in Replay \ {bundle.replay} : bundle' = [bundle EXCEPT !.replay = r]
        /\ UNCHANGED <<manifest, envelope>>
     \/ /\ manifest # NoFile /\ manifest.clean
        /\ manifest' = [manifest EXCEPT !.clean = FALSE]
        /\ UNCHANGED <<bundle, envelope>>
     \/ /\ envelope \notin {NoFile, Malformed}
        /\ envelope' = Malformed
        /\ UNCHANGED <<bundle, manifest>>
  /\ UNCHANGED <<now, trace, policy, signer, verifier, written, minted, rebuilds,
                 history>>

-----------------------------------------------------------------------------
(***************************************************************************)
(* Keys and the trust manifest                                             *)
(***************************************************************************)
\* A new pair, unless a file of it exists.
GenerateKeypair(f) ==
  /\ keys[f] = [priv |-> NoKey, pub |-> NoKey]
  /\ minted < MaxKeys
  /\ minted' = minted + 1
  /\ keys' = [keys EXCEPT ![f] = [priv |-> minted + 1, pub |-> minted + 1]]
  /\ UNCHANGED <<now, trace, exports, trust, signer, verifier, written, edits, rebuilds,
                 history>>

\* An operator removes a pair, so that the signer can have a new one.
RemoveKeypair(f) ==
  /\ keys[f] # [priv |-> NoKey, pub |-> NoKey]
  /\ keys' = [keys EXCEPT ![f] = [priv |-> NoKey, pub |-> NoKey]]
  /\ UNCHANGED <<now, trace, exports, trust, signer, verifier, counters, history>>

NewEntry(s) == [signer |-> s, key |-> keys[TrustFile[s]].pub, from |-> now,
                until |-> Never, status |-> "trusted"]

CreateTrustManifestBug ==
  /\ rebuilds < MaxRebuilds
  /\ trust' = [i \in DOMAIN SignerList |-> NewEntry(SignerList[i])]
  /\ rebuilds' = rebuilds + 1
  /\ UNCHANGED <<now, trace, exports, keys, signer, verifier, written, minted, edits, history>>

\* The whole manifest is written anew: every signer trusted, from now on.
CreateTrustManifest ==
  /\ rebuilds < MaxRebuilds
  /\ \A i \in DOMAIN SignerList : keys[TrustFile[SignerList[i]]].pub # NoKey
  /\ trust' = [i \in DOMAIN SignerList |-> NewEntry(SignerList[i])]
  /\ rebuilds' = rebuilds + 1
  /\ UNCHANGED <<now, trace, exports, keys, signer, verifier, written, minted, edits,
                 history>>

\* An operator sets the status of an entry or ends its window now,
EditEntry ==
  /\ Edit
  /\ \E i \in DOMAIN trust :
       \/ \E st \in {"trusted", "revoked", "suspended"} \ {trust[i].status} :
            trust' = [trust EXCEPT ![i].status = st]
       \/ trust' = [trust EXCEPT ![i].until = now]
  /\ UNCHANGED <<now, trace, exports, keys, signer, verifier, written, minted, rebuilds, history>>

\* or lists a signer once more, with the key it has now.
AddEntry(s) ==
  /\ Len(trust) \in 1 .. MaxEntries - 1
  /\ keys[TrustFile[s]].pub # NoKey
  /\ trust' = Append(trust, NewEntry(s))
  /\ UNCHANGED <<now, trace, exports, keys, signer, verifier, counters, history>>

-----------------------------------------------------------------------------
(***************************************************************************)
(* sign-trace-manifest                                                     *)
(***************************************************************************)
SignRead(s) ==
  /\ signer = IdleSigner
  /\ manifest # NoFile
  /\ keys[SignFile[s]].priv # NoKey /\ keys[SignFile[s]].pub # NoKey
  /\ signer' = [pc |-> "sign", signer |-> s, manifest |-> manifest,
                priv |-> keys[SignFile[s]].priv, pub |-> keys[SignFile[s]].pub]
  /\ UNCHANGED <<now, trace, exports, policy, verifier, counters, history>>

Signature == [signer |-> signer.signer, fp |-> signer.pub, at |-> now,
              by |-> signer.priv, over |-> signer.manifest]

SignWrite ==
  /\ signer # IdleSigner
  /\ envelope' = Signature
  /\ signed' = signed \cup {Signature}
  /\ signer' = IdleSigner
  /\ UNCHANGED <<now, trace, bundle, manifest, policy, verifier, counters, attested>>

-----------------------------------------------------------------------------
(***************************************************************************)
(* verifyGovernanceManifestSignature                                       *)
(***************************************************************************)
StatusServesBug(e, mode) == e.status # "suspended"

\* Revoked signers keep their past; suspended ones have none.
StatusServes(e, mode) ==
  IF mode = "historical" THEN e.status # "suspended" ELSE e.status = "trusted"

Matches(t, e, mode) ==
  {i \in DOMAIN t : t[i].signer = e.signer /\ t[i].key = e.fp /\ StatusServes(t[i], mode)}

ResolveSignerBug(t, e, mode) ==
  IF Matches(t, e, mode) = {} THEN NoEntry
  ELSE t[CHOOSE i \in Matches(t, e, mode) : \A j \in Matches(t, e, mode) : j <= i]

\* The first entry that matches, whatever its window; later ones are not tried.
ResolveSigner(t, e, mode) ==
  IF Matches(t, e, mode) = {} THEN NoEntry
  ELSE t[CHOOSE i \in Matches(t, e, mode) : \A j \in Matches(t, e, mode) : i <= j]

EvaluationTime(e, mode, clock) == IF mode = "historical" THEN e.at ELSE clock

\* The checks up to the window of the signer.
PolicyReason(mode) ==
  LET entry == ResolveSigner(trust, envelope, mode)
      at    == EvaluationTime(envelope, mode, now)
  IN CASE NoFile \in {manifest, envelope} \/ trust = <<>> -> "missing_required_file"
       [] envelope = Malformed                            -> "invalid_signature_envelope_schema"
       [] entry = NoEntry                                 -> "signer_not_trusted"
       [] at < entry.from                                 -> "signer_not_yet_valid"
       [] at > entry.until                                -> "signer_expired"
       [] OTHER                                           -> "none"

\* What the trusted public key has to say: its binding, then the signature.
KeyReason(entry, ks, e, m) ==
  LET pub == ks[TrustFile[entry.signer]].pub IN
    CASE pub = NoKey                  -> "public_key_missing"
      [] pub # entry.key              -> "fingerprint_mismatch"
      [] e.by # pub \/ e.over # m     -> "signature_invalid"
      [] OTHER                        -> "none"

\* A refusal is printed with its reason, and the script ends.
Refuse(r) == IdleVerifier

\* The manifest, the envelope and the trust manifest are read one after the
\* other, taken here as one read; the signer is resolved and its window judged.
VerifyPolicy(mode) ==
  /\ verifier.pc \in {"idle", "ok"}
  /\ LET r == PolicyReason(mode) IN
       verifier' = IF r # "none" THEN Refuse(r)
                   ELSE [pc |-> "key", mode |-> mode, manifest |-> manifest, envelope |-> envelope,
                         entry |-> ResolveSigner(trust, envelope, mode), at |-> now]
  /\ UNCHANGED <<now, trace, exports, policy, signer, counters, history>>

\* The public key is read; its binding and the signature are judged.
VerifyKey ==
  /\ verifier.pc = "key"
  /\ LET r == KeyReason(verifier.entry, keys, verifier.envelope, verifier.manifest) IN
       verifier' = IF r # "none" THEN Refuse(r) ELSE [verifier EXCEPT !.pc = "ok"]
  /\ UNCHANGED <<now, trace, exports, policy, signer, counters, history>>

Next ==
  \/ Tick \/ TraceChanges
  \/ ExportTrace \/ ExportTraceManifest \/ Tamper
  \/ \E f \in KeyFile : GenerateKeypair(f) \/ RemoveKeypair(f)
  \/ CreateTrustManifest \/ EditEntry
  \/ \E s \in Signer : AddEntry(s) \/ SignRead(s)
  \/ SignWrite
  \/ \E mode \in Mode : VerifyPolicy(mode)
  \/ VerifyKey

Spec == Init /\ [][Next]_vars

-----------------------------------------------------------------------------
(***************************************************************************)
(* Properties                                                              *)
(***************************************************************************)
\* verifyGovernanceManifestSignature reads the public key after the other files,
\* and sign-trace-manifest writes after it has read, while each file may be
\* rewritten. An accepted answer still means that the signing
\* script once signed exactly the manifest that was read, with the key of the
\* entry that was resolved, and that this entry served in the mode asked for
\* and covered the time of the signature (historical) or of the judgement.
AcceptedWasSigned ==
  verifier.pc = "ok" =>
    LET entry == verifier.entry IN
      \E e \in signed :
        /\ e.over = verifier.manifest /\ e.by = entry.key /\ e.signer = entry.signer
        /\ IF verifier.mode = "historical"
           THEN entry.status # "suspended" /\ e.at \in entry.from .. entry.until
           ELSE entry.status = "trusted" /\ verifier.at \in entry.from .. entry.until

\* The verification run at once on the files as they are.
HistoricalOk ==
  /\ PolicyReason("historical") = "none"
  /\ KeyReason(ResolveSigner(trust, envelope, "historical"), keys, envelope, manifest) = "none"

\* Three scripts vouch for one trace: verify-trace-export for the bundle,
\* verify-trace-manifest for the manifest, and the signature for who stated it.
\* When all three pass, the manifest names the hash of this bundle, and the
\* bundle verified when the manifest was exported (export-trace-manifest does
\* not look), the bundle holds a sound replay, as it was when it was exported.
VerifiedEvidenceIsSound ==
  /\ BundleVerifies(bundle) /\ ManifestVerifies(manifest) /\ HistoricalOk
  /\ manifest.hash = bundle.hash /\ attested
  => bundle.replay.clean /\ manifest.at <= envelope.at

\* Evidence the historical mode accepts stays accepted while time passes, while
\* signers are revoked, restored from revocation or end, and while new ones are
\* listed. It is lost only with its own files, with the key, when the trust
\* manifest is created anew, or when an entry is suspended or its suspension is
\* lifted (the entry it lifts may come first and have another window).
HistorySurvives ==
  [][ HistoricalOk /\ ~HistoricalOk'
      => \/ manifest' # manifest \/ envelope' # envelope \/ keys' # keys
         \/ rebuilds' # rebuilds
         \/ \E i \in DOMAIN trust :
              (trust[i].status = "suspended") # (trust'[i].status = "suspended") ]_vars
=============================================================================
