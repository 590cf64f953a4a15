------------------------- MODULE AuthorityLogProofs -------------------------
(***************************************************************************)
(* Proofs about AuthorityLog for any grants and traces, any damage to any  *)
(* number of lines and any number of crashes and failed writes.            *)
(***************************************************************************)
EXTENDS AuthorityLog, SequenceTheorems, WellFoundedInduction, TLAPS

\* Records have no set of their own, since their hashes have none.
IsSeq(s) == \E S : s \in Seq(S)

Fields == {"grant", "type", "body", "prev", "hash"}

\* r is a record of trace t.
RecordOf(r, t) ==
  /\ DOMAIN r = Fields
  /\ r = [f \in DOMAIN r |-> r[f]]
  /\ r.grant \in {g \in Grant : TraceOf[g] = t}
  /\ r.type \in RecordType /\ r.body \in Body

-----------------------------------------------------------------------------
(***************************************************************************)
(* Sequences                                                               *)
(***************************************************************************)
\* A set of positions has a first.
LEMMA LeastElement ==
  ASSUME NEW S, S \subseteq Nat, S # {}
  PROVE  \E x \in S : \A y \in S : x <= y
<1> DEFINE R == OpToRel(<, Nat)
<1>1. IsWellFoundedOn(R, Nat)
  BY NatLessThanWellFounded, Zenon
<1>2. \A y, x \in Nat : y < x => <<y, x>> \in R
  BY Zenon DEF OpToRel
<1> HIDE DEF R
<1>3. PICK x \in S : \A y \in S : <<y, x>> \notin R
  BY <1>1, WFMin
<1>4. \A y \in S : ~(y < x)
  BY <1>2, <1>3
<1> QED BY <1>4

\* The domain of a sequence.
LEMMA SeqDomain ==
  ASSUME NEW s, IsSeq(s)
  PROVE  Len(s) \in Nat /\ DOMAIN s = 1 .. Len(s)
<1>1. PICK S : s \in Seq(S)
  BY DEF IsSeq
<1> QED BY <1>1

\* Append adds one element at the end (the record that appendFileSync writes).
LEMMA AppendFacts ==
  ASSUME NEW s, IsSeq(s), NEW r
  PROVE  /\ IsSeq(Append(s, r))
         /\ Len(Append(s, r)) = Len(s) + 1
         /\ \A i \in 1 .. Len(s) : Append(s, r)[i] = s[i]
         /\ Append(s, r)[Len(s) + 1] = r
<1>1. PICK S : s \in Seq(S)
  BY DEF IsSeq
<1>2. s \in Seq(S \cup {r})
  BY <1>1
<1>3. Append(s, r) \in Seq(S \cup {r})
  BY <1>2
<1>4. IsSeq(Append(s, r))
  BY <1>3 DEF IsSeq
<1> QED BY <1>2, <1>4

\* Replacing an element leaves a sequence of the same length.
LEMMA ReplaceFacts ==
  ASSUME NEW s, IsSeq(s), NEW i \in DOMAIN s, NEW r
  PROVE  /\ IsSeq([s EXCEPT ![i] = r])
         /\ DOMAIN [s EXCEPT ![i] = r] = DOMAIN s
         /\ \A j \in DOMAIN s : [s EXCEPT ![i] = r][j] = IF j = i THEN r ELSE s[j]
<1>1. PICK S : s \in Seq(S)
  BY DEF IsSeq
<1>2. [s EXCEPT ![i] = r] \in Seq(S \cup {r})
  BY <1>1
<1> QED BY <1>2 DEF IsSeq

\* Removing an element leaves a sequence of elements of the old one.
LEMMA RemoveFacts ==
  ASSUME NEW s, IsSeq(s), NEW i \in DOMAIN s
  PROVE  /\ IsSeq(RemoveAt(s, i))
         /\ \A j \in DOMAIN RemoveAt(s, i) :
              \E k \in DOMAIN s : RemoveAt(s, i)[j] = s[k]
<1> DEFINE R == {s[k] : k \in DOMAIN s}
<1>1. Len(s) \in Nat /\ DOMAIN s = 1 .. Len(s)
  BY SeqDomain
<1>2. s \in Seq(R)
  <2>1. PICK S : s \in Seq(S)
    BY DEF IsSeq
  <2> QED BY <2>1
<1>3. SubSeq(s, 1, i - 1) \in Seq(R) /\ SubSeq(s, i + 1, Len(s)) \in Seq(R)
  BY <1>1, <1>2
<1>4. RemoveAt(s, i) \in Seq(R)
  BY <1>3 DEF RemoveAt
<1>5. \A j \in DOMAIN RemoveAt(s, i) : RemoveAt(s, i)[j] \in R
  BY <1>4
<1> QED BY <1>4, <1>5 DEF IsSeq

-----------------------------------------------------------------------------
(***************************************************************************)
(* Records                                                                 *)
(***************************************************************************)
\* What writeAuthorityArtifact appends.
LEMMA NewRecordFacts ==
  ASSUME NEW g \in Grant, NEW t, TraceOf[g] = t
  PROVE  /\ RecordOf(NewRecord(g), t)
         /\ NewRecord(g).grant = g
         /\ NewRecord(g).prev = prev[g]
         /\ NewRecord(g).body = "intact"
         /\ NewRecord(g).hash = HashOf(NewRecord(g))
         /\ NewRecord(g).type = "legitimacy_artifact" => pc[g] # "append_token"
BY DEF NewRecord, Record, Hash, HashOf, RecordOf, Fields, RecordType, Body

\* findPreviousAuthorityHash returns the hash of the last record if it has one.
LEMMA LastHashFacts ==
  ASSUME NEW s, IsSeq(s), Len(s) > 0, Hashed(s[Len(s)])
  PROVE  LastHash(s) = s[Len(s)].hash
<1> DEFINE I == {i \in DOMAIN s : Hashed(s[i])}
           k == CHOOSE i \in I : \A j \in I : j <= i
<1>1. Len(s) \in I /\ \A j \in I : j \in Nat /\ j <= Len(s)
  BY SeqDomain
<1>2. k \in I /\ \A j \in I : j <= k
  BY <1>1
<1>3. k = Len(s)
  BY <1>1, <1>2
<1>4. I # {}
  BY <1>1
<1> QED BY <1>3, <1>4 DEF LastHash

-----------------------------------------------------------------------------
(***************************************************************************)
(* Type correctness                                                        *)
(***************************************************************************)
TypeInv ==
  /\ TypeOK
  /\ DOMAIN log = Trace /\ DOMAIN written = Trace /\ DOMAIN prev = Grant
  /\ DOMAIN baseline = Trace /\ DOMAIN kept = Trace
  /\ \A t \in Trace :
       /\ IsSeq(log[t]) /\ IsSeq(written[t])
       /\ \A i \in DOMAIN log[t] : RecordOf(log[t][i], t)
       /\ \A i \in DOMAIN written[t] : RecordOf(written[t][i], t)

\* r is a record of trace t whose hash, if it has one, is that of a line of s.
Remains(r, t, s) ==
  /\ RecordOf(r, t)
  /\ r.hash = NoHash \/ \E j \in DOMAIN s : r.hash = s[j].hash

\* A damaged log is still a sequence of records of its trace, none of which
\* has a hash that was not in the log.
LEMMA DamageFacts ==
  ASSUME NEW t, NEW s, IsSeq(s), \A i \in DOMAIN s : RecordOf(s[i], t),
         NEW k \in DOMAIN s, NEW d \in LineDamages(s, k)
  PROVE  IsSeq(d) /\ \A i \in DOMAIN d : Remains(d[i], t, s)
<1>0. \A i \in DOMAIN s : Remains(s[i], t, s)
  BY DEF Remains
<1>1. ASSUME NEW i \in DOMAIN s, d = RemoveAt(s, i)
      PROVE  IsSeq(d) /\ \A j \in DOMAIN d : Remains(d[j], t, s)
  BY <1>0, <1>1, RemoveFacts
<1>2. ASSUME NEW i \in DOMAIN s, NEW r, Remains(r, t, s), d = [s EXCEPT ![i] = r]
      PROVE  IsSeq(d) /\ \A j \in DOMAIN d : Remains(d[j], t, s)
  BY <1>0, <1>2, ReplaceFacts
<1>3. ASSUME NEW i \in DOMAIN s, NEW f \in {"prev", "hash"}
      PROVE  Remains([s[i] EXCEPT ![f] = NoHash], t, s)
  BY <1>3 DEF RecordOf, Fields, Remains
<1>4. ASSUME NEW i \in DOMAIN s, NEW b \in Body
      PROVE  Remains([s[i] EXCEPT !.body = b], t, s)
  BY <1>4 DEF RecordOf, Fields, Remains
<1>5. ASSUME k + 1 \in DOMAIN s, d = [s EXCEPT ![k] = s[k + 1], ![k + 1] = s[k]]
      PROVE  IsSeq(d) /\ \A j \in DOMAIN d : Remains(d[j], t, s)
  <2> DEFINE c == [s EXCEPT ![k] = s[k + 1]]
  <2>1. IsSeq(c) /\ DOMAIN c = DOMAIN s /\ \A j \in DOMAIN c : Remains(c[j], t, s)
    BY <1>0, <1>5, ReplaceFacts
  <2>2. d = [c EXCEPT ![k + 1] = s[k]]
    BY <1>5
  <2>3. k + 1 \in DOMAIN c /\ Remains(s[k], t, s)
    BY <1>0, <1>5, <2>1
  <2> HIDE DEF c
  <2>4. IsSeq(d) /\ DOMAIN d = DOMAIN c
        /\ \A j \in DOMAIN c : d[j] = IF j = k + 1 THEN s[k] ELSE c[j]
    BY <2>1, <2>2, <2>3, ReplaceFacts
  <2> QED BY <2>1, <2>3, <2>4
<1>6. \/ d = RemoveAt(s, k)
      \/ d = [s EXCEPT ![k].prev = NoHash]
      \/ d = [s EXCEPT ![k].hash = NoHash]
      \/ \E b \in Body : d = [s EXCEPT ![k].body = b]
      \/ k + 1 \in DOMAIN s /\ d = [s EXCEPT ![k] = s[k + 1], ![k + 1] = s[k]]
  BY Zenon DEF LineDamages
<1>7. ASSUME d = [s EXCEPT ![k].prev = NoHash]
      PROVE  IsSeq(d) /\ \A j \in DOMAIN d : Remains(d[j], t, s)
  <2>1. d = [s EXCEPT ![k] = [s[k] EXCEPT !["prev"] = NoHash]]
    BY <1>7
  <2> QED BY <2>1, <1>2, <1>3
<1>8. ASSUME d = [s EXCEPT ![k].hash = NoHash]
      PROVE  IsSeq(d) /\ \A j \in DOMAIN d : Remains(d[j], t, s)
  <2>1. d = [s EXCEPT ![k] = [s[k] EXCEPT !["hash"] = NoHash]]
    BY <1>8
  <2> QED BY <2>1, <1>2, <1>3
<1>9. ASSUME NEW b \in Body, d = [s EXCEPT ![k].body = b]
      PROVE  IsSeq(d) /\ \A j \in DOMAIN d : Remains(d[j], t, s)
  <2>1. d = [s EXCEPT ![k] = [s[k] EXCEPT !.body = b]]
    BY <1>9
  <2> QED BY <2>1, <1>2, <1>4
<1> QED BY <1>1, <1>5, <1>6, <1>7, <1>8, <1>9

\* A step of the log: one trace has one more record, of that trace.
LEMMA TypeInductive == TypeInv /\ [Next]_vars => TypeInv'
<1> SUFFICES ASSUME TypeInv, [Next]_vars PROVE TypeInv'
  OBVIOUS
<1> USE TraceAssumption, LimitAssumption
<1> USE DEF TypeInv, TypeOK, Pc, Ended, Goto, files, reader, writers
<1>1. ASSUME NEW g \in Grant, Decide(g) PROVE TypeInv'
  BY <1>1 DEF Decide
<1>2. ASSUME NEW g \in Grant, AuditGrant(g) PROVE TypeInv'
  BY <1>2 DEF AuditGrant
<1>3. ASSUME NEW g \in Grant, FindPrevious(g) PROVE TypeInv'
  BY <1>3 DEF FindPrevious
<1>4. ASSUME NEW g \in Grant, AppendRecord(g) PROVE TypeInv'
  <2> DEFINE t == TraceOf[g]
             r == NewRecord(g)
  <2>1. t \in Trace
    OBVIOUS
  <2>2. UNCHANGED <<events, revoked, prev, baseline, kept, damage, errors, raced, damaged>>
    BY <1>4 DEF AppendRecord
  <2>3. pc' \in [Grant -> Pc] /\ mended' \subseteq Trace
    BY <1>4 DEF AppendRecord
  <2>4. /\ log' = [log EXCEPT ![t] = Append(@, r)]
        /\ written' = [written EXCEPT ![t] = Append(@, r)]
    BY <1>4 DEF AppendRecord
  <2>5. RecordOf(r, t)
    BY NewRecordFacts
  <2> HIDE DEF r
  <2>6. ASSUME NEW u \in Trace
        PROVE  /\ IsSeq(log'[u]) /\ IsSeq(written'[u])
               /\ \A i \in DOMAIN log'[u] : RecordOf(log'[u][i], u)
               /\ \A i \in DOMAIN written'[u] : RecordOf(written'[u][i], u)
    <3>1. CASE u # t
      BY <3>1, <2>4
    <3>2. CASE u = t
      <4>1. log'[u] = Append(log[t], r) /\ written'[u] = Append(written[t], r)
        BY <3>2, <2>1, <2>4
      <4>2. IsSeq(log'[u]) /\ IsSeq(written'[u])
        BY <4>1, <2>1, AppendFacts
      <4>3. DOMAIN log'[u] = 1 .. (Len(log[t]) + 1) /\ DOMAIN log[t] = 1 .. Len(log[t])
            /\ Len(log[t]) \in Nat
        BY <4>1, <4>2, <2>1, AppendFacts, SeqDomain
      <4>4. DOMAIN written'[u] = 1 .. (Len(written[t]) + 1)
            /\ DOMAIN written[t] = 1 .. Len(written[t]) /\ Len(written[t]) \in Nat
        BY <4>1, <4>2, <2>1, AppendFacts, SeqDomain
      <4>5. \A i \in DOMAIN log'[u] : RecordOf(log'[u][i], u)
        BY <4>1, <4>3, <3>2, <2>1, <2>5, AppendFacts
      <4>6. \A i \in DOMAIN written'[u] : RecordOf(written'[u][i], u)
        BY <4>1, <4>4, <3>2, <2>1, <2>5, AppendFacts
      <4> QED BY <4>2, <4>5, <4>6
    <3> QED BY <3>1, <3>2
  <2>7. DOMAIN log' = Trace /\ DOMAIN written' = Trace
    BY <2>4
  <2> QED BY <2>2, <2>3, <2>6, <2>7 DEF RecordOf
<1>5. ASSUME NEW g \in Grant, IoError(g) PROVE TypeInv'
  BY <1>5 DEF IoError, AfterFailure
<1>6. ASSUME NEW g \in Grant, Crash(g) PROVE TypeInv'
  BY <1>6 DEF Crash
<1>7. ASSUME NEW g \in Grant, Revoke(g) PROVE TypeInv'
  BY <1>7 DEF Revoke
<1>8. ASSUME NEW t \in Trace, Damage(t) PROVE TypeInv'
  <2>1. UNCHANGED <<events, revoked, pc, prev, baseline, kept, errors, written, raced, mended>>
    BY <1>8 DEF Damage
  <2>2. damage' \in Nat /\ damaged' \subseteq Trace
    BY <1>8 DEF Damage
  <2>3. PICK i \in DOMAIN log[t] : \E s \in LineDamages(log[t], i) :
          log' = [log EXCEPT ![t] = s]
    BY <1>8, Zenon DEF Damage
  <2>4. PICK d \in LineDamages(log[t], i) : log' = [log EXCEPT ![t] = d]
    BY <2>3
  <2>5. IsSeq(d) /\ \A j \in DOMAIN d : RecordOf(d[j], t)
    BY DamageFacts DEF Remains
  <2> QED BY <2>1, <2>2, <2>4, <2>5 DEF RecordOf
<1>9. ASSUME NEW t \in Trace, LoseEvent(t) PROVE TypeInv'
  BY <1>9 DEF LoseEvent
<1>10. ASSUME NEW t \in Trace, TakeBaseline(t) PROVE TypeInv'
  BY <1>10 DEF TakeBaseline
<1>11. CASE UNCHANGED vars
  BY <1>11 DEF vars
<1> QED
  BY <1>1, <1>2, <1>3, <1>4, <1>5, <1>6, <1>7, <1>8, <1>9, <1>10, <1>11
  DEF Next, GrantStep

\* The log keeps its types, whatever damages it.
THEOREM TypeCorrect == Spec => []TypeOK
<1>1. Init => TypeInv
  <2>1. IsSeq(<<>>)
    BY DEF IsSeq
  <2> QED BY <2>1, TraceAssumption, LimitAssumption DEF Init, TypeInv, TypeOK, Pc
<1>2. TypeInv => TypeOK
  BY DEF TypeInv
<1> QED BY <1>1, <1>2, TypeInductive, PTL DEF Spec

-----------------------------------------------------------------------------
(***************************************************************************)
(* Undamaged traces replay as valid                                        *)
(***************************************************************************)
\* h is the hash that a record after s must name.
Follows(h, s) == Len(s) > 0 /\ Hashed(s[Len(s)]) => h = s[Len(s)].hash

Chained(s, i) ==
  /\ s[i].body = "intact" /\ s[i].hash = HashOf(s[i])
  /\ i > 1 /\ Hashed(s[i - 1]) => s[i].prev = s[i - 1].hash

\* Who is about to append is alone and has read the last hash.
ChainInv ==
  \A t \in Trace \ (damaged \cup raced) :
    /\ \A i \in DOMAIN log[t] : Chained(log[t], i)
    /\ \A g \in Grant : TraceOf[g] = t /\ Appending(g) => Follows(prev[g], log[t])
    /\ \A g, h \in Grant :
         TraceOf[g] = t /\ TraceOf[h] = t /\ Appending(g) /\ Appending(h) => g = h

\* A chained log passes each check of replay.
LEMMA ChainedSafe ==
  ASSUME NEW s, \A i \in DOMAIN s : Chained(s, i)
  PROVE  Safe(s)
BY DEF Safe, HashMismatches, ChainMismatches, ContinuityBreaks, Chained

\* Appending a record that follows a chained log leaves it chained.
LEMMA AppendChained ==
  ASSUME NEW s, IsSeq(s), \A i \in DOMAIN s : Chained(s, i),
         NEW r, r.body = "intact", r.hash = HashOf(r), Follows(r.prev, s)
  PROVE  \A i \in DOMAIN Append(s, r) : Chained(Append(s, r), i)
<1> DEFINE a == Append(s, r)
<1>1. /\ Len(s) \in Nat /\ DOMAIN s = 1 .. Len(s) /\ DOMAIN a = 1 .. (Len(s) + 1)
      /\ \A i \in 1 .. Len(s) : a[i] = s[i]
      /\ a[Len(s) + 1] = r
  BY SeqDomain, AppendFacts
<1> HIDE DEF a
<1>2. ASSUME NEW i \in 1 .. Len(s) PROVE Chained(a, i)
  <2>1. Chained(s, i) /\ a[i] = s[i]
    BY <1>1
  <2>2. i > 1 => a[i - 1] = s[i - 1]
    BY <1>1
  <2> QED BY <2>1, <2>2 DEF Chained
<1>3. Chained(a, Len(s) + 1)
  <2>1. Len(s) + 1 > 1 => a[Len(s) + 1 - 1] = s[Len(s)] /\ Len(s) > 0
    BY <1>1
  <2> QED BY <1>1, <2>1 DEF Chained, Follows
<1>4. \A i \in DOMAIN a : i \in 1 .. Len(s) \/ i = Len(s) + 1
  BY <1>1
<1>5. \A i \in DOMAIN a : Chained(a, i)
  BY <1>2, <1>3, <1>4
<1> QED BY <1>5 DEF a

LEMMA ChainInductive == TypeInv /\ ChainInv /\ [Next]_vars => ChainInv'
<1> SUFFICES ASSUME TypeInv, ChainInv, [Next]_vars PROVE ChainInv'
  OBVIOUS
<1> USE TraceAssumption
<1> USE DEF Goto, files, reader, writers
<1>0. /\ pc \in [Grant -> Pc] /\ DOMAIN prev = Grant /\ DOMAIN log = Trace
      /\ \A t \in Trace : IsSeq(log[t])
  BY DEF TypeInv, TypeOK
\* A step that leaves log, reads and marks alone and sets nobody appending.
<1>1. ASSUME UNCHANGED <<log, prev, raced, damaged>>,
             \A g \in Grant : Appending(g)' => Appending(g)
      PROVE  ChainInv'
  BY <1>1 DEF ChainInv, Appending
<1>2. ASSUME NEW g \in Grant, Decide(g) PROVE ChainInv'
  BY <1>0, <1>1, <1>2 DEF Decide, Appending
<1>3. ASSUME NEW g \in Grant, AuditGrant(g) PROVE ChainInv'
  BY <1>0, <1>1, <1>3 DEF AuditGrant, Appending
<1>4. ASSUME NEW g \in Grant, FindPrevious(g) PROVE ChainInv'
  <2> SUFFICES ASSUME NEW t \in Trace \ (damaged' \cup raced')
               PROVE  /\ \A i \in DOMAIN log'[t] : Chained(log'[t], i)
                      /\ \A h \in Grant : TraceOf[h] = t /\ Appending(h)' => Follows(prev'[h], log'[t])
                      /\ \A h, k \in Grant : TraceOf[h] = t /\ TraceOf[k] = t
                           /\ Appending(h)' /\ Appending(k)' => h = k
    BY DEF ChainInv
  <2>1. log' = log /\ t \in Trace \ (damaged \cup raced)
    BY <1>4 DEF FindPrevious
  <2>2. \A h \in Grant \ {g} : prev'[h] = prev[h] /\ (Appending(h)' <=> Appending(h))
    BY <1>4, <1>0 DEF FindPrevious, Appending
  <2>3. TraceOf[g] = t => \A h \in Grant \ {g} : TraceOf[h] = t => ~Appending(h)
    BY <1>4 DEF FindPrevious
  <2>4. TraceOf[g] = t => Follows(prev'[g], log[t])
    <3>1. prev'[g] = LastHash(log[TraceOf[g]])
      BY <1>4, <1>0 DEF FindPrevious
    <3> QED BY <3>1, <2>1, <1>0, LastHashFacts DEF Follows
  <2>5. \A i \in DOMAIN log[t] : Chained(log[t], i)
    BY <2>1 DEF ChainInv
  <2>6. \A h \in Grant : TraceOf[h] = t /\ Appending(h) => Follows(prev[h], log[t])
    BY <2>1 DEF ChainInv
  <2>7. \A h, k \in Grant : TraceOf[h] = t /\ TraceOf[k] = t
           /\ Appending(h) /\ Appending(k) => h = k
    BY <2>1 DEF ChainInv
  <2>8. \A h \in Grant : TraceOf[h] = t /\ Appending(h)' => Follows(prev'[h], log[t])
    BY <2>2, <2>4, <2>6
  <2>9. \A h, k \in Grant : TraceOf[h] = t /\ TraceOf[k] = t
           /\ Appending(h)' /\ Appending(k)' => h = k
    BY <2>2, <2>3, <2>7
  <2> QED BY <2>1, <2>5, <2>8, <2>9
<1>5. ASSUME NEW g \in Grant, AppendRecord(g) PROVE ChainInv'
  <2> SUFFICES ASSUME NEW t \in Trace \ (damaged' \cup raced')
               PROVE  /\ \A i \in DOMAIN log'[t] : Chained(log'[t], i)
                      /\ \A h \in Grant : TraceOf[h] = t /\ Appending(h)' => Follows(prev'[h], log'[t])
                      /\ \A h, k \in Grant : TraceOf[h] = t /\ TraceOf[k] = t
                           /\ Appending(h)' /\ Appending(k)' => h = k
    BY DEF ChainInv
  <2>1. prev' = prev /\ t \in Trace \ (damaged \cup raced) /\ Appending(g)
    BY <1>5 DEF AppendRecord
  <2>2. log' = [log EXCEPT ![TraceOf[g]] = Append(@, NewRecord(g))]
    BY <1>5 DEF AppendRecord
  <2>3. \A h \in Grant : Appending(h)' => h # g /\ Appending(h)
    BY <1>5, <1>0 DEF AppendRecord, Appending
  <2>4. \A i \in DOMAIN log[t] : Chained(log[t], i)
    BY <2>1 DEF ChainInv
  <2>5. \A h \in Grant : TraceOf[h] = t /\ Appending(h) => Follows(prev[h], log[t])
    BY <2>1 DEF ChainInv
  <2>6. \A h, k \in Grant : TraceOf[h] = t /\ TraceOf[k] = t
           /\ Appending(h) /\ Appending(k) => h = k
    BY <2>1 DEF ChainInv
  <2>7. CASE TraceOf[g] # t
    <3>1. log'[t] = log[t]
      BY <2>7, <2>2
    <3> QED BY <3>1, <2>1, <2>3, <2>4, <2>5, <2>6
  <2>8. CASE TraceOf[g] = t
    <3>1. log'[t] = Append(log[t], NewRecord(g))
      BY <2>8, <2>2, <1>0
    <3>2. /\ NewRecord(g).body = "intact" /\ NewRecord(g).hash = HashOf(NewRecord(g))
          /\ NewRecord(g).prev = prev[g]
      BY NewRecordFacts
    <3>3. Follows(NewRecord(g).prev, log[t])
      BY <3>2, <2>1, <2>5, <2>8
    <3>4. \A i \in DOMAIN log'[t] : Chained(log'[t], i)
      BY <3>1, <3>2, <3>3, <2>4, <1>0, AppendChained
    <3>5. \A h \in Grant : TraceOf[h] = t => ~Appending(h)'
      BY <2>1, <2>3, <2>6, <2>8
    <3> QED BY <3>4, <3>5
  <2> QED BY <2>7, <2>8
<1>6. ASSUME NEW g \in Grant, IoError(g) PROVE ChainInv'
  BY <1>0, <1>1, <1>6 DEF IoError, AfterFailure, Appending
<1>7. ASSUME NEW g \in Grant, Crash(g) PROVE ChainInv'
  BY <1>0, <1>1, <1>7 DEF Crash, Appending
<1>8. ASSUME NEW g \in Grant, Revoke(g) PROVE ChainInv'
  BY <1>1, <1>8 DEF Revoke, Appending
<1>9. ASSUME NEW t \in Trace, Damage(t) PROVE ChainInv'
  <2>1. damaged' = damaged \cup {t} /\ UNCHANGED <<pc, prev, raced>>
    BY <1>9 DEF Damage
  <2>2. \A u \in Trace \ {t} : log'[u] = log[u]
    BY <1>9, <1>0 DEF Damage
  <2> QED BY <2>1, <2>2 DEF ChainInv, Appending
<1>10. ASSUME NEW t \in Trace, LoseEvent(t) PROVE ChainInv'
  BY <1>1, <1>10 DEF LoseEvent, Appending
<1>11. ASSUME NEW t \in Trace, TakeBaseline(t) PROVE ChainInv'
  BY <1>1, <1>11 DEF TakeBaseline, Appending
<1>12. CASE UNCHANGED vars
  BY <1>1, <1>12 DEF vars, Appending
<1> QED
  BY <1>2, <1>3, <1>4, <1>5, <1>6, <1>7, <1>8, <1>9, <1>10, <1>11, <1>12
  DEF Next, GrantStep

\* However many grants share a trace, fail, or die between their two records,
\* it replays as valid unless two appends overlapped or a line was damaged
\* (authorityWriter.ts, executionReplay.ts).
THEOREM ReplayCorrect == Spec => []UndamagedReplays
<1>1. Init => TypeInv /\ ChainInv
  <2>1. IsSeq(<<>>)
    BY DEF IsSeq
  <2> QED BY <2>1, TraceAssumption, LimitAssumption
      DEF Init, TypeInv, TypeOK, Pc, ChainInv, Appending
<1>2. ChainInv => UndamagedReplays
  BY ChainedSafe DEF ChainInv, UndamagedReplays
<1> QED BY <1>1, <1>2, TypeInductive, ChainInductive, PTL DEF Spec

-----------------------------------------------------------------------------
(***************************************************************************)
(* The evidence of a grant has no gaps                                     *)
(***************************************************************************)
Audited == {"find_token", "append_token", "find_artifact", "append_artifact"}

\* Who writes a record has audited its grant, who writes an artifact has
\* written a token before.
EvidenceInv ==
  /\ EvidenceInOrder
  /\ \A g \in Grant :
       /\ pc[g] \in Audited /\ damage = 0 => g \in events[TraceOf[g]]
       /\ pc[g] \in {"find_artifact", "append_artifact"} =>
            \E j \in DOMAIN written[TraceOf[g]] : written[TraceOf[g]][j].grant = g

LEMMA EvidenceInductive == TypeInv /\ EvidenceInv /\ [Next]_vars => EvidenceInv'
<1> SUFFICES ASSUME TypeInv, EvidenceInv, [Next]_vars PROVE EvidenceInv'
  OBVIOUS
<1> USE TraceAssumption
<1> USE DEF Goto, files, reader, writers
<1>0. /\ pc \in [Grant -> Pc] /\ events \in [Trace -> SUBSET Grant] /\ DOMAIN written = Trace
      /\ damage \in Nat /\ \A t \in Trace : IsSeq(written[t])
  BY DEF TypeInv, TypeOK
\* A step that appends nothing, forgets nothing, and sets nobody writing.
<1>1. ASSUME written' = written, damage' = 0 => damage = 0 /\ \A t \in Trace : events[t] \subseteq events'[t],
             \A g \in Grant :
               /\ pc'[g] \in Audited => pc[g] \in Audited
               /\ pc'[g] \in {"find_artifact", "append_artifact"} =>
                    pc[g] \in {"find_artifact", "append_artifact"}
      PROVE  EvidenceInv'
  <2>1. EvidenceInOrder'
    BY <1>1, <1>0 DEF EvidenceInv, EvidenceInOrder
  <2> QED BY <2>1, <1>1, <1>0 DEF EvidenceInv
<1>2. ASSUME NEW g \in Grant, Decide(g) PROVE EvidenceInv'
  BY <1>0, <1>1, <1>2 DEF Decide, Audited
<1>3. ASSUME NEW g \in Grant, AuditGrant(g) PROVE EvidenceInv'
  <2>1. UNCHANGED <<written, damage>> /\ \A t \in Trace : events[t] \subseteq events'[t]
    BY <1>3, <1>0 DEF AuditGrant
  <2>2. g \in events'[TraceOf[g]] /\ pc'[g] = "find_token" /\ \A h \in Grant \ {g} : pc'[h] = pc[h]
    BY <1>3, <1>0 DEF AuditGrant
  <2>3. EvidenceInOrder'
    BY <2>1 DEF EvidenceInv, EvidenceInOrder
  <2> QED BY <2>1, <2>2, <2>3 DEF EvidenceInv
<1>4. ASSUME NEW g \in Grant, FindPrevious(g) PROVE EvidenceInv'
  BY <1>0, <1>1, <1>4 DEF FindPrevious, Audited
<1>5. ASSUME NEW g \in Grant, AppendRecord(g) PROVE EvidenceInv'
  <2> DEFINE t == TraceOf[g]
             w == written[t]
             r == NewRecord(g)
  <2>1. /\ UNCHANGED <<events, damage>> /\ pc[g] \in {"append_token", "append_artifact"}
        /\ written' = [written EXCEPT ![t] = Append(@, r)]
    BY <1>5 DEF AppendRecord, Appending
  <2>2. /\ pc'[g] = IF pc[g] = "append_token" THEN "find_artifact" ELSE "answered"
        /\ \A h \in Grant \ {g} : pc'[h] = pc[h]
    BY <1>5, <1>0 DEF AppendRecord
  <2>3. r.grant = g /\ (r.type = "legitimacy_artifact" => pc[g] # "append_token")
    BY NewRecordFacts
  <2>4. t \in Trace /\ written'[t] = Append(w, r) /\ \A u \in Trace \ {t} : written'[u] = written[u]
    BY <2>1, <1>0
  <2> HIDE DEF r
  <2>5. /\ Len(w) \in Nat /\ DOMAIN w = 1 .. Len(w) /\ DOMAIN written'[t] = 1 .. (Len(w) + 1)
        /\ \A i \in 1 .. Len(w) : written'[t][i] = w[i]
        /\ written'[t][Len(w) + 1] = r
    BY <2>4, <1>0, SeqDomain, AppendFacts
  <2>6. damage = 0 => g \in events[t]
    BY <2>1 DEF EvidenceInv, Audited
  <2>7. r.type = "legitimacy_artifact" => \E j \in 1 .. Len(w) : w[j].grant = g
    BY <2>1, <2>3, <2>5 DEF EvidenceInv
  <2>8. EvidenceInOrder'
    <3> SUFFICES ASSUME NEW u \in Trace, NEW i \in DOMAIN written'[u]
                 PROVE  /\ written'[u][i].type = "legitimacy_artifact" =>
                             \E j \in 1 .. (i - 1) : written'[u][j].grant = written'[u][i].grant
                        /\ damage' = 0 => written'[u][i].grant \in events'[u]
      BY Zenon DEF EvidenceInOrder
    <3>1. CASE u # t
      BY <3>1, <2>1, <2>4 DEF EvidenceInv, EvidenceInOrder
    <3>2. CASE u = t /\ i \in 1 .. Len(w)
      <4>1. written'[u][i] = w[i] /\ \A j \in 1 .. (i - 1) : written'[u][j] = w[j]
        BY <3>2, <2>5
      <4>2. /\ w[i].type = "legitimacy_artifact" => \E j \in 1 .. (i - 1) : w[j].grant = w[i].grant
            /\ damage = 0 => w[i].grant \in events[t]
        BY <3>2, <2>4, <2>5 DEF EvidenceInv, EvidenceInOrder
      <4> QED BY <3>2, <4>1, <4>2, <2>1
    <3>3. CASE u = t /\ i = Len(w) + 1
      <4>1. i - 1 = Len(w) /\ written'[u][i] = r
        BY <3>3, <2>5
      <4> QED BY <3>3, <4>1, <2>1, <2>3, <2>5, <2>6, <2>7
    <3> QED BY <3>1, <3>2, <3>3, <2>5
  <2>9. ASSUME NEW h \in Grant PROVE
          /\ pc'[h] \in Audited /\ damage' = 0 => h \in events'[TraceOf[h]]
          /\ pc'[h] \in {"find_artifact", "append_artifact"} =>
               \E j \in DOMAIN written'[TraceOf[h]] : written'[TraceOf[h]][j].grant = h
    <3>1. CASE h = g
      <4>1. Len(w) + 1 \in DOMAIN written'[t] /\ written'[t][Len(w) + 1].grant = g
        BY <2>3, <2>5
      <4> QED BY <3>1, <4>1, <2>1, <2>6
    <3>2. CASE h # g /\ TraceOf[h] # t
      BY <3>2, <2>1, <2>2, <2>4 DEF EvidenceInv
    <3>3. CASE h # g /\ TraceOf[h] = t
      <4>1. /\ pc[h] \in Audited /\ damage = 0 => h \in events[t]
            /\ pc[h] \in {"find_artifact", "append_artifact"} =>
                 \E j \in DOMAIN w : w[j].grant = h
        BY <3>3 DEF EvidenceInv
      <4> QED BY <3>3, <4>1, <2>1, <2>2, <2>5
    <3> QED BY <3>1, <3>2, <3>3
  <2> QED BY <2>8, <2>9 DEF EvidenceInv
<1>6. ASSUME NEW g \in Grant, IoError(g) PROVE EvidenceInv'
  BY <1>0, <1>1, <1>6 DEF IoError, AfterFailure, Audited
<1>7. ASSUME NEW g \in Grant, Crash(g) PROVE EvidenceInv'
  BY <1>0, <1>1, <1>7 DEF Crash, Audited
<1>8. ASSUME NEW g \in Grant, Revoke(g) PROVE EvidenceInv'
  BY <1>1, <1>8 DEF Revoke
<1>9. ASSUME NEW t \in Trace, Damage(t) PROVE EvidenceInv'
  BY <1>0, <1>1, <1>9 DEF Damage
<1>10. ASSUME NEW t \in Trace, LoseEvent(t) PROVE EvidenceInv'
  <2>1. damage' # 0 /\ UNCHANGED <<pc, written>>
    BY <1>0, <1>10 DEF LoseEvent
  <2> QED BY <2>1, <1>1
<1>11. ASSUME NEW t \in Trace, TakeBaseline(t) PROVE EvidenceInv'
  BY <1>1, <1>11 DEF TakeBaseline
<1>12. CASE UNCHANGED vars
  BY <1>1, <1>12 DEF vars
<1> QED
  BY <1>2, <1>3, <1>4, <1>5, <1>6, <1>7, <1>8, <1>9, <1>10, <1>11, <1>12
  DEF Next, GrantStep

\* No failure, crash or other writer makes the evidence of a grant skip a step:
\* event, token, artifact (validateCapabilityGrant).
THEOREM EvidenceCorrect == Spec => []EvidenceInOrder
<1>1. Init => TypeInv /\ EvidenceInv
  <2>1. IsSeq(<<>>)
    BY DEF IsSeq
  <2> QED BY <2>1, TraceAssumption, LimitAssumption
      DEF Init, TypeInv, TypeOK, Pc, EvidenceInv, EvidenceInOrder, Audited
<1>2. EvidenceInv => EvidenceInOrder
  BY DEF EvidenceInv
<1> QED BY <1>1, <1>2, TypeInductive, EvidenceInductive, PTL DEF Spec
-----------------------------------------------------------------------------
(***************************************************************************)
(* Where the hashes of a trace come from                                   *)
(***************************************************************************)
\* h is absent or the hash of one of the first n records of s.
From(h, s, n) == h = NoHash \/ \E k \in 1 .. n : h = s[k].hash

\* Each record has its own hash and names one written before it, if any.
Sealed(s) ==
  \A k \in DOMAIN s :
    s[k].body = "intact" /\ s[k].hash = HashOf(s[k]) /\ From(s[k].prev, s, k - 1)

\* A baseline of t tells what was kept, all of it records of t.
Truthful(t) ==
  /\ baseline[t].refs = Refs(kept[t].records) /\ baseline[t].events = kept[t].events
  /\ baseline[t].diff_eligible = Safe(kept[t].records)
  /\ IsSeq(kept[t].records)
  /\ \A i \in DOMAIN kept[t].records :
       /\ RecordOf(kept[t].records[i], t)
       /\ From(kept[t].records[i].hash, written[t], Len(written[t]))

\* No damage makes a hash: each in the log, read by a writer, or kept with a
\* baseline is that of a record written.
OriginInv ==
  \A t \in Trace :
    /\ Sealed(written[t])
    /\ \A i \in DOMAIN log[t] : From(log[t][i].hash, written[t], Len(written[t]))
    /\ \A g \in Grant : TraceOf[g] = t => From(prev[g], written[t], Len(written[t]))
    /\ baseline[t] # NoBaseline => Truthful(t)

\* findPreviousAuthorityHash returns a hash of the log.
LEMMA LastHashFrom ==
  ASSUME NEW s, IsSeq(s)
  PROVE  LastHash(s) = NoHash \/ \E i \in DOMAIN s : LastHash(s) = s[i].hash
<1> DEFINE I == {i \in DOMAIN s : Hashed(s[i])}
           k == CHOOSE i \in I : \A j \in I : j <= i
<1>1. CASE I = {}
  BY <1>1 DEF LastHash
<1>2. CASE I # {}
  <2> DEFINE S == {m \in Nat : \A j \in I : j <= m}
  <2>1. Len(s) \in Nat /\ I \subseteq 1 .. Len(s)
    BY SeqDomain
  <2>2. Len(s) \in S
    BY <2>1
  <2>3. PICK m \in S : \A x \in S : m <= x
    BY <2>2, LeastElement
  <2>4. m \in I
    <3>1. ASSUME m \notin I PROVE m - 1 \in S
      BY <1>2, <2>1, <2>3, <3>1
    <3> QED BY <2>3, <3>1
  <2>5. k \in I
    BY <2>3, <2>4
  <2> QED BY <1>2, <2>5 DEF LastHash
<1> QED BY <1>1, <1>2

LEMMA OriginInductive == TypeInv /\ OriginInv /\ [Next]_vars => OriginInv'
<1> SUFFICES ASSUME TypeInv, OriginInv, [Next]_vars PROVE OriginInv'
  OBVIOUS
<1> USE TraceAssumption
<1> USE DEF Goto, files, reader, writers
<1>0. /\ DOMAIN prev = Grant /\ DOMAIN log = Trace /\ DOMAIN written = Trace
      /\ \A t \in Trace : IsSeq(log[t]) /\ IsSeq(written[t])
  BY DEF TypeInv
\* A step that appends nothing, reads nothing and leaves the log as it is.
<1>1. ASSUME UNCHANGED <<log, written, prev, baseline, kept>> PROVE OriginInv'
  BY <1>1 DEF OriginInv, Truthful
<1>2. ASSUME NEW g \in Grant, Decide(g) PROVE OriginInv'
  BY <1>1, <1>2 DEF Decide
<1>3. ASSUME NEW g \in Grant, AuditGrant(g) PROVE OriginInv'
  BY <1>1, <1>3 DEF AuditGrant
<1>4. ASSUME NEW g \in Grant, FindPrevious(g) PROVE OriginInv'
  <2>1. UNCHANGED <<log, written, baseline, kept>>
    BY <1>4 DEF FindPrevious
  <2>2. prev' = [prev EXCEPT ![g] = LastHash(log[TraceOf[g]])]
    BY <1>4 DEF FindPrevious
  <2>3. LET t == TraceOf[g] IN From(prev'[g], written[t], Len(written[t]))
    <3>1. prev'[g] = LastHash(log[TraceOf[g]]) /\ TraceOf[g] \in Trace
      BY <2>2, <1>0
    <3> QED BY <3>1, <1>0, LastHashFrom DEF OriginInv, From
  <2> QED BY <2>1, <2>2, <2>3 DEF OriginInv, Truthful
<1>5. ASSUME NEW g \in Grant, AppendRecord(g) PROVE OriginInv'
  <2> DEFINE t == TraceOf[g]
             w == written[t]
             r == NewRecord(g)
  <2>1. /\ UNCHANGED <<prev, baseline, kept>>
        /\ log' = [log EXCEPT ![t] = Append(@, r)]
        /\ written' = [written EXCEPT ![t] = Append(@, r)]
    BY <1>5 DEF AppendRecord
  <2>2. t \in Trace /\ r.body = "intact" /\ r.hash = HashOf(r) /\ r.prev = prev[g]
    BY NewRecordFacts
  <2>3. From(prev[g], w, Len(w)) /\ Sealed(w)
    BY <2>2 DEF OriginInv
  <2> HIDE DEF r
  <2>4. ASSUME NEW u \in Trace \ {t} PROVE log'[u] = log[u] /\ written'[u] = written[u]
    BY <2>1
  <2>5. log'[t] = Append(log[t], r) /\ written'[t] = Append(w, r)
    BY <1>0, <2>1, <2>2
  <2>6. /\ Len(w) \in Nat /\ DOMAIN w = 1 .. Len(w)
        /\ DOMAIN written'[t] = 1 .. (Len(w) + 1) /\ Len(written'[t]) = Len(w) + 1
        /\ \A i \in 1 .. Len(w) : written'[t][i] = w[i]
        /\ written'[t][Len(w) + 1] = r
    BY <1>0, <2>2, <2>5, SeqDomain, AppendFacts
  <2>7. ASSUME NEW h, NEW n \in 0 .. Len(w), From(h, w, n) PROVE From(h, written'[t], n)
    BY <2>6, <2>7 DEF From
  <2>8. ASSUME NEW h, From(h, w, Len(w)) PROVE From(h, written'[t], Len(w) + 1)
    BY <2>6, <2>8 DEF From
  <2>9. Sealed(written'[t])
    <3> SUFFICES ASSUME NEW k \in 1 .. (Len(w) + 1)
                 PROVE  /\ written'[t][k].body = "intact"
                        /\ written'[t][k].hash = HashOf(written'[t][k])
                        /\ From(written'[t][k].prev, written'[t], k - 1)
      BY <2>6 DEF Sealed
    <3>1. CASE k \in 1 .. Len(w)
      <4>1. k - 1 \in 0 .. Len(w) /\ written'[t][k] = w[k]
        BY <2>6, <3>1
      <4>2. w[k].body = "intact" /\ w[k].hash = HashOf(w[k]) /\ From(w[k].prev, w, k - 1)
        BY <2>3, <2>6, <3>1 DEF Sealed
      <4> QED BY <4>1, <4>2, <2>7
    <3>2. CASE k = Len(w) + 1
      <4>1. k - 1 = Len(w) /\ k - 1 \in 0 .. Len(w) /\ written'[t][k] = r
        BY <2>6, <3>2
      <4> QED BY <4>1, <2>2, <2>3, <2>7
    <3> QED BY <2>6, <3>1, <3>2
  <2>10. \A i \in DOMAIN log'[t] : From(log'[t][i].hash, written'[t], Len(w) + 1)
    <3>1. /\ Len(log[t]) \in Nat /\ DOMAIN log[t] = 1 .. Len(log[t])
          /\ DOMAIN log'[t] = 1 .. (Len(log[t]) + 1)
          /\ \A i \in 1 .. Len(log[t]) : log'[t][i] = log[t][i]
          /\ log'[t][Len(log[t]) + 1] = r
      BY <1>0, <2>2, <2>5, SeqDomain, AppendFacts
    <3>2. From(r.hash, written'[t], Len(w) + 1)
      <4>1. Len(w) + 1 \in 1 .. (Len(w) + 1) /\ r.hash = written'[t][Len(w) + 1].hash
        BY <2>6
      <4> QED BY <4>1 DEF From
    <3>3. ASSUME NEW i \in 1 .. Len(log[t]) PROVE From(log'[t][i].hash, written'[t], Len(w) + 1)
      <4>1. From(log[t][i].hash, w, Len(w))
        BY <2>2, <3>1 DEF OriginInv
      <4> QED BY <4>1, <2>8, <3>1
    <3> QED BY <3>1, <3>2, <3>3
  <2>11. \A h \in Grant : TraceOf[h] = t => From(prev'[h], written'[t], Len(w) + 1)
    BY <2>1, <2>2, <2>8 DEF OriginInv
  <2>12. baseline'[t] # NoBaseline => Truthful(t)'
    BY <2>1, <2>2, <2>6, <2>8 DEF OriginInv, Truthful
  <2>13. ASSUME NEW u \in Trace \ {t}
         PROVE  /\ Sealed(written'[u])
                /\ \A i \in DOMAIN log'[u] : From(log'[u][i].hash, written'[u], Len(written'[u]))
                /\ \A h \in Grant : TraceOf[h] = u => From(prev'[h], written'[u], Len(written'[u]))
                /\ baseline'[u] # NoBaseline => Truthful(u)'
    BY <2>1, <2>4 DEF OriginInv, Truthful
  <2> QED BY <2>6, <2>9, <2>10, <2>11, <2>12, <2>13 DEF OriginInv
<1>6. ASSUME NEW g \in Grant, IoError(g) PROVE OriginInv'
  BY <1>1, <1>6 DEF IoError
<1>7. ASSUME NEW g \in Grant, Crash(g) PROVE OriginInv'
  BY <1>1, <1>7 DEF Crash
<1>8. ASSUME NEW g \in Grant, Revoke(g) PROVE OriginInv'
  BY <1>1, <1>8 DEF Revoke
<1>9. ASSUME NEW t \in Trace, Damage(t) PROVE OriginInv'
  <2>1. UNCHANGED <<written, prev, baseline, kept>>
    BY <1>9 DEF Damage
  <2>2. PICK i \in DOMAIN log[t] : \E s \in LineDamages(log[t], i) :
          log' = [log EXCEPT ![t] = s]
    BY <1>9, Zenon DEF Damage
  <2>3. PICK d \in LineDamages(log[t], i) : log' = [log EXCEPT ![t] = d]
    BY <2>2
  <2>4. \A j \in DOMAIN d : Remains(d[j], t, log[t])
    BY DamageFacts DEF TypeInv
  <2>5. \A j \in DOMAIN d : From(d[j].hash, written[t], Len(written[t]))
    BY <2>4 DEF Remains, From, OriginInv
  <2> QED BY <1>0, <2>1, <2>3, <2>5 DEF OriginInv, Truthful
<1>10. ASSUME NEW t \in Trace, LoseEvent(t) PROVE OriginInv'
  BY <1>1, <1>10 DEF LoseEvent
<1>11. ASSUME NEW t \in Trace, TakeBaseline(t) PROVE OriginInv'
  <2>1. UNCHANGED <<log, written, prev>>
    BY <1>11 DEF TakeBaseline
  <2>2. ASSUME NEW u \in Trace, baseline'[u] # NoBaseline PROVE Truthful(u)'
    <3>1. CASE u # t
      <4>1. baseline'[u] = baseline[u] /\ kept'[u] = kept[u]
        BY <1>11, <3>1 DEF TakeBaseline
      <4> QED BY <2>1, <2>2, <4>1 DEF OriginInv, Truthful
    <3>2. CASE u = t
      <4>1. /\ kept'[t] = [records |-> log[t], events |-> events[t]]
            /\ baseline'[t] = [refs |-> Refs(log[t]), events |-> events[t],
                               revoked |-> RevokedTokens(t), diff_eligible |-> Safe(log[t])]
        BY <1>11 DEF TakeBaseline, TypeInv
      <4> QED BY <2>1, <3>2, <4>1 DEF OriginInv, Truthful, TypeInv
    <3> QED BY <3>1, <3>2
  <2> QED BY <2>1, <2>2 DEF OriginInv
<1>12. CASE UNCHANGED vars
  BY <1>1, <1>12 DEF vars
<1> QED
  BY <1>2, <1>3, <1>4, <1>5, <1>6, <1>7, <1>8, <1>9, <1>10, <1>11, <1>12
  DEF Next, GrantStep
-----------------------------------------------------------------------------
(***************************************************************************)
(* A trace that replays as valid has lost nothing but its ends             *)
(***************************************************************************)
\* The hash that the k-th record of s should name.
Before(s, k) == IF k = 1 THEN NoHash ELSE s[k - 1].hash

\* The records of a trace are chained one to the next in the order written, and
\* the log holds them as long as nothing damaged it.
EndsInv ==
  /\ \A t \in Trace \ (raced \cup mended) : \A k \in DOMAIN written[t] :
       written[t][k].prev = Before(written[t], k)
  /\ \A t \in Trace \ (raced \cup damaged) :
       /\ log[t] = written[t]
       /\ \A g \in Grant : TraceOf[g] = t /\ Appending(g) /\ Len(log[t]) = 0 => prev[g] = NoHash

\* A hash is present, and is that of one content only.
LEMMA HashFacts ==
  ASSUME NEW r, NEW q
  PROVE  /\ HashOf(r) # NoHash
         /\ HashOf(r) = HashOf(q) =>
              r.grant = q.grant /\ r.type = q.type /\ r.body = q.body /\ r.prev = q.prev
BY DEF HashOf, Hash, NoHash

LEMMA EndsInductive ==
  TypeInv /\ ChainInv /\ OriginInv /\ EndsInv /\ [Next]_vars => EndsInv'
<1> SUFFICES ASSUME TypeInv, ChainInv, OriginInv, EndsInv, [Next]_vars PROVE EndsInv'
  OBVIOUS
<1> USE TraceAssumption
<1> USE DEF Goto, files, reader, writers
<1>0. /\ pc \in [Grant -> Pc] /\ DOMAIN prev = Grant /\ DOMAIN log = Trace
      /\ DOMAIN written = Trace
      /\ \A t \in Trace : IsSeq(log[t]) /\ IsSeq(written[t])
  BY DEF TypeInv, TypeOK
\* A step that leaves log, reads and marks alone and sets nobody appending.
<1>1. ASSUME UNCHANGED <<log, written, prev, raced, damaged, mended>>,
             \A g \in Grant : Appending(g)' => Appending(g)
      PROVE  EndsInv'
  BY <1>1 DEF EndsInv, Appending
<1>2. ASSUME NEW g \in Grant, Decide(g) PROVE EndsInv'
  BY <1>0, <1>1, <1>2 DEF Decide, Appending
<1>3. ASSUME NEW g \in Grant, AuditGrant(g) PROVE EndsInv'
  BY <1>0, <1>1, <1>3 DEF AuditGrant, Appending
<1>4. ASSUME NEW g \in Grant, FindPrevious(g) PROVE EndsInv'
  <2>1. UNCHANGED <<log, written, damaged, mended>> /\ raced \subseteq raced'
    BY <1>4 DEF FindPrevious
  <2>2. \A h \in Grant \ {g} : prev'[h] = prev[h] /\ (Appending(h)' <=> Appending(h))
    BY <1>4, <1>0 DEF FindPrevious, Appending
  <2>3. prev'[g] = LastHash(log[TraceOf[g]])
    BY <1>4, <1>0 DEF FindPrevious
  <2>4. ASSUME Len(log[TraceOf[g]]) = 0 PROVE prev'[g] = NoHash
    <3>1. DOMAIN log[TraceOf[g]] = {}
      BY <1>0, <2>4, SeqDomain
    <3> QED BY <2>3, <3>1 DEF LastHash
  <2> QED BY <2>1, <2>2, <2>4 DEF EndsInv
<1>5. ASSUME NEW g \in Grant, AppendRecord(g) PROVE EndsInv'
  <2> DEFINE t == TraceOf[g]
             w == written[t]
             r == NewRecord(g)
  <2>1. /\ UNCHANGED <<prev, raced, damaged>> /\ mended' = mended \cup ({t} \cap damaged)
        /\ log' = [log EXCEPT ![t] = Append(@, r)]
        /\ written' = [written EXCEPT ![t] = Append(@, r)]
    BY <1>5 DEF AppendRecord
  <2>2. t \in Trace /\ Appending(g) /\ r.prev = prev[g]
    BY <1>5, NewRecordFacts DEF AppendRecord
  <2> HIDE DEF r
  <2>3. ASSUME NEW u \in Trace \ {t} PROVE log'[u] = log[u] /\ written'[u] = written[u]
    BY <2>1
  <2>4. log'[t] = Append(log[t], r) /\ written'[t] = Append(w, r)
    BY <1>0, <2>1, <2>2
  <2>5. /\ Len(w) \in Nat /\ DOMAIN w = 1 .. Len(w)
        /\ DOMAIN written'[t] = 1 .. (Len(w) + 1)
        /\ \A i \in 1 .. Len(w) : written'[t][i] = w[i]
        /\ written'[t][Len(w) + 1] = r
    BY <1>0, <2>2, <2>4, SeqDomain, AppendFacts
  <2>6. \A h \in Grant : Appending(h)' => Appending(h)
    BY <1>5, <1>0 DEF AppendRecord, Appending
  <2>7. ASSUME t \notin raced, t \notin damaged
        PROVE  log[t] = w /\ r.prev = Before(written'[t], Len(w) + 1)
    <3>1. log[t] = w /\ (Len(w) = 0 => prev[g] = NoHash)
      BY <2>2, <2>7 DEF EndsInv
    <3>2. Follows(prev[g], w)
      BY <2>2, <2>7, <3>1 DEF ChainInv
    <3>3. Len(w) > 0 => Hashed(w[Len(w)])
      <4>1. \A k \in DOMAIN w : w[k].hash = HashOf(w[k])
        BY <2>2 DEF OriginInv, Sealed
      <4> QED BY <4>1, <2>5, HashFacts DEF Hashed
    <3>4. CASE Len(w) = 0
      BY <3>1, <3>4, <2>2 DEF Before
    <3>5. CASE Len(w) > 0
      <4>1. written'[t][Len(w) + 1 - 1] = w[Len(w)] /\ Len(w) + 1 # 1
        BY <2>5, <3>5
      <4> QED BY <3>1, <3>2, <3>3, <3>5, <2>2, <4>1 DEF Before, Follows
    <3> QED BY <2>5, <3>1, <3>4, <3>5
  <2>8. ASSUME NEW u \in Trace \ (raced' \cup mended'), NEW k \in DOMAIN written'[u]
        PROVE  written'[u][k].prev = Before(written'[u], k)
    <3>1. CASE u # t
      BY <2>1, <2>3, <2>8, <3>1 DEF EndsInv
    <3>2. CASE u = t /\ k \in 1 .. Len(w)
      <4>1. w[k].prev = Before(w, k)
        BY <2>1, <2>5, <2>8, <3>2 DEF EndsInv
      <4>2. written'[t][k] = w[k] /\ (k # 1 => written'[t][k - 1] = w[k - 1])
        BY <2>5, <3>2
      <4> QED BY <3>2, <4>1, <4>2 DEF Before
    <3>3. CASE u = t /\ k = Len(w) + 1
      BY <2>1, <2>2, <2>5, <2>7, <3>3
    <3> QED BY <2>5, <3>1, <3>2, <3>3
  <2>9. ASSUME NEW u \in Trace \ (raced' \cup damaged')
        PROVE  /\ log'[u] = written'[u]
               /\ \A h \in Grant : TraceOf[h] = u /\ Appending(h)' /\ Len(log'[u]) = 0
                    => prev'[h] = NoHash
    <3>1. CASE u # t
      BY <2>1, <2>3, <2>6, <3>1 DEF EndsInv
    <3>2. CASE u = t
      <4>1. log'[u] = written'[u]
        BY <2>1, <2>4, <2>7, <3>2
      <4>2. Len(log'[u]) = Len(log[t]) + 1 /\ Len(log[t]) \in Nat
        BY <1>0, <2>2, <2>4, <3>2, SeqDomain, AppendFacts
      <4> QED BY <4>1, <4>2
    <3> QED BY <3>1, <3>2
  <2> QED BY <2>8, <2>9 DEF EndsInv
<1>6. ASSUME NEW g \in Grant, IoError(g) PROVE EndsInv'
  BY <1>0, <1>1, <1>6 DEF IoError, AfterFailure, Appending
<1>7. ASSUME NEW g \in Grant, Crash(g) PROVE EndsInv'
  BY <1>0, <1>1, <1>7 DEF Crash, Appending
<1>8. ASSUME NEW g \in Grant, Revoke(g) PROVE EndsInv'
  BY <1>1, <1>8 DEF Revoke, Appending
<1>9. ASSUME NEW t \in Trace, Damage(t) PROVE EndsInv'
  <2>1. damaged' = damaged \cup {t} /\ UNCHANGED <<pc, prev, raced, mended, written>>
    BY <1>9 DEF Damage
  <2>2. \A u \in Trace \ {t} : log'[u] = log[u]
    BY <1>9, <1>0 DEF Damage
  <2> QED BY <2>1, <2>2 DEF EndsInv, Appending
<1>10. ASSUME NEW t \in Trace, LoseEvent(t) PROVE EndsInv'
  BY <1>1, <1>10 DEF LoseEvent, Appending
<1>11. ASSUME NEW t \in Trace, TakeBaseline(t) PROVE EndsInv'
  BY <1>1, <1>11 DEF TakeBaseline, Appending
<1>12. CASE UNCHANGED vars
  BY <1>1, <1>12 DEF vars, Appending
<1> QED
  BY <1>2, <1>3, <1>4, <1>5, <1>6, <1>7, <1>8, <1>9, <1>10, <1>11, <1>12
  DEF Next, GrantStep

\* Two records of a trace with the same hash are the same.
LEMMA SameHash ==
  ASSUME NEW t, NEW r, NEW q, RecordOf(r, t), RecordOf(q, t),
         r.hash = HashOf(r), q.hash = HashOf(q), r.hash = q.hash
  PROVE  r = q
<1>1. r.grant = q.grant /\ r.type = q.type /\ r.body = q.body /\ r.prev = q.prev
  BY HashFacts
<1>2. DOMAIN r = DOMAIN q /\ \A f \in DOMAIN r : r[f] = q[f]
  BY <1>1 DEF RecordOf, Fields
<1> QED BY <1>2 DEF RecordOf

\* Each line of s has a hash, its own, of a record of w; the next names it.
Valid(s, w, t) ==
  /\ IsSeq(s)
  /\ \A i \in DOMAIN s :
       /\ RecordOf(s[i], t) /\ s[i].hash = HashOf(s[i]) /\ From(s[i].hash, w, Len(w))
       /\ i > 1 => s[i].prev = s[i - 1].hash

\* What replay has checked once no record lacks a hash.
LEMMA SafeValid ==
  ASSUME NEW t, NEW s, NEW w, IsSeq(s), Safe(s), \A i \in DOMAIN s : Hashed(s[i]),
         \A i \in DOMAIN s : RecordOf(s[i], t) /\ From(s[i].hash, w, Len(w))
  PROVE  Valid(s, w, t)
<1>1. Len(s) \in Nat /\ DOMAIN s = 1 .. Len(s)
  BY SeqDomain
<1>2. ASSUME NEW i \in DOMAIN s PROVE s[i].hash = HashOf(s[i])
  BY DEF Safe, HashMismatches
<1>3. ASSUME NEW i \in DOMAIN s, i > 1 PROVE s[i].prev = s[i - 1].hash
  <2>1. i - 1 \in DOMAIN s
    BY <1>1, <1>3
  <2> QED BY <1>3, <2>1 DEF Safe, ContinuityBreaks
<1> QED BY <1>2, <1>3 DEF Valid

\* Each line of a valid log is one of the records written.
LEMMA ValidWritten ==
  ASSUME NEW t, NEW s, NEW w, IsSeq(w), Sealed(w), Valid(s, w, t),
         \A k \in DOMAIN w : RecordOf(w[k], t), NEW i \in DOMAIN s
  PROVE  \E k \in DOMAIN w : s[i] = w[k]
<1>1. RecordOf(s[i], t) /\ s[i].hash = HashOf(s[i]) /\ s[i].hash # NoHash
  BY HashFacts DEF Valid
<1>2. PICK k \in 1 .. Len(w) : s[i].hash = w[k].hash
  BY <1>1 DEF Valid, From
<1>3. k \in DOMAIN w /\ RecordOf(w[k], t) /\ w[k].hash = HashOf(w[k])
  BY SeqDomain DEF Sealed
<1> QED BY <1>1, <1>2, <1>3, SameHash

Stretch(s, w) ==
  \E i \in 1 .. (Len(w) + 1) : \E j \in 0 .. Len(w) : s = SubSeq(w, i, j)

\* A valid log of records that are chained one to the next is a stretch of them:
\* seen from its last line, each line before is the record before.
LEMMA ValidStretch ==
  ASSUME NEW t, NEW s, NEW w, IsSeq(w), Sealed(w), Valid(s, w, t),
         \A k \in DOMAIN w : RecordOf(w[k], t),
         \A k \in DOMAIN w : w[k].prev = Before(w, k)
  PROVE  Stretch(s, w)
<1> DEFINE n == Len(s)
<1>1. /\ n \in Nat /\ DOMAIN s = 1 .. n /\ Len(w) \in Nat /\ DOMAIN w = 1 .. Len(w)
  BY SeqDomain DEF Valid
<1>2. CASE n = 0
  <2>1. s = <<>> /\ SubSeq(w, 1, 0) = <<>>
    BY <1>1, <1>2 DEF Valid, IsSeq
  <2>2. 1 \in 1 .. (Len(w) + 1) /\ 0 \in 0 .. Len(w)
    BY <1>1
  <2> QED BY <2>1, <2>2, Zenon DEF Stretch
<1>3. CASE n > 0
  <2>1. PICK k \in DOMAIN w : s[n] = w[k]
    BY <1>1, <1>3, ValidWritten
  \* d: how many lines from the end are records from k backwards.
  <2> DEFINE Back(d) == k - d \in DOMAIN w /\ s[n - d] = w[k - d]
             Bad == {d \in 0 .. (n - 1) : ~Back(d)}
  <2>2. ASSUME NEW d \in 0 .. (n - 1), d > 0, Back(d - 1) PROVE Back(d)
    <3> DEFINE i == n - (d - 1)
               m == k - (d - 1)
    <3>1. i \in DOMAIN s /\ i - 1 = n - d /\ i - 1 \in DOMAIN s /\ i > 1 /\ m - 1 = k - d
      BY <1>1, <2>1, <2>2
    <3>2. m \in DOMAIN w /\ s[i] = w[m]
      BY <2>2
    <3> HIDE DEF i, m
    <3>3. s[i].prev = s[i - 1].hash /\ s[i - 1].hash = HashOf(s[i - 1]) /\ RecordOf(s[i - 1], t)
      BY <3>1 DEF Valid
    <3>4. w[m].prev = Before(w, m) /\ Before(w, m) # NoHash
      BY <3>2, <3>3, HashFacts
    <3>5. m # 1 /\ w[m].prev = w[m - 1].hash
      BY <3>4 DEF Before
    <3>6. m - 1 \in DOMAIN w
      BY <1>1, <3>2, <3>5
    <3>7. w[m - 1].hash = HashOf(w[m - 1]) /\ RecordOf(w[m - 1], t)
      BY <3>6 DEF Sealed
    <3>8. s[i - 1] = w[m - 1]
      BY <3>2, <3>3, <3>5, <3>7, SameHash
    <3> QED BY <3>1, <3>6, <3>8
  <2>3. Bad = {}
    <3>1. SUFFICES ASSUME Bad # {} PROVE FALSE
      OBVIOUS
    <3>2. Bad \subseteq Nat
      BY <1>1
    <3> HIDE DEF Bad
    <3>3. PICK d \in Bad : \A e \in Bad : d <= e
      BY <3>1, <3>2, LeastElement
    <3> USE DEF Bad
    <3>4. d > 0
      BY <1>1, <2>1, <3>3
    <3>5. d - 1 \in 0 .. (n - 1) /\ d - 1 \notin Bad
      BY <1>1, <3>3, <3>4
    <3>6. Back(d - 1)
      BY <3>5
    <3> QED BY <2>2, <3>3, <3>4, <3>6
  <2>4. ASSUME NEW p \in 1 .. n PROVE k - n + p \in DOMAIN w /\ s[p] = w[k - n + p]
    <3>1. n - p \in 0 .. (n - 1) /\ n - (n - p) = p /\ k - (n - p) = k - n + p
      BY <1>1, <2>1
    <3>2. Back(n - p)
      BY <2>3, <3>1
    <3> QED BY <3>1, <3>2
  <2> DEFINE i == k - n + 1
             u == SubSeq(w, i, k)
  <2>5. i \in 1 .. Len(w) /\ k \in 1 .. Len(w) /\ k - i + 1 = n
    BY <1>1, <1>3, <2>1, <2>4
  <2>6. s = u
    <3>1. PICK S : w \in Seq(S)
      BY DEF IsSeq
    <3>2. i \in Int /\ k \in Int /\ i <= k /\ \A p \in i .. k : w[p] \in S
      BY <1>1, <1>3, <2>5, <3>1
    <3> HIDE DEF i
    <3>3. u \in Seq(S) /\ Len(u) = n /\ \A p \in 1 .. n : u[p] = w[i + p - 1]
      BY <2>5, <3>2, SubSeqProperties
    <3> HIDE DEF u
    <3>4. ASSUME NEW p \in 1 .. n PROVE s[p] = u[p]
      <4>1. u[p] = w[i + p - 1] /\ s[p] = w[k - n + p]
        BY <2>4, <3>3
      <4>2. i + p - 1 = k - n + p
        BY <1>1, <2>1 DEF i
      <4> QED BY <4>1, <4>2
    <3>5. u \in Seq(S) /\ DOMAIN s = DOMAIN u /\ \A p \in DOMAIN s : s[p] = u[p]
      BY <1>1, <3>3, <3>4
    <3>6. s = [p \in 1 .. n |-> s[p]] /\ u = [p \in 1 .. n |-> u[p]]
      BY <1>1, <3>3 DEF Valid, IsSeq
    <3> QED BY <3>4, <3>6
  <2>7. i \in 1 .. (Len(w) + 1) /\ k \in 0 .. Len(w)
    BY <1>1, <2>5
  <2> HIDE DEF i
  <2> QED BY <2>6, <2>7, Zenon DEF Stretch
<1> QED BY <1>1, <1>2, <1>3

\* Whatever lines are lost, altered, moved or stripped of their hash: if a trace
\* still replays as valid and each record has a hash, the records left are a
\* stretch of those written (executionReplay.ts:107-159).
THEOREM EndsCorrect == Spec => []OnlyEndsAreLost
<1>1. Init => TypeInv /\ ChainInv /\ OriginInv /\ EndsInv
  <2>1. IsSeq(<<>>)
    BY DEF IsSeq
  <2> QED BY <2>1, TraceAssumption, LimitAssumption
      DEF Init, TypeInv, TypeOK, Pc, ChainInv, OriginInv, EndsInv, Appending, Sealed, From
<1>2. TypeInv /\ OriginInv /\ EndsInv => OnlyEndsAreLost
  <2> SUFFICES ASSUME TypeInv, OriginInv, EndsInv, NEW t \in Trace \ (raced \cup mended),
                      Safe(log[t]), \A i \in DOMAIN log[t] : Hashed(log[t][i])
               PROVE  Stretch(log[t], written[t])
    BY Zenon DEF OnlyEndsAreLost, Stretch
  <2>1. IsSeq(written[t]) /\ Sealed(written[t]) /\ \A k \in DOMAIN written[t] : RecordOf(written[t][k], t)
    BY DEF TypeInv, OriginInv
  <2>2. Valid(log[t], written[t], t)
    BY SafeValid DEF TypeInv, OriginInv
  <2>3. \A k \in DOMAIN written[t] : written[t][k].prev = Before(written[t], k)
    BY DEF EndsInv
  <2> QED BY <2>1, <2>2, <2>3, ValidStretch
<1> QED BY <1>1, <1>2, TypeInductive, ChainInductive, OriginInductive, EndsInductive, PTL DEF Spec
-----------------------------------------------------------------------------
(***************************************************************************)
(* A diff without divergence                                               *)
(***************************************************************************)
\* Where r was first written.
First(w, r) == CHOOSE k \in DOMAIN w : w[k] = r /\ \A j \in DOMAIN w : w[j] = r => k <= j

LEMMA FirstFacts ==
  ASSUME NEW w, IsSeq(w), NEW r, \E k \in DOMAIN w : w[k] = r
  PROVE  /\ First(w, r) \in DOMAIN w /\ First(w, r) \in Nat
         /\ w[First(w, r)] = r
         /\ \A j \in DOMAIN w : w[j] = r => First(w, r) <= j
<1> DEFINE K == {k \in DOMAIN w : w[k] = r}
<1>1. DOMAIN w \subseteq Nat
  BY SeqDomain
<1>2. PICK k \in K : \A j \in K : k <= j
  BY <1>1, LeastElement
<1>3. /\ First(w, r) \in DOMAIN w /\ w[First(w, r)] = r
      /\ \A j \in DOMAIN w : w[j] = r => First(w, r) <= j
  BY <1>2 DEF First
<1> QED BY <1>1, <1>3

LEMMA ValidFirst ==
  ASSUME NEW t, NEW s, NEW w, IsSeq(w), Sealed(w), Valid(s, w, t),
         \A k \in DOMAIN w : RecordOf(w[k], t), NEW i \in DOMAIN s
  PROVE  First(w, s[i]) \in Nat /\ w[First(w, s[i])] = s[i]
<1>1. \E k \in DOMAIN w : w[k] = s[i]
  BY ValidWritten
<1> QED BY <1>1, FirstFacts

\* Along a valid log the records were written ever later: each names by its
\* hash a record written before it.
LEMMA LaterWritten ==
  ASSUME NEW t, NEW s, NEW w, IsSeq(w), Sealed(w), Valid(s, w, t),
         \A k \in DOMAIN w : RecordOf(w[k], t), NEW i \in DOMAIN s, i > 1
  PROVE  First(w, s[i - 1]) < First(w, s[i])
<1>1. i - 1 \in DOMAIN s
  BY SeqDomain DEF Valid
<1> DEFINE p == s[i - 1]
           k == First(w, s[i])
<1>2. k \in DOMAIN w /\ k \in Nat /\ w[k] = s[i]
  BY ValidWritten, FirstFacts
<1>3. RecordOf(p, t) /\ p.hash = HashOf(p) /\ p.hash # NoHash /\ s[i].prev = p.hash
  BY <1>1, HashFacts DEF Valid
<1> HIDE DEF k
<1>4. PICK j \in 1 .. (k - 1) : p.hash = w[j].hash
  BY <1>2, <1>3 DEF Sealed, From
<1>5. j \in DOMAIN w /\ j < k
  BY <1>2, SeqDomain
<1>6. w[j].hash = HashOf(w[j]) /\ RecordOf(w[j], t)
  BY <1>5 DEF Sealed
<1>7. w[j] = p
  BY <1>3, <1>4, <1>6, SameHash
<1>8. First(w, p) <= j /\ First(w, p) \in Nat
  BY <1>5, <1>7, FirstFacts
<1>9. First(w, p) < k
  BY <1>2, <1>5, <1>8
<1> QED BY <1>9 DEF k

\* Each value is larger than the one before, hence than all before.
Rising(f, n) == f \in [1 .. n -> Nat] /\ \A i, j \in 1 .. n : i < j => f[i] < f[j]

LEMMA StepsRise ==
  ASSUME NEW n \in Nat, NEW f \in [1 .. n -> Nat],
         \A i \in 1 .. n : i > 1 => f[i - 1] < f[i]
  PROVE  Rising(f, n)
<1> SUFFICES ASSUME NEW i \in 1 .. n, NEW k \in 1 .. n, i < k, ~(f[i] < f[k])
             PROVE  FALSE
  BY DEF Rising
<1> DEFINE Bad == {j \in 1 .. n : i < j /\ ~(f[i] < f[j])}
<1>1. PICK j \in Bad : \A m \in Bad : j <= m
  <2>1. Bad \subseteq Nat /\ k \in Bad
    OBVIOUS
  <2> QED BY <2>1, LeastElement
<1>2. j - 1 \in 1 .. n /\ f[j - 1] < f[j]
  BY <1>1
<1>3. j - 1 \notin Bad
  BY <1>1
<1>4. f[i] \in Nat /\ f[j] \in Nat /\ f[j - 1] \in Nat
  BY <1>1, <1>2
<1>5. CASE j - 1 = i
  BY <1>1, <1>2, <1>5
<1>6. CASE i < j - 1
  BY <1>1, <1>2, <1>3, <1>4, <1>6
<1> QED BY <1>1, <1>5, <1>6

Values(f, n) == {f[i] : i \in 1 .. n}

\* Two rising enumerations of the same values that agree so far agree next.
LEMMA RisingNext ==
  ASSUME NEW m \in Nat, NEW n \in Nat, NEW f, NEW h, Rising(f, m), Rising(h, n),
         Values(f, m) = Values(h, n), NEW p \in 1 .. m,
         \A q \in 1 .. (p - 1) : q \in 1 .. n /\ f[q] = h[q]
  PROVE  p \in 1 .. n /\ f[p] = h[p]
<1>1. PICK j \in 1 .. n : h[j] = f[p]
  BY DEF Values
<1>2. j >= p
  <2>1. SUFFICES ASSUME j < p PROVE FALSE
    OBVIOUS
  <2>2. j \in 1 .. m /\ f[j] = h[j] /\ f[j] < f[p]
    BY <2>1 DEF Rising
  <2> QED BY <1>1, <2>2 DEF Rising
<1>3. p \in 1 .. n
  BY <1>2
<1>4. PICK i \in 1 .. m : f[i] = h[p]
  BY <1>3 DEF Values
<1>5. i >= p
  <2>1. SUFFICES ASSUME i < p PROVE FALSE
    OBVIOUS
  <2>2. i \in 1 .. n /\ f[i] = h[i] /\ h[i] < h[p]
    BY <1>3, <2>1 DEF Rising
  <2> QED BY <1>3, <1>4, <2>2 DEF Rising
<1>6. f[p] \in Nat /\ h[p] \in Nat
  BY <1>3 DEF Rising
<1>7. f[p] <= f[i]
  <2>1. i = p \/ p < i
    BY <1>5
  <2>2. p < i => f[p] < f[i]
    BY DEF Rising
  <2>3. f[i] \in Nat
    BY DEF Rising
  <2> QED BY <1>6, <2>1, <2>2, <2>3
<1>8. h[p] <= h[j]
  <2>1. j = p \/ p < j
    BY <1>2
  <2>2. p < j => h[p] < h[j]
    BY <1>3 DEF Rising
  <2>3. h[j] \in Nat
    BY DEF Rising
  <2> QED BY <1>6, <2>1, <2>2, <2>3
<1> QED BY <1>1, <1>3, <1>4, <1>6, <1>7, <1>8

LEMMA RisingSame ==
  ASSUME NEW m \in Nat, NEW n \in Nat, NEW f, NEW h, Rising(f, m), Rising(h, n),
         Values(f, m) = Values(h, n)
  PROVE  m = n /\ \A p \in 1 .. m : f[p] = h[p]
<1> DEFINE Agree(p) == p \in 1 .. m /\ p \in 1 .. n /\ f[p] = h[p]
           Bad == {p \in (1 .. m) \cup (1 .. n) : ~Agree(p)}
<1>1. Bad = {}
  <2>1. SUFFICES ASSUME Bad # {} PROVE FALSE
    OBVIOUS
  <2>2. Bad \subseteq Nat
    OBVIOUS
  <2> HIDE DEF Bad
  <2>3. PICK p \in Bad : \A q \in Bad : p <= q
    BY <2>1, <2>2, LeastElement
  <2> USE DEF Bad
  <2>4. \A q \in 1 .. (p - 1) : Agree(q)
    BY <2>3
  <2>5. CASE p \in 1 .. m
    BY <2>3, <2>4, <2>5, RisingNext
  <2>6. CASE p \in 1 .. n
    <3>1. \A q \in 1 .. (p - 1) : q \in 1 .. m /\ h[q] = f[q]
      BY <2>4
    <3>2. p \in 1 .. m /\ h[p] = f[p]
      BY <2>6, <3>1, RisingNext
    <3> QED BY <2>3, <2>6, <3>2
  <2> QED BY <2>3, <2>5, <2>6
<1>2. \A p \in (1 .. m) \cup (1 .. n) : Agree(p)
  BY <1>1
<1>3. m = n
  <2>1. m > n => m \in 1 .. m /\ m \notin 1 .. n
    OBVIOUS
  <2>2. n > m => n \in 1 .. n /\ n \notin 1 .. m
    OBVIOUS
  <2> QED BY <1>2, <2>1, <2>2
<1> QED BY <1>2, <1>3

\* Two valid logs with the same records have them in the same order.
LEMMA ValidSame ==
  ASSUME NEW t, NEW a, NEW b, NEW w, IsSeq(w), Sealed(w), Valid(a, w, t), Valid(b, w, t),
         \A k \in DOMAIN w : RecordOf(w[k], t),
         \A i \in DOMAIN a : \E j \in DOMAIN b : a[i] = b[j],
         \A j \in DOMAIN b : \E i \in DOMAIN a : a[i] = b[j]
  PROVE  a = b
<1> DEFINE m == Len(a)
           n == Len(b)
           f == [i \in 1 .. m |-> First(w, a[i])]
           h == [j \in 1 .. n |-> First(w, b[j])]
<1>1. m \in Nat /\ DOMAIN a = 1 .. m /\ n \in Nat /\ DOMAIN b = 1 .. n
  BY SeqDomain DEF Valid
<1>2. ASSUME NEW i \in 1 .. m PROVE First(w, a[i]) \in Nat /\ w[First(w, a[i])] = a[i]
  BY <1>1, ValidFirst
<1>3. ASSUME NEW j \in 1 .. n PROVE First(w, b[j]) \in Nat /\ w[First(w, b[j])] = b[j]
  BY <1>1, ValidFirst
<1>4. Rising(f, m)
  <2>1. f \in [1 .. m -> Nat]
    BY <1>2
  <2>2. ASSUME NEW i \in 1 .. m, i > 1 PROVE f[i - 1] < f[i]
    <3>1. First(w, a[i - 1]) < First(w, a[i])
      BY <1>1, <2>2, LaterWritten
    <3>2. i - 1 \in 1 .. m
      BY <1>1, <2>2
    <3> QED BY <3>1, <3>2
  <2> HIDE DEF f
  <2> QED BY <1>1, <2>1, <2>2, StepsRise
<1>5. Rising(h, n)
  <2>1. h \in [1 .. n -> Nat]
    BY <1>3
  <2>2. ASSUME NEW j \in 1 .. n, j > 1 PROVE h[j - 1] < h[j]
    <3>1. First(w, b[j - 1]) < First(w, b[j])
      BY <1>1, <2>2, LaterWritten
    <3>2. j - 1 \in 1 .. n
      BY <1>1, <2>2
    <3> QED BY <3>1, <3>2
  <2> HIDE DEF h
  <2> QED BY <1>1, <2>1, <2>2, StepsRise
<1>6. Values(f, m) = Values(h, n)
  <2>1. \A i \in 1 .. m : \E j \in 1 .. n : f[i] = h[j]
    BY <1>1
  <2>2. \A j \in 1 .. n : \E i \in 1 .. m : f[i] = h[j]
    BY <1>1
  <2> HIDE DEF f, h, m, n
  <2>3. \A i \in 1 .. m : f[i] \in Values(h, n)
    BY <2>1 DEF Values
  <2>4. \A j \in 1 .. n : h[j] \in Values(f, m)
    BY <2>2 DEF Values
  <2>5. Values(f, m) \subseteq Values(h, n)
    BY <2>3 DEF Values
  <2>6. Values(h, n) \subseteq Values(f, m)
    BY <2>4 DEF Values
  <2> QED BY <2>5, <2>6
<1>7. m = n /\ \A p \in 1 .. m : First(w, a[p]) = First(w, b[p])
  <2>1. m = n /\ \A p \in 1 .. m : f[p] = h[p]
    <3>1. m \in Nat /\ n \in Nat
      BY <1>1
    <3> HIDE DEF f, h, m, n
    <3> QED BY <1>4, <1>5, <1>6, <3>1, RisingSame
  <2> QED BY <2>1
<1>8. \A p \in 1 .. m : a[p] = b[p]
  BY <1>2, <1>3, <1>7
<1>9. a = [p \in 1 .. m |-> a[p]] /\ b = [p \in 1 .. n |-> b[p]]
  BY <1>1 DEF Valid, IsSeq
<1> QED BY <1>7, <1>8, <1>9

\* The key of a record with a hash is that of no other record.
LEMMA SameKey ==
  ASSUME NEW t, NEW r, NEW q, RecordOf(r, t), RecordOf(q, t),
         r.hash = HashOf(r), q.hash # NoHash => q.hash = HashOf(q),
         AuthorityKey(r) = AuthorityKey(q)
  PROVE  r = q
<1>1. Hashed(r)
  BY HashFacts DEF Hashed
<1>2. Hashed(q)
  <2>1. SUFFICES ASSUME ~Hashed(q) PROVE FALSE
    OBVIOUS
  <2>2. HashOf(r) = <<q.type>>
    BY <1>1, <2>1 DEF AuthorityKey
  <2> QED BY <2>2 DEF HashOf, Hash
<1>3. r.hash = q.hash
  BY <1>1, <1>2 DEF AuthorityKey
<1> QED BY <1>2, <1>3, SameHash DEF Hashed

\* Whatever happened to the log and its events in between, a diff that reports no
\* divergence from an eligible baseline of records with hashes means that both
\* are what they were, order included (replayBaseline.ts, replayDiff.ts).
THEOREM DiffCorrect == Spec => []NoDivergenceMeansSame
<1>1. Init => TypeInv /\ OriginInv
  <2>1. IsSeq(<<>>)
    BY DEF IsSeq
  <2> QED BY <2>1, TraceAssumption, LimitAssumption
      DEF Init, TypeInv, TypeOK, Pc, OriginInv, Sealed, From
<1>2. TypeInv /\ OriginInv => NoDivergenceMeansSame
  <2> SUFFICES ASSUME TypeInv, OriginInv, NEW t \in Trace,
                      baseline[t] # NoBaseline, baseline[t].diff_eligible,
                      \A i \in DOMAIN kept[t].records : Hashed(kept[t].records[i]),
                      DiffStatus(baseline[t], log[t], events[t], RevokedTokens(t)) = "no_divergence"
               PROVE  log[t] = kept[t].records /\ events[t] = kept[t].events
    BY DEF NoDivergenceMeansSame
  <2> DEFINE w == written[t]
             s == log[t]
             k == kept[t].records
  <2>1. IsSeq(w) /\ Sealed(w) /\ \A j \in DOMAIN w : RecordOf(w[j], t)
    BY DEF TypeInv, OriginInv
  <2>2. Truthful(t)
    BY DEF OriginInv
  <2>3. Safe(s) /\ ~Changed(baseline[t].refs, Refs(s)) /\ ~Changed(baseline[t].events, events[t])
    BY DEF DiffStatus
  <2>4. Refs(s) = Refs(k) /\ events[t] = kept[t].events
    BY <2>2, <2>3 DEF Truthful, Changed
  <2>5. /\ IsSeq(s) /\ \A i \in DOMAIN s : RecordOf(s[i], t)
        /\ \A i \in DOMAIN s : From(s[i].hash, w, Len(w))
    BY DEF TypeInv, OriginInv
  <2>6. /\ IsSeq(k) /\ Safe(k)
        /\ \A i \in DOMAIN k : RecordOf(k[i], t) /\ From(k[i].hash, w, Len(w)) /\ Hashed(k[i])
    BY <2>2 DEF Truthful
  <2> HIDE DEF w, s, k
  <2>7. Valid(k, w, t)
    BY <2>6, SafeValid
  <2>8. \A i \in DOMAIN s : s[i].hash # NoHash => s[i].hash = HashOf(s[i])
    BY <2>3 DEF Safe, HashMismatches, Hashed
  <2>9. \A j \in DOMAIN k : RecordOf(k[j], t) /\ k[j].hash = HashOf(k[j])
    BY <2>7 DEF Valid
  <2>10. \A i \in DOMAIN s : \E j \in DOMAIN k : s[i] = k[j]
    <3> TAKE i \in DOMAIN s
    <3>1. AuthorityKey(s[i]) \in Refs(k)
      BY <2>4 DEF Refs
    <3>2. PICK j \in DOMAIN k : AuthorityKey(k[j]) = AuthorityKey(s[i])
      BY <3>1 DEF Refs
    <3> QED BY <2>5, <2>8, <2>9, <3>2, SameKey
  <2>11. \A j \in DOMAIN k : \E i \in DOMAIN s : s[i] = k[j]
    <3> TAKE j \in DOMAIN k
    <3>1. AuthorityKey(k[j]) \in Refs(s)
      BY <2>4 DEF Refs
    <3>2. PICK i \in DOMAIN s : AuthorityKey(k[j]) = AuthorityKey(s[i])
      BY <3>1 DEF Refs
    <3> QED BY <2>5, <2>8, <2>9, <3>2, SameKey
  <2>12. Valid(s, w, t)
    <3>1. \A i \in DOMAIN s : Hashed(s[i])
      BY <2>6, <2>10
    <3> QED BY <2>3, <2>5, <3>1, SafeValid
  <2>13. s = k
    BY <2>1, <2>7, <2>10, <2>11, <2>12, ValidSame
  <2> QED BY <2>4, <2>13 DEF s, k
<1> QED BY <1>1, <1>2, TypeInductive, OriginInductive, PTL DEF Spec
=============================================================================
