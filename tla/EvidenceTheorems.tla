-------------------------- MODULE EvidenceTheorems --------------------------
(***************************************************************************)
(* Theorems about Evidence: what a document that verifies says was signed, *)
(* whatever was done to the files.                                         *)
(*                                                                         *)
(* The argument: every signature that any file holds was made by somebody  *)
(* over a document that is in made, and the digest of every record is that *)
(* of an export.  A signature fixes the fields it covers, so that a file   *)
(* which verifies agrees with what was signed on those; of the end of an   *)
(* abort receipt it fixes the bytes, which may have a second reading.      *)
(***************************************************************************)
EXTENDS Evidence, TLAPS

\* sig was made, or is no signature.
Known(sig) == sig = Unsigned \/ \E m \in made : sig = Signature(m.by, m.doc)

SignaturesKnown ==
    \A d \in docs : \A g \in Signatures \cap DOMAIN d : Known(d[g])

Export(m) == m.doc.kind = "SealedSessionRecord" /\ m.from # None

DigestsExported ==
    \A d \in Files("SealedSessionRecord") :
        \E m \in made : Export(m) /\ d.body_digest = m.doc.body_digest

\* What was written is what it was made of.
Honest(m) ==
    /\ m.doc.kind \in DOMAIN Fields
    /\ m.doc.kind = "WireBoundReceipt" =>
         /\ m.doc.transcript = TranscriptDigest(m.doc.sid, m.doc.inonce, m.doc.rnonce,
                m.from.offer.elems, m.from.reply.elems, m.from.reply.doubly)
         /\ m.from.offer.nonce \in {None, m.doc.inonce}
         /\ m.from.reply.nonce \in {None, m.doc.rnonce}
    /\ Export(m) =>
         /\ m.doc.body_digest = BodyDigest(m.doc)
         /\ m.doc.messages = Entries(m.from)

MadeHonestly == \A m \in made : Honest(m)

Inv == TypeOK /\ SignaturesKnown /\ DigestsExported /\ MadeHonestly

-----------------------------------------------------------------------------
(***************************************************************************)
(* Signatures.                                                             *)
(***************************************************************************)
Shaped(d) ==
    /\ d = [f \in DOMAIN d |-> d[f]]
    /\ d.kind \in DOMAIN Fields
    /\ DOMAIN d = Fields[d.kind]

\* Every kind but one is in its own signature, and no signature covers the
\* kind of a receipt with the fields of one.
LEMMA BodyKinds ==
    ASSUME NEW k \in DOMAIN Fields, NEW l \in DOMAIN Fields, Body[k] = Body[l]
    PROVE  k = l \/ "kind" \in Body[k]
  <1>1. DOMAIN Fields = {"OverlapAttestation", "AbortReceipt", "IntersectionReceipt",
                         "WireBoundReceipt", "SealedSessionRecord"}
    BY DEF Fields
  <1>2. "kind" \notin Body[k] => k = "IntersectionReceipt"
    BY <1>1 DEF Body, AttestationBody, AbortBody, WireReceiptBody
  <1>3. "kind" \notin Body[l] => l = "IntersectionReceipt"
    BY <1>1 DEF Body, AttestationBody, AbortBody, WireReceiptBody
  <1> QED BY <1>2, <1>3

\* A signature is of one signer, one kind, and one content of what it covers.
LEMMA SignatureBinds ==
    ASSUME NEW p, NEW q, NEW d, NEW e, Signature(p, d) = Signature(q, e),
           d.kind \in DOMAIN Fields, e.kind \in DOMAIN Fields
    PROVE  /\ p = q /\ d.kind = e.kind
           /\ \A f \in Body[d.kind] : Covered(d, f) = Covered(e, f)
  <1>1. p = q /\ [f \in Body[d.kind] |-> Covered(d, f)] = [f \in Body[e.kind] |-> Covered(e, f)]
    BY DEF Signature
  <1>2. Body[d.kind] = Body[e.kind] /\ \A f \in Body[d.kind] : Covered(d, f) = Covered(e, f)
    BY <1>1
  <1>3. Body[d.kind] = Body[e.kind] => d.kind = e.kind \/ "kind" \in Body[d.kind]
    BY BodyKinds
  <1>4. "kind" \in Body[d.kind] => d.kind = e.kind
    BY <1>2 DEF Covered
  <1> QED BY <1>1, <1>2, <1>3, <1>4

\* Two abort receipts with one end of the payload have the same end, or one
\* reads it otherwise.
LEMMA EndsMeet ==
    ASSUME NEW d, NEW e, PayloadEnd(d) = PayloadEnd(e)
    PROVE  Ending(d) = Ending(e) \/ ReadOtherwise(d, e)
  <1>1. /\ Ending(d).text = d.text /\ Ending(d).transcript = d.transcript
        /\ Ending(e).text = e.text /\ Ending(e).transcript = e.transcript
    BY DEF Ending
  <1>2. \A r \in DOMAIN Reread : /\ r.transcript = None /\ r.text # None
                                /\ Reread[r].text # None /\ Reread[r].transcript # None
    <2> SUFFICES ASSUME NEW r \in DOMAIN Reread
                 PROVE  /\ r.transcript = None /\ r.text # None
                        /\ Reread[r].text # None /\ Reread[r].transcript # None
      OBVIOUS
    <2>1. r = [text |-> r.text, issued |-> r.issued, transcript |-> None]
      BY RereadAssumption
    <2>2. r.transcript = None
      BY <2>1
    <2> QED BY <2>2, RereadAssumption
  <1> HIDE DEF Ending
  <1>3. CASE Ending(d) \in DOMAIN Reread /\ Ending(e) \in DOMAIN Reread
    BY <1>3, RereadAssumption DEF PayloadEnd
  <1>4. CASE Ending(d) \in DOMAIN Reread /\ Ending(e) \notin DOMAIN Reread
    BY <1>1, <1>2, <1>4 DEF PayloadEnd, ReadOtherwise
  <1>5. CASE Ending(d) \notin DOMAIN Reread /\ Ending(e) \in DOMAIN Reread
    BY <1>1, <1>2, <1>5 DEF PayloadEnd, ReadOtherwise
  <1>6. CASE Ending(d) \notin DOMAIN Reread /\ Ending(e) \notin DOMAIN Reread
    BY <1>6 DEF PayloadEnd
  <1> QED BY <1>3, <1>4, <1>5, <1>6

\* What may differ between documents with one signature.
Uncovered == {"signature", "cosigner", "cosignature"}

\* The signature of a document is not among the fields it covers.
LEMMA BodyUnsigned ==
    ASSUME NEW k \in DOMAIN Fields
    PROVE  /\ Body[k] \cap Uncovered = {}
           /\ Body[k] \subseteq Fields[k] \cup {"tail"}
           /\ "tail" \in Body[k] => {"text", "issued", "transcript"} \subseteq Fields[k]
           /\ {"kind", "by", "signature"} \subseteq Fields[k]
  <1>1. DOMAIN Fields = {"OverlapAttestation", "AbortReceipt", "IntersectionReceipt",
                         "WireBoundReceipt", "SealedSessionRecord"}
    BY DEF Fields
  <1> QED
    BY <1>1 DEF Body, Fields, AttestationBody, AbortBody, ReceiptBody, WireReceiptBody,
        AttestationFields, AbortFields, ReceiptFields, WireReceiptFields, RecordFields,
        Uncovered

\* Documents that agree on what is signed have the same signature.
LEMMA SameSignature ==
    ASSUME NEW p, NEW d, NEW e, d.kind \in DOMAIN Fields,
           Agree(d, e, Fields[d.kind] \ Uncovered)
    PROVE  Signature(p, d) = Signature(p, e)
  <1>1. d.kind = e.kind /\ \A f \in Fields[d.kind] \ Uncovered : d[f] = e[f]
    BY DEF Agree
  <1>2. ASSUME NEW f \in Body[d.kind] PROVE Covered(d, f) = Covered(e, f)
    <2>1. CASE f = "tail"
      <3>1. {"text", "issued", "transcript"} \subseteq Fields[d.kind] \ Uncovered
        BY <2>1, BodyUnsigned DEF Uncovered
      <3>2. Ending(d) = Ending(e)
        BY <1>1, <3>1 DEF Ending
      <3> QED BY <2>1, <3>2 DEF Covered, PayloadEnd
    <2>2. CASE f # "tail"
      <3>1. f \in Fields[d.kind] \ Uncovered
        BY <2>2, BodyUnsigned
      <3> QED BY <1>1, <2>2, <3>1 DEF Covered
    <2> QED BY <2>1, <2>2
  <1>3. [f \in Body[d.kind] |-> Covered(d, f)] = [f \in Body[e.kind] |-> Covered(e, f)]
    BY <1>1, <1>2
  <1> QED BY <1>3 DEF Signature

LEMMA SignedByKeeps ==
    ASSUME NEW p, NEW d, Shaped(d)
    PROVE  /\ Shaped(SignedBy(p, d))
           /\ \A f \in DOMAIN d \ {"signature"} : SignedBy(p, d)[f] = d[f]
           /\ SignedBy(p, d).kind = d.kind /\ SignedBy(p, d).by = d.by
           /\ SignedBy(p, d).signature = Signature(p, SignedBy(p, d))
  <1> DEFINE e == SignedBy(p, d)
  <1>1. d.kind \in DOMAIN Fields /\ DOMAIN d = Fields[d.kind] /\ d = [f \in DOMAIN d |-> d[f]]
    BY DEF Shaped
  <1>2. {"kind", "by", "signature"} \subseteq DOMAIN d
    BY <1>1, BodyUnsigned
  <1>3. /\ e = [f \in DOMAIN e |-> e[f]] /\ DOMAIN e = DOMAIN d
        /\ \A f \in DOMAIN d \ {"signature"} : e[f] = d[f]
        /\ e.kind = d.kind /\ e.by = d.by
        /\ e.signature = Signature(p, d)
    BY <1>1, <1>2 DEF SignedBy
  <1>4. Agree(d, e, Fields[d.kind] \ Uncovered)
    BY <1>1, <1>3 DEF Agree, Uncovered
  <1>5. e.signature = Signature(p, e)
    BY <1>1, <1>3, <1>4, SameSignature
  <1>6. Shaped(e)
    BY <1>1, <1>3 DEF Shaped
  <1> QED BY <1>3, <1>5, <1>6
-----------------------------------------------------------------------------
(***************************************************************************)
(* Steps.                                                                  *)
(***************************************************************************)
\* What a new document must be like for Make to preserve the invariant.
Good(p, d, from) ==
    /\ WellFormed(d)
    /\ \A g \in Signatures \cap DOMAIN d : Known(d[g]) \/ d[g] = Signature(p, d)
    /\ d.kind = "SealedSessionRecord" =>
         \/ from # None
         \/ \E m \in made : Export(m) /\ d.body_digest = m.doc.body_digest
    /\ Honest([by |-> p, doc |-> d, from |-> from])

LEMMA MakeKeeps ==
    ASSUME Inv, NEW p, NEW d, NEW from, Good(p, d, from), Make(p, d, from)
    PROVE  Inv'
  <1> DEFINE n == [by |-> p, doc |-> d, from |-> from]
  <1>1. docs' = docs \cup {d} /\ made' = made \cup {n} /\ clock' = clock
    BY DEF Make
  <1>2. n.by = p /\ n.doc = d /\ n.from = from
    OBVIOUS
  <1> HIDE DEF n
  <1>3. TypeOK'
    BY <1>1 DEF Inv, TypeOK, Good, WellFormed
  <1>4. SignaturesKnown'
    <2> SUFFICES ASSUME NEW e \in docs', NEW g \in Signatures \cap DOMAIN e
                 PROVE  Known(e[g])'
      BY DEF SignaturesKnown, Signatures
    <2>1. CASE e \in docs
      BY <2>1, <1>1 DEF Inv, SignaturesKnown, Known
    <2>2. CASE e = d
      BY <2>2, <1>1, <1>2 DEF Good, Known
    <2> QED BY <2>1, <2>2, <1>1
  <1>5. DigestsExported'
    <2> SUFFICES ASSUME NEW e \in docs', e.kind = "SealedSessionRecord"
                 PROVE  \E m \in made' : Export(m) /\ e.body_digest = m.doc.body_digest
      BY DEF DigestsExported, Files, Export
    <2>1. CASE e \in docs
      BY <2>1, <1>1 DEF Inv, DigestsExported, Files
    <2>2. CASE e = d
      BY <2>2, <1>1, <1>2 DEF Good, Export
    <2> QED BY <2>1, <2>2, <1>1
  <1>6. MadeHonestly'
    BY <1>1, <1>2 DEF Inv, MadeHonestly, Good, Honest, Export, n
  <1> QED BY <1>3, <1>4, <1>5, <1>6 DEF Inv

LEMMA EditKeeps ==
    ASSUME Inv, NEW d \in docs, NEW e \in docs, NEW f \in DOMAIN d, NEW g \in DOMAIN e,
           Edit(d, f, e, g)
    PROVE  Inv'
  <1> DEFINE c == [d EXCEPT ![f] = e[g]]
  <1>1. /\ docs' = docs \cup {c} /\ made' = made /\ clock' = clock
        /\ f # "kind"
        /\ \/ f = g /\ d.kind = e.kind
           \/ f \in Signatures /\ g \in Signatures
    BY DEF Edit
  <1>2. WellFormed(d) /\ WellFormed(e)
    BY DEF Inv, TypeOK
  <1>3. {"kind", "by", "signature"} \subseteq DOMAIN d
    BY <1>2, BodyUnsigned DEF WellFormed
  <1>4. /\ c = [h \in DOMAIN c |-> c[h]] /\ DOMAIN c = DOMAIN d
        /\ c[f] = e[g] /\ \A h \in DOMAIN d \ {f} : c[h] = d[h]
        /\ c.kind = d.kind
    BY <1>1, <1>2, <1>3 DEF WellFormed
  <1> HIDE DEF c
  <1>5. WellFormed(c)
    <2>1. c.by \in Parties \/ c.kind = "SealedSessionRecord"
      BY <1>1, <1>2, <1>3, <1>4 DEF WellFormed, Signatures
    <2>2. c.kind = "OverlapAttestation" => c.expires \in 0 .. MaxTime
      <3> SUFFICES ASSUME c.kind = "OverlapAttestation" PROVE c.expires \in 0 .. MaxTime
        OBVIOUS
      <3>1. "expires" \in DOMAIN d /\ d.expires \in 0 .. MaxTime
        BY <1>2, <1>4 DEF WellFormed, Fields, AttestationFields
      <3> QED BY <3>1, <1>1, <1>2, <1>4 DEF WellFormed, Signatures
    <2> QED BY <1>2, <1>4, <2>1, <2>2 DEF WellFormed
  <1>6. TypeOK'
    BY <1>1, <1>5 DEF Inv, TypeOK, WellFormed
  <1>7. \A h \in Signatures \cap DOMAIN c : Known(c[h])
    BY <1>1, <1>4 DEF Inv, SignaturesKnown
  <1>8. SignaturesKnown'
    BY <1>1, <1>7 DEF Inv, SignaturesKnown, Known
  <1>9. DigestsExported'
    <2>1. c.kind = "SealedSessionRecord" =>
            \E m \in made : Export(m) /\ c.body_digest = m.doc.body_digest
      <3> SUFFICES ASSUME c.kind = "SealedSessionRecord"
                   PROVE  \E m \in made : Export(m) /\ c.body_digest = m.doc.body_digest
        OBVIOUS
      <3>1. "body_digest" \in DOMAIN d
        BY <1>2, <1>4 DEF WellFormed, Fields, RecordFields
      <3>2. \/ c.body_digest = d.body_digest
            \/ d.kind = e.kind /\ c.body_digest = e.body_digest
        BY <3>1, <1>1, <1>4 DEF Signatures
      <3> QED BY <3>2, <1>4 DEF Inv, DigestsExported, Files
    <2> QED BY <1>1, <2>1 DEF Inv, DigestsExported, Files, Export
  <1>10. MadeHonestly'
    BY <1>1 DEF Inv, MadeHonestly, Honest, Export
  <1> QED BY <1>6, <1>8, <1>9, <1>10 DEF Inv
LEMMA EditEntryKeeps ==
    ASSUME Inv, NEW d \in Files("SealedSessionRecord"), NEW e,
           NEW i \in DOMAIN d.messages, NEW j, NEW f, EditEntry(d, i, e, j, f)
    PROVE  Inv'
  <1> DEFINE c == [d EXCEPT !.messages[i][f] = e.messages[j][f]]
  <1>1. docs' = docs \cup {c} /\ made' = made /\ clock' = clock
    BY DEF EditEntry
  <1>2. d \in docs /\ d.kind = "SealedSessionRecord" /\ WellFormed(d)
    BY DEF Files, Inv, TypeOK
  <1>3. DOMAIN d = RecordFields
    BY <1>2 DEF WellFormed, Fields
  <1>4. /\ c = [h \in DOMAIN c |-> c[h]] /\ DOMAIN c = DOMAIN d
        /\ \A h \in DOMAIN d \ {"messages"} : c[h] = d[h]
    BY <1>2 DEF WellFormed
  <1> HIDE DEF c
  <1>5. /\ c.kind = d.kind /\ c.by = d.by /\ c.body_digest = d.body_digest
        /\ \A h \in Signatures \cap DOMAIN c : c[h] = d[h]
    BY <1>3, <1>4 DEF RecordFields, Signatures
  <1>6. WellFormed(c)
    BY <1>2, <1>4, <1>5 DEF WellFormed
  <1>7. TypeOK'
    BY <1>1, <1>6 DEF Inv, TypeOK, WellFormed
  <1>8. \A h \in Signatures \cap DOMAIN c : Known(c[h])
    BY <1>2, <1>4, <1>5 DEF Inv, SignaturesKnown
  <1>9. SignaturesKnown'
    BY <1>1, <1>8 DEF Inv, SignaturesKnown, Known
  <1>10. DigestsExported'
    BY <1>1, <1>2, <1>5 DEF Inv, DigestsExported, Files, Export
  <1>11. MadeHonestly'
    BY <1>1 DEF Inv, MadeHonestly, Honest, Export
  <1> QED BY <1>7, <1>9, <1>10, <1>11 DEF Inv

\* A document that its maker has just signed is good, but for what its kind asks.
LEMMA SignedGood ==
    ASSUME NEW p \in Parties, NEW d, NEW from, Shaped(d), d.by = p,
           "cosignature" \in DOMAIN d => d["cosignature"] = Unsigned,
           d.kind = "OverlapAttestation" => d.expires \in 0 .. MaxTime,
           d.kind = "SealedSessionRecord" =>
              \/ from # None
              \/ \E m \in made : Export(m) /\ d.body_digest = m.doc.body_digest,
           Honest([by |-> p, doc |-> SignedBy(p, d), from |-> from])
    PROVE  Good(p, SignedBy(p, d), from)
  <1> DEFINE e == SignedBy(p, d)
  <1>1. /\ Shaped(e)
        /\ \A f \in DOMAIN d \ {"signature"} : e[f] = d[f]
        /\ e.kind = d.kind /\ e.by = d.by
        /\ e.signature = Signature(p, e)
    BY SignedByKeeps
  <1>2. DOMAIN e = DOMAIN d
    BY <1>1 DEF Shaped
  <1> HIDE DEF e
  <1>3. d.kind = "OverlapAttestation" => e.expires \in 0 .. MaxTime
    BY <1>1 DEF Shaped, Fields, AttestationFields
  <1>4. WellFormed(e)
    BY <1>1, <1>3 DEF Shaped, WellFormed
  <1>5. \A g \in Signatures \cap DOMAIN e : Known(e[g]) \/ e[g] = Signature(p, e)
    BY <1>1, <1>2 DEF Signatures, Known
  <1>6. d.kind = "SealedSessionRecord" => e.body_digest = d.body_digest
    BY <1>1 DEF Shaped, Fields, RecordFields
  <1> QED BY <1>1, <1>4, <1>5, <1>6 DEF Good, e

LEMMA AttestSignKeeps ==
    ASSUME Inv, NEW p \in Parties, AttestSign(p)
    PROVE  Inv'
  <1> SUFFICES ASSUME NEW t \in AttestTerms,
                      NEW b \in {[Attestation(p, t) EXCEPT !.iroot = t.iroot],
                                 [Attestation(p, t) EXCEPT !.cardinality = t.cardinality]},
                      Make(p, SignedBy(p, b), None)
               PROVE  Inv'
    BY DEF AttestSign, SignIntersection, SignCardinality
  <1>1. clock \in Nat /\ clock <= MaxTime /\ Expiry(t.ttl) \in 0 .. MaxTime
    BY EvidenceAssumption DEF Inv, TypeOK, Expiry
  <1>2. /\ b.kind = "OverlapAttestation" /\ b.by = p /\ b["cosignature"] = Unsigned
        /\ b.expires = Expiry(t.ttl)
        /\ b = [f \in DOMAIN b |-> b[f]] /\ DOMAIN b = AttestationFields
    BY DEF Attestation, AttestationFields
  <1>3. Shaped(b)
    BY <1>2 DEF Shaped, Fields
  <1>4. SignedBy(p, b).kind = "OverlapAttestation"
    BY <1>2, <1>3, SignedByKeeps
  <1>5. Honest([by |-> p, doc |-> SignedBy(p, b), from |-> None])
    BY <1>4 DEF Honest, Export, Fields
  <1>6. Good(p, SignedBy(p, b), None)
    BY <1>1, <1>2, <1>3, <1>5, SignedGood
  <1> QED BY <1>6, MakeKeeps

LEMMA CoSignKeeps ==
    ASSUME Inv, NEW p \in Parties, NEW d \in docs, CoSign(p, d)
    PROVE  Inv'
  <1> DEFINE e == [d EXCEPT !.cosigner = p, !.cosignature = Signature(p, d)]
  <1>1. d.kind = "OverlapAttestation" /\ Make(p, e, None)
    BY DEF CoSign
  <1>2. WellFormed(d)
    BY DEF Inv, TypeOK
  <1>3. AttestationFields = DOMAIN d
    BY <1>1, <1>2 DEF WellFormed, Fields
  <1>4. /\ e = [f \in DOMAIN e |-> e[f]] /\ DOMAIN e = DOMAIN d
        /\ e["cosignature"] = Signature(p, d)
        /\ \A f \in DOMAIN d \ {"cosigner", "cosignature"} : e[f] = d[f]
        /\ e.kind = d.kind /\ e.by = d.by /\ e.expires = d.expires
    BY <1>2, <1>3 DEF WellFormed, AttestationFields
  <1> HIDE DEF e
  <1>5. WellFormed(e)
    BY <1>2, <1>4 DEF WellFormed
  <1>6. d.kind \in DOMAIN Fields /\ Agree(d, e, Fields[d.kind] \ Uncovered)
    BY <1>2, <1>4 DEF Agree, WellFormed, Uncovered
  <1>7. e["cosignature"] = Signature(p, e)
    BY <1>4, <1>6, SameSignature
  <1>8. e.signature = d.signature /\ Known(d["signature"])
    BY <1>3, <1>4 DEF Inv, SignaturesKnown, Signatures, AttestationFields
  <1>9. \A g \in Signatures \cap DOMAIN e : Known(e[g]) \/ e[g] = Signature(p, e)
    BY <1>7, <1>8 DEF Signatures
  <1>10. Good(p, e, None)
    BY <1>1, <1>4, <1>5, <1>9 DEF Good, Honest, Export, Fields
  <1> QED BY <1>1, <1>10, MakeKeeps

LEMMA AbortKeeps ==
    ASSUME Inv, NEW p \in Parties, SessionAbort(p)
    PROVE  Inv'
  <1> PICK t \in AbortTerms :
        Make(p, SignedBy(p, [kind |-> "AbortReceipt", sid |-> t.sid, by |-> p,
                             reason |-> t.reason, text |-> t.text, issued |-> clock,
                             transcript |-> t.transcript, signature |-> Unsigned]), None)
    BY DEF SessionAbort
  <1> DEFINE b == [kind |-> "AbortReceipt", sid |-> t.sid, by |-> p,
                   reason |-> t.reason, text |-> t.text, issued |-> clock,
                   transcript |-> t.transcript, signature |-> Unsigned]
  <1>1. Make(p, SignedBy(p, b), None)
    OBVIOUS
  <1>2. /\ b.kind = "AbortReceipt" /\ b.by = p /\ "cosignature" \notin DOMAIN b
        /\ b = [f \in DOMAIN b |-> b[f]] /\ DOMAIN b = AbortFields
    BY DEF AbortFields
  <1> HIDE DEF b
  <1>3. Shaped(b)
    BY <1>2 DEF Shaped, Fields
  <1>4. SignedBy(p, b).kind = "AbortReceipt"
    BY <1>2, <1>3, SignedByKeeps
  <1>5. Honest([by |-> p, doc |-> SignedBy(p, b), from |-> None])
    BY <1>4 DEF Honest, Export, Fields
  <1>6. Good(p, SignedBy(p, b), None)
    BY <1>2, <1>3, <1>5, SignedGood
  <1> QED BY <1>1, <1>6, MakeKeeps

LEMMA ReceiptKeeps ==
    ASSUME Inv, NEW p \in Parties, ReceiptSign(p)
    PROVE  Inv'
  <1> PICK t \in ReceiptTerms :
        Make(p, SignedBy(p, [kind |-> "IntersectionReceipt", root_a |-> t.root_a,
                             root_b |-> t.root_b, commitment |-> t.commitment,
                             mode |-> t.mode, by |-> p, signature |-> Unsigned]), None)
    BY DEF ReceiptSign
  <1> DEFINE b == [kind |-> "IntersectionReceipt", root_a |-> t.root_a,
                   root_b |-> t.root_b, commitment |-> t.commitment,
                   mode |-> t.mode, by |-> p, signature |-> Unsigned]
  <1>1. Make(p, SignedBy(p, b), None)
    OBVIOUS
  <1>2. /\ b.kind = "IntersectionReceipt" /\ b.by = p /\ "cosignature" \notin DOMAIN b
        /\ b = [f \in DOMAIN b |-> b[f]] /\ DOMAIN b = ReceiptFields
    BY DEF ReceiptFields
  <1> HIDE DEF b
  <1>3. Shaped(b)
    BY <1>2 DEF Shaped, Fields
  <1>4. SignedBy(p, b).kind = "IntersectionReceipt"
    BY <1>2, <1>3, SignedByKeeps
  <1>5. Honest([by |-> p, doc |-> SignedBy(p, b), from |-> None])
    BY <1>4 DEF Honest, Export, Fields
  <1>6. Good(p, SignedBy(p, b), None)
    BY <1>2, <1>3, <1>5, SignedGood
  <1> QED BY <1>1, <1>6, MakeKeeps
LEMMA WireBoundKeeps ==
    ASSUME Inv, NEW p \in Parties, WireBoundSign(p)
    PROVE  Inv'
  <1> PICK t \in WireTerms :
        \E inonce \in NonceOf(t.offer), rnonce \in NonceOf(t.reply) :
           Make(p, WireReceipt(p, t, inonce, rnonce), [offer |-> t.offer, reply |-> t.reply])
    BY DEF WireBoundSign
  <1> PICK inonce \in NonceOf(t.offer), rnonce \in NonceOf(t.reply) :
        Make(p, WireReceipt(p, t, inonce, rnonce), [offer |-> t.offer, reply |-> t.reply])
    OBVIOUS
  <1> DEFINE from == [offer |-> t.offer, reply |-> t.reply]
             digest == TranscriptDigest(t.sid, inonce, rnonce, t.offer.elems,
                                        t.reply.elems, t.reply.doubly)
             b == [kind |-> "WireBoundReceipt", sid |-> t.sid, transcript |-> digest,
                   inonce |-> inonce, rnonce |-> rnonce,
                   root_a |-> t.root_a, root_b |-> t.root_b,
                   commitment |-> t.commitment, mode |-> t.mode,
                   by |-> p, signature |-> Unsigned]
  <1>1. Make(p, SignedBy(p, b), from)
    BY DEF WireReceipt
  <1>2. t.offer.nonce \in {None, inonce} /\ t.reply.nonce \in {None, rnonce}
    BY DEF NonceOf
  <1>3. from.offer = t.offer /\ from.reply = t.reply
    OBVIOUS
  <1> HIDE DEF digest, from
  <1>4. /\ b.kind = "WireBoundReceipt" /\ b.by = p /\ "cosignature" \notin DOMAIN b
        /\ b = [f \in DOMAIN b |-> b[f]] /\ DOMAIN b = WireReceiptFields
        /\ b["transcript"] = digest /\ b["sid"] = t.sid
        /\ b["inonce"] = inonce /\ b["rnonce"] = rnonce
    BY DEF WireReceiptFields, ReceiptFields
  <1> HIDE DEF b
  <1>5. Shaped(b)
    BY <1>4 DEF Shaped, Fields
  <1>6. LET e == SignedBy(p, b)
        IN  /\ e.kind = "WireBoundReceipt" /\ e.transcript = digest /\ e.sid = t.sid
            /\ e.inonce = inonce /\ e.rnonce = rnonce
    BY <1>4, <1>5, SignedByKeeps DEF WireReceiptFields, ReceiptFields
  <1>7. Honest([by |-> p, doc |-> SignedBy(p, b), from |-> from])
    BY <1>2, <1>3, <1>6 DEF Honest, Export, Fields, digest
  <1>8. Good(p, SignedBy(p, b), from)
    BY <1>4, <1>5, <1>7, SignedGood
  <1> QED BY <1>1, <1>8, MakeKeeps

\* A record that names its sealer and is not sealed yet.
Claimed(p, d) == [d EXCEPT !.by = p, !.sealed = clock]

\* Sealing changes nothing that the digest is over, nor the digest.
LEMMA SealedKeeps ==
    ASSUME NEW p, NEW d, Shaped(d), d.kind = "SealedSessionRecord"
    PROVE  /\ Shaped(Claimed(p, d)) /\ Claimed(p, d).kind = d.kind
           /\ Claimed(p, d).by = p
           /\ "cosignature" \notin DOMAIN Claimed(p, d)
           /\ Claimed(p, d).body_digest = d.body_digest
           /\ Sealed(p, d) = SignedBy(p, Claimed(p, d))
           /\ BodyDigest(Sealed(p, d)) = BodyDigest(d)
           /\ Sealed(p, d).body_digest = d.body_digest
           /\ Sealed(p, d).messages = d.messages
           /\ Sealed(p, d).kind = d.kind
  <1> DEFINE b == Claimed(p, d)
             e == SignedBy(p, b)
  <1>1. d.kind \in DOMAIN Fields /\ DOMAIN d = RecordFields /\ d = [f \in DOMAIN d |-> d[f]]
    BY DEF Shaped, Fields
  <1>2. /\ b = [f \in DOMAIN b |-> b[f]] /\ DOMAIN b = RecordFields
        /\ \A f \in RecordFields \ {"by", "sealed"} : b[f] = d[f]
        /\ b.kind = d.kind /\ b.by = p /\ b.body_digest = d.body_digest
    BY <1>1 DEF RecordFields, Claimed
  <1> HIDE DEF b
  <1>3. Shaped(b) /\ "cosignature" \notin DOMAIN b
    BY <1>1, <1>2 DEF Shaped, Fields, RecordFields
  <1>4. \A f \in RecordFields \ {"signature"} : e[f] = b[f]
    BY <1>2, <1>3, SignedByKeeps
  <1>5. \A f \in RecordFields \ {"by", "sealed", "signature"} : e[f] = d[f]
    BY <1>2, <1>4
  <1> HIDE DEF e
  <1>6. BodyDigest(e) = BodyDigest(d)
    BY <1>5 DEF BodyDigest, RecordBody, RecordFields
  <1>7. e.body_digest = d.body_digest /\ e.messages = d.messages /\ e.kind = d.kind
    BY <1>5 DEF RecordFields
  <1>8. Sealed(p, d) = e
    BY DEF Sealed, Claimed, e, b
  <1> QED BY <1>2, <1>3, <1>6, <1>7, <1>8 DEF e, b

LEMMA BuildShaped ==
    ASSUME NEW p, NEW t
    PROVE  /\ Shaped(Build(p, t)) /\ Build(p, t).kind = "SealedSessionRecord"
           /\ Build(p, t).signature = Unsigned
           /\ Build(p, t).body_digest = BodyDigest(Build(p, t))
           /\ Build(p, t).messages = Entries(t)
  <1> DEFINE x == Exported(p, t)
             b == [x EXCEPT !.body_digest = BodyDigest(x)]
  <1>1. /\ x = [f \in DOMAIN x |-> x[f]] /\ DOMAIN x = RecordFields
        /\ x.kind = "SealedSessionRecord" /\ x.signature = Unsigned
        /\ x.messages = Entries(t)
    BY DEF Exported, RecordFields
  <1> HIDE DEF x
  <1>2. /\ b = [f \in DOMAIN b |-> b[f]] /\ DOMAIN b = RecordFields
        /\ b.body_digest = BodyDigest(x)
        /\ \A f \in RecordFields \ {"body_digest"} : b[f] = x[f]
    BY <1>1 DEF RecordFields
  <1>3. b = Build(p, t)
    BY DEF Build, x
  <1> HIDE DEF b
  <1>4. /\ b.kind = "SealedSessionRecord" /\ b.signature = Unsigned
        /\ b.messages = Entries(t)
    BY <1>1, <1>2 DEF RecordFields
  <1>5. BodyDigest(b) = BodyDigest(x)
    BY <1>2 DEF BodyDigest, RecordBody, RecordFields
  <1> QED BY <1>2, <1>3, <1>4, <1>5 DEF Shaped, Fields

LEMMA ExportKeeps ==
    ASSUME Inv, SessionExport
    PROVE  Inv'
  <1> PICK t \in ExportTerms :
        \/ Make(None, Build(None, t), t)
        \/ \E p \in Parties : Make(p, Sealed(p, Build(p, t)), t)
    BY DEF SessionExport
  <1>1. t # None
    BY EvidenceAssumption
  <1>2. CASE Make(None, Build(None, t), t)
    <2> DEFINE d == Build(None, t)
    <2>1. /\ Shaped(d) /\ d.kind = "SealedSessionRecord" /\ d.signature = Unsigned
          /\ d.body_digest = BodyDigest(d) /\ d.messages = Entries(t)
      BY BuildShaped
    <2> HIDE DEF d
    <2>2. WellFormed(d)
      BY <2>1 DEF Shaped, WellFormed
    <2>3. \A g \in Signatures \cap DOMAIN d : Known(d[g])
      BY <2>1 DEF Shaped, Fields, RecordFields, Signatures, Known
    <2>4. Honest([by |-> None, doc |-> d, from |-> t])
      BY <2>1 DEF Honest, Export, Fields
    <2>5. Good(None, d, t)
      BY <1>1, <2>2, <2>3, <2>4 DEF Good
    <2> QED BY <1>2, <2>5, MakeKeeps DEF d
  <1>3. ASSUME NEW p \in Parties, Make(p, Sealed(p, Build(p, t)), t)
        PROVE  Inv'
    <2> DEFINE d == Build(p, t)
               b == Claimed(p, d)
    <2>1. /\ Shaped(d) /\ d.kind = "SealedSessionRecord"
          /\ d.body_digest = BodyDigest(d) /\ d.messages = Entries(t)
      BY BuildShaped
    <2> HIDE DEF d
    <2>2. /\ Shaped(b) /\ b.kind = d.kind /\ b.by = p /\ "cosignature" \notin DOMAIN b
          /\ Sealed(p, d) = SignedBy(p, b)
          /\ BodyDigest(Sealed(p, d)) = BodyDigest(d)
          /\ Sealed(p, d).body_digest = d.body_digest
          /\ Sealed(p, d).messages = d.messages /\ Sealed(p, d).kind = d.kind
      BY <2>1, SealedKeeps
    <2> HIDE DEF b
    <2>3. Honest([by |-> p, doc |-> SignedBy(p, b), from |-> t])
      BY <2>1, <2>2 DEF Honest, Export, Fields
    <2>4. Good(p, SignedBy(p, b), t)
      BY <1>1, <2>1, <2>2, <2>3, SignedGood
    <2> QED BY <1>3, <2>2, <2>4, MakeKeeps DEF d
  <1> QED BY <1>2, <1>3

LEMMA SealKeeps ==
    ASSUME Inv, NEW p \in Parties, NEW d \in docs, Seal(p, d)
    PROVE  Inv'
  <1> DEFINE b == Claimed(p, d)
  <1>1. d.kind = "SealedSessionRecord" /\ Make(p, Sealed(p, d), None)
    BY DEF Seal
  <1>2. Shaped(d)
    BY DEF Inv, TypeOK, WellFormed, Shaped
  <1>3. /\ Shaped(b) /\ b.kind = d.kind /\ b.by = p /\ "cosignature" \notin DOMAIN b
        /\ b.body_digest = d.body_digest /\ Sealed(p, d) = SignedBy(p, b)
        /\ Sealed(p, d).kind = d.kind
    BY <1>1, <1>2, SealedKeeps
  <1> HIDE DEF b
  <1>4. \E m \in made : Export(m) /\ b.body_digest = m.doc.body_digest
    BY <1>1, <1>3 DEF Inv, DigestsExported, Files
  <1>5. Honest([by |-> p, doc |-> SignedBy(p, b), from |-> None])
    BY <1>1, <1>3 DEF Honest, Export, Fields
  <1>6. Good(p, SignedBy(p, b), None)
    BY <1>1, <1>3, <1>4, <1>5, SignedGood
  <1> QED BY <1>1, <1>3, <1>6, MakeKeeps

-----------------------------------------------------------------------------
(***************************************************************************)
(* The theorems.                                                           *)
(***************************************************************************)
LEMMA InvInvariant == Spec => []Inv
  <1>1. Init => Inv
    BY EvidenceAssumption
       DEF Init, Inv, TypeOK, SignaturesKnown, DigestsExported, MadeHonestly, Files
  <1>2. Inv /\ [Next]_vars => Inv'
    <2> SUFFICES ASSUME Inv, [Next]_vars PROVE Inv'
      OBVIOUS
    <2>1. CASE UNCHANGED vars
      BY <2>1 DEF vars, Inv, TypeOK, SignaturesKnown, DigestsExported, MadeHonestly,
             WellFormed, Files, Known, Honest, Export
    <2>2. CASE Tick
      BY <2>2, EvidenceAssumption
         DEF Tick, Inv, TypeOK, SignaturesKnown, DigestsExported, MadeHonestly,
             WellFormed, Files, Known, Honest, Export
    <2>3. ASSUME NEW p \in Parties, AttestSign(p) PROVE Inv'
      BY <2>3, AttestSignKeeps
    <2>4. ASSUME NEW p \in Parties, SessionAbort(p) PROVE Inv'
      BY <2>4, AbortKeeps
    <2>5. ASSUME NEW p \in Parties, ReceiptSign(p) PROVE Inv'
      BY <2>5, ReceiptKeeps
    <2>6. ASSUME NEW p \in Parties, WireBoundSign(p) PROVE Inv'
      BY <2>6, WireBoundKeeps
    <2>7. ASSUME NEW p \in Parties, NEW d \in docs, CoSign(p, d) PROVE Inv'
      BY <2>7, CoSignKeeps
    <2>8. ASSUME NEW p \in Parties, NEW d \in docs, Seal(p, d) PROVE Inv'
      BY <2>8, SealKeeps
    <2>9. CASE SessionExport
      BY <2>9, ExportKeeps
    <2>10. ASSUME NEW d \in docs, NEW e \in docs, NEW f \in DOMAIN d, NEW g \in DOMAIN e,
                  Edit(d, f, e, g)
           PROVE  Inv'
      BY <2>10, EditKeeps
    <2>11. ASSUME NEW d \in Files("SealedSessionRecord"), NEW e \in Files("SealedSessionRecord"),
                  NEW i \in DOMAIN d.messages, NEW j \in DOMAIN e.messages,
                  NEW f \in EntryFields, EditEntry(d, i, e, j, f)
           PROVE  Inv'
      BY <2>11, EditEntryKeeps
    <2> QED BY <2>1, <2>2, <2>3, <2>4, <2>5, <2>6, <2>7, <2>8, <2>9, <2>10, <2>11 DEF Next
  <1> QED BY <1>1, <1>2, PTL DEF Spec

\* A signature of somebody is one that somebody made.
LEMMA HeldWasMade ==
    ASSUME Inv, NEW d \in docs, NEW g \in Signatures \cap DOMAIN d, NEW q,
           q # None, d[g] = Signature(q, d)
    PROVE  \E m \in made : /\ m.by = q /\ m.doc.kind = d.kind
                           /\ \A f \in Body[d.kind] : Covered(m.doc, f) = Covered(d, f)
  <1>1. d[g] # Unsigned
    BY DEF Signature, Unsigned
  <1>2. PICK m \in made : d[g] = Signature(m.by, m.doc)
    BY <1>1 DEF Inv, SignaturesKnown, Known
  <1>3. d.kind \in DOMAIN Fields /\ m.doc.kind \in DOMAIN Fields
    BY DEF Inv, TypeOK, WellFormed, MadeHonestly, Honest
  <1>4. Signature(q, d) = Signature(m.by, m.doc)
    BY <1>2
  <1>5. /\ q = m.by /\ d.kind = m.doc.kind
        /\ \A f \in Body[d.kind] : Covered(d, f) = Covered(m.doc, f)
    BY <1>3, <1>4, SignatureBinds
  <1> QED BY <1>5

\* The same of the signature of the document.
LEMMA VerifiedWasMade ==
    ASSUME Inv, NEW d \in docs, SignatureHolds(d), d.by # None
    PROVE  \E m \in made : /\ m.by = d.by /\ m.doc.kind = d.kind
                           /\ \A f \in Body[d.kind] : Covered(m.doc, f) = Covered(d, f)
  <1>1. "signature" \in Signatures \cap DOMAIN d
    BY BodyUnsigned DEF Inv, TypeOK, WellFormed, Signatures
  <1>2. d["signature"] = Signature(d.by, d)
    BY DEF SignatureHolds
  <1> QED BY <1>1, <1>2, HeldWasMade

\* Every file has the form of its type: Spec keeps TypeOK.
THEOREM EvidenceTypeCorrect == Spec => []TypeOK
  <1>1. Inv => TypeOK
    BY DEF Inv
  <1> QED BY <1>1, InvInvariant, PTL

\* What attest-verify accepts was signed by the issuer and by the co-signer.
THEOREM AttestationsGenuine == Spec => []AttestationsStand
  <1>1. Inv => AttestationsStand
    <2> SUFFICES ASSUME Inv, NEW d \in Files("OverlapAttestation"), NEW p \in Parties,
                        NEW sid \in SessionIds \cup {None}, AttestVerify(d, p, sid, TRUE)
                 PROVE  /\ \E m \in made :
                             /\ m.by = p /\ Agree(m.doc, d, AttestationClaim)
                             /\ clock < m.doc.expires
                             /\ Expects(sid, m.doc.sid)
                        /\ IsDualSigned(d) => Vouched(d.cosigner, d, AttestationClaim)
      BY DEF AttestationsStand
    <2>1. d \in docs /\ d.kind = "OverlapAttestation"
      BY DEF Files
    <2>2. Body[d.kind] = AttestationClaim \cup {"kind"}
      BY <2>1 DEF Body, AttestationBody, AttestationClaim
    <2>3. p = d.by /\ SignatureHolds(d) /\ clock < d.expires /\ Expects(sid, d.sid)
      BY EvidenceAssumption DEF AttestVerify, AttestationHolds, Expects
    <2>4. PICK m \in made : m.by = p /\ Agree(m.doc, d, AttestationClaim)
      <3>1. d.by # None
        BY <2>1, EvidenceAssumption DEF Inv, TypeOK, WellFormed
      <3>2. PICK m \in made : /\ m.by = d.by /\ m.doc.kind = d.kind
                             /\ \A f \in Body[d.kind] : Covered(m.doc, f) = Covered(d, f)
        BY <2>1, <2>3, <3>1, VerifiedWasMade
      <3> QED BY <2>2, <2>3, <3>2 DEF Agree, Covered, AttestationClaim
    <2>5. clock < m.doc.expires /\ Expects(sid, m.doc.sid)
      BY <2>3, <2>4 DEF Agree, AttestationClaim
    <2>6. ASSUME IsDualSigned(d) PROVE Vouched(d.cosigner, d, AttestationClaim)
      <3>1. d["cosignature"] = Signature(d.cosigner, d) /\ d.cosigner # None
        BY <2>6 DEF AttestVerify, VerifyCoSignature, IsDualSigned
      <3>2. "cosignature" \in Signatures \cap DOMAIN d
        BY <2>1 DEF Inv, TypeOK, WellFormed, Signatures, Fields, AttestationFields
      <3>3. PICK n \in made : /\ n.by = d.cosigner /\ n.doc.kind = d.kind
                             /\ \A f \in Body[d.kind] : Covered(n.doc, f) = Covered(d, f)
        BY <2>1, <3>1, <3>2, HeldWasMade
      <3> QED BY <2>2, <3>3 DEF Vouched, Agree, Covered, AttestationClaim
    <2> QED BY <2>4, <2>5, <2>6
  <1> QED BY <1>1, InvInvariant, PTL

\* What abort-verify accepts was signed by the issuer, for the session, with
\* the reason; and with the rest, but for a text that is read in another way.
THEOREM AbortsGenuine == Spec => []AbortsStand
  <1>1. Inv => AbortsStand
    <2> SUFFICES ASSUME Inv, NEW d \in Files("AbortReceipt"), NEW p \in Parties,
                        NEW sid \in SessionIds, AbortVerify(d, p, sid)
                 PROVE  \E m \in made :
                          /\ m.by = p /\ Agree(m.doc, d, AbortClaim) /\ m.doc.sid = sid
                          /\ \/ ReadOtherwise(d, m.doc)
                             \/ /\ Agree(m.doc, d, AbortEnding)
                                /\ \A t \in {e.transcript : e \in Files("AbortReceipt")} :
                                     MatchesTranscript(d, t) => m.doc.transcript \in {None, t}
      BY DEF AbortsStand
    <2>1. d \in docs /\ d.kind = "AbortReceipt"
      BY DEF Files
    <2>2. Body[d.kind] = {"kind", "sid", "by", "reason", "tail"}
      BY <2>1 DEF Body, AbortBody
    <2>3. p = d.by /\ SignatureHolds(d) /\ sid = d.sid /\ d.by # None
      BY EvidenceAssumption DEF AbortVerify, Expects
    <2>4. PICK m \in made : /\ m.by = d.by /\ m.doc.kind = d.kind
                           /\ \A f \in Body[d.kind] : Covered(m.doc, f) = Covered(d, f)
      BY <2>1, <2>3, VerifiedWasMade
    <2>5. Agree(m.doc, d, AbortClaim) /\ m.doc.sid = sid
      BY <2>2, <2>3, <2>4 DEF Agree, Covered, AbortClaim
    <2>6. PayloadEnd(d) = PayloadEnd(m.doc)
      BY <2>2, <2>4 DEF Covered
    <2>7. Ending(d) = Ending(m.doc) \/ ReadOtherwise(d, m.doc)
      BY <2>6, EndsMeet
    <2>8. Ending(d) = Ending(m.doc) =>
             Agree(m.doc, d, AbortEnding) /\ m.doc.transcript = d.transcript
      BY <2>4 DEF Ending, Agree, AbortEnding
    <2> QED BY <2>3, <2>4, <2>5, <2>7, <2>8 DEF MatchesTranscript
  <1> QED BY <1>1, InvInvariant, PTL

\* A receipt that verifies was signed as it stands, and a wire-bound one that
\* is accepted with its messages was made from their elements and nonces.
THEOREM ReceiptsGenuine == Spec => []ReceiptsStand
  <1>1. Inv => ReceiptsStand
    <2> SUFFICES ASSUME Inv PROVE ReceiptsStand
      OBVIOUS
    <2>1. ASSUME NEW d \in Files("IntersectionReceipt"), ReceiptVerify(d, None, None)
          PROVE  Vouched(d.by, d, ReceiptClaim)
      <3>1. d \in docs /\ d.kind = "IntersectionReceipt"
        BY DEF Files
      <3>2. d.by # None /\ SignatureHolds(d) /\ Body[d.kind] = ReceiptClaim
        BY <2>1, <3>1, EvidenceAssumption
           DEF Inv, TypeOK, WellFormed, ReceiptVerify, Body, ReceiptBody, ReceiptClaim
      <3>3. PICK m \in made : /\ m.by = d.by /\ m.doc.kind = d.kind
                             /\ \A f \in Body[d.kind] : Covered(m.doc, f) = Covered(d, f)
        BY <3>1, <3>2, VerifiedWasMade
      <3> QED BY <3>2, <3>3 DEF Vouched, Agree, Covered, ReceiptClaim
    <2>2. ASSUME NEW d \in Files("WireBoundReceipt"), NEW offer \in OfferFiles,
                 NEW reply \in ReplyFiles,
                 WireBoundVerify(d, None, offer, reply, None, None)
          PROVE  \E m \in made :
                    /\ m.by = d.by /\ Agree(m.doc, d, WireClaim)
                    /\ m.from.offer.elems = offer.elems
                    /\ m.from.reply.elems = reply.elems
                    /\ m.from.reply.doubly = reply.doubly
                    /\ m.from.offer.nonce \in {None, d.inonce}
                    /\ m.from.reply.nonce \in {None, d.rnonce}
      <3>1. d \in docs /\ d.kind = "WireBoundReceipt"
        BY DEF Files
      <3>2. d.by # None /\ SignatureHolds(d) /\ Body[d.kind] = WireClaim \cup {"kind"}
        BY <2>2, <3>1, EvidenceAssumption
           DEF Inv, TypeOK, WellFormed, WireBoundVerify, Body, WireReceiptBody,
               ReceiptClaim, WireClaim
      <3>3. PICK m \in made : m.by = d.by /\ Agree(m.doc, d, WireClaim)
        <4>1. PICK m \in made : /\ m.by = d.by /\ m.doc.kind = d.kind
                               /\ \A f \in Body[d.kind] : Covered(m.doc, f) = Covered(d, f)
          BY <3>1, <3>2, VerifiedWasMade
        <4> QED BY <3>2, <4>1 DEF Agree, Covered, WireClaim, ReceiptClaim
      <3>4. /\ m.doc.kind = "WireBoundReceipt"
            /\ m.doc.transcript = d.transcript
            /\ m.doc.inonce = d.inonce /\ m.doc.rnonce = d.rnonce
        BY <3>1, <3>3 DEF Agree, WireClaim
      <3>5. d.transcript = TranscriptDigest(d.sid, d.inonce, d.rnonce, offer.elems,
                                            reply.elems, reply.doubly)
        BY <2>2, EvidenceAssumption DEF WireBoundVerify, TranscriptMatches
      <3>6. /\ m.doc.transcript = TranscriptDigest(m.doc.sid, m.doc.inonce, m.doc.rnonce,
                   m.from.offer.elems, m.from.reply.elems, m.from.reply.doubly)
            /\ m.from.offer.nonce \in {None, m.doc.inonce}
            /\ m.from.reply.nonce \in {None, m.doc.rnonce}
        BY <3>4 DEF Inv, MadeHonestly, Honest
      <3>7. /\ m.from.offer.elems = offer.elems
            /\ m.from.reply.elems = reply.elems
            /\ m.from.reply.doubly = reply.doubly
        BY <3>4, <3>5, <3>6 DEF TranscriptDigest
      <3> QED BY <3>3, <3>4, <3>6, <3>7
    <2> QED BY <2>1, <2>2 DEF ReceiptsStand
  <1> QED BY <1>1, InvInvariant, PTL

\* A record that session-verify accepts reports what some export did, so far as
\* its digest goes.
THEOREM RecordsGenuine == Spec => []RecordsStand
  <1>1. Inv => RecordsStand
    <2> SUFFICES ASSUME Inv, NEW d \in Files("SealedSessionRecord"), NEW p \in Parties,
                        SessionVerify(d, p)
                 PROVE  /\ Vouched(p, d, {"body_digest"})
                        /\ \E m \in made :
                             /\ Agree(m.doc, d, RecordClaim) /\ m.from # None
                             /\ Digested(d.messages) = Digested(Entries(m.from))
      BY DEF RecordsStand
    <2>1. d \in docs /\ d.kind = "SealedSessionRecord"
      BY DEF Files
    <2>2. p = d.by /\ p # None /\ SignatureHolds(d) /\ d.body_digest = BodyDigest(d)
      BY EvidenceAssumption DEF SessionVerify, VerifySeal, VerifyIntegrity, Expects
    <2>3. Vouched(p, d, {"body_digest"})
      <3>1. Body[d.kind] = {"kind", "body_digest"}
        BY <2>1 DEF Body
      <3>2. PICK m \in made : /\ m.by = d.by /\ m.doc.kind = d.kind
                             /\ \A f \in Body[d.kind] : Covered(m.doc, f) = Covered(d, f)
        BY <2>1, <2>2, VerifiedWasMade
      <3> QED BY <2>2, <3>1, <3>2 DEF Vouched, Agree, Covered
    <2>4. PICK m \in made : Export(m) /\ d.body_digest = m.doc.body_digest
      BY DEF Inv, DigestsExported
    <2>5. /\ m.doc.kind = d.kind /\ m.from # None /\ m.doc.messages = Entries(m.from)
          /\ BodyDigest(m.doc) = BodyDigest(d)
      BY <2>1, <2>2, <2>4 DEF Inv, MadeHonestly, Honest, Export
    <2>6. \A f \in RecordBody : BodyDigest(m.doc)[f] = BodyDigest(d)[f]
      BY <2>5
    <2>7. \A f \in RecordBody \ {"messages"} : m.doc[f] = d[f]
      BY <2>6 DEF BodyDigest
    <2>8. Digested(m.doc.messages) = Digested(d.messages)
      BY <2>6 DEF BodyDigest, RecordBody
    <2>9. Agree(m.doc, d, RecordClaim)
      BY <2>5, <2>7 DEF Agree, RecordClaim, RecordBody
    <2> QED BY <2>3, <2>5, <2>8, <2>9
  <1> QED BY <1>1, InvInvariant, PTL
=============================================================================
