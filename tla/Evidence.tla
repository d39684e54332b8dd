------------------------------ MODULE Evidence ------------------------------
(***************************************************************************)
(* The signed documents a session leaves behind: attestations (attest.rs), *)
(* abort receipts (abort.rs), intersection receipts, plain and wire-bound  *)
(* (receipt.rs), and session records (seal.rs), with the commands of       *)
(* main.rs that write and verify them.                                     *)
(*                                                                         *)
(* A document is a JSON file.  Every file is kept, and anybody may copy    *)
(* one and change a field of the copy, its signature included.  A          *)
(* signature is a value of its own: who made it, and the fields it covers  *)
(* with what they held; a hash is what was hashed.                         *)
(***************************************************************************)
EXTENDS Integers, FiniteSets, Sequences

CONSTANTS
    Parties,       \* identities, and the keys of receipt signers
    SessionIds,    \* none the beginning of another: a record hashes its id with no end
    Reread,        \* two readings of the end of what an abort receipt signs
    OfferFiles, ReplyFiles,  \* wire messages: what receipts and records read
    AttestTerms, AbortTerms, ReceiptTerms, WireTerms, ExportTerms,
                   \* arguments of the commands that write documents
    RandomNonces,  \* SessionNonce::generate
    None,
    MaxTime,       \* u64::MAX
    MaxMade,       \* bounds of the documents made, of the files, of the clock
    MaxDocs, MaxClock

VARIABLES
    docs,    \* the files: documents as written, and changed copies
    made,    \* history: documents as their makers wrote them
    clock    \* current_unix_time

vars == <<docs, made, clock>>

-----------------------------------------------------------------------------
(***************************************************************************)
(* The documents.  by is the issuer, the signer or the sealer.             *)
(***************************************************************************)
AttestationFields ==
    {"kind", "sid", "mode", "root_a", "root_b", "iroot", "cardinality",
     "transcript", "issued", "expires", "by", "signature", "cosigner", "cosignature"}

AbortFields ==
    {"kind", "sid", "by", "reason", "text", "issued", "transcript", "signature"}

ReceiptFields ==
    {"kind", "root_a", "root_b", "commitment", "mode", "by", "signature"}

WireReceiptFields ==
    ReceiptFields \cup {"sid", "transcript", "inonce", "rnonce"}

\* The receipt that a record may carry is None in every record of main.rs.
RecordFields ==
    {"kind", "sid", "status", "started", "exported", "local", "peer", "messages",
     "transcript", "inonce", "rnonce", "body_digest", "by", "sealed", "signature"}

Fields ==
    [OverlapAttestation |-> AttestationFields, AbortReceipt |-> AbortFields,
     IntersectionReceipt |-> ReceiptFields, WireBoundReceipt |-> WireReceiptFields,
     SealedSessionRecord |-> RecordFields]

\* The text of an abort is hashed with neither its length nor an end before 8
\* bytes of time and 1 or 33 of an optional digest: a text may end in what reads
\* as a time, a mark and most of a digest.  Reread maps such a text, with its
\* time and no digest, to the shorter text, the time and the digest.
ASSUME RereadAssumption ==
    /\ \A r \in DOMAIN Reread :
         /\ r = [text |-> r.text, issued |-> r.issued, transcript |-> None]
         /\ r.text # None
         /\ Reread[r].text # None /\ Reread[r].transcript # None
    /\ \A r, q \in DOMAIN Reread : Reread[r] = Reread[q] => r = q

ASSUME EvidenceAssumption ==
    /\ None \notin Parties /\ None \notin SessionIds
    /\ None \notin OfferFiles /\ None \notin ReplyFiles /\ None \notin ExportTerms
    /\ \A t \in AttestTerms : t.ttl \in Nat
    /\ MaxTime \in Nat /\ MaxClock \in 0 .. MaxTime
    /\ MaxMade \in Nat /\ MaxDocs \in Nat

-----------------------------------------------------------------------------
(***************************************************************************)
(* What a signature covers.  The domain tag is the kind.                   *)
(***************************************************************************)
\* Mutant: the end of the validity is not signed.
AttestationBodyOpen ==
    {"kind", "sid", "mode", "root_a", "root_b", "iroot", "cardinality",
     "transcript", "issued", "by"}

\* signing_body; a co-signer signs the same.
AttestationBody ==
    {"kind", "sid", "mode", "root_a", "root_b", "iroot", "cardinality",
     "transcript", "issued", "expires", "by"}

\* compute_payload; tail is the end of it, from the text on.
AbortBody == {"kind", "sid", "by", "reason", "tail"}

\* Mutant: an abort with no text and one with a text are signed alike.
PayloadEndNoText(d) == [text |-> None, issued |-> d.issued, transcript |-> d.transcript]

Ending(d) == [text |-> d.text, issued |-> d.issued, transcript |-> d.transcript]

\* The end of the payload, which may be read in two ways.
PayloadEnd(d) == IF Ending(d) \in DOMAIN Reread THEN Reread[Ending(d)] ELSE Ending(d)

\* message_bytes of an IntersectionReceipt, which has no domain tag; the key
\* is not covered.
ReceiptBody == {"root_a", "root_b", "commitment", "mode"}

\* message_bytes of a WireBoundReceipt.
WireReceiptBody ==
    {"kind", "sid", "transcript", "inonce", "rnonce",
     "root_a", "root_b", "commitment", "mode"}

\* Mutant: the status of the session is left out.
RecordBodyNoStatus ==
    {"sid", "started", "local", "peer", "messages", "transcript"}

\* compute_body_digest; neither the nonces nor the time of the export.
RecordBody == {"sid", "status", "started", "local", "peer", "messages", "transcript"}

\* What a digest covers of an entry.
Digested(messages) ==
    [i \in DOMAIN messages |->
        [direction |-> messages[i].direction, hash |-> messages[i].hash]]

BodyDigest(d) ==
    [f \in RecordBody |-> IF f = "messages" THEN Digested(d.messages) ELSE d[f]]

\* The seal of a record is over its digest only.
Body ==
    [OverlapAttestation |-> AttestationBody, AbortReceipt |-> AbortBody,
     IntersectionReceipt |-> ReceiptBody, WireBoundReceipt |-> WireReceiptBody,
     SealedSessionRecord |-> {"kind", "body_digest"}]

Covered(d, f) == IF f = "tail" THEN PayloadEnd(d) ELSE d[f]

Signature(p, d) == [by |-> p, over |-> [f \in Body[d.kind] |-> Covered(d, f)]]

\* No signature yet: zeros, or no value.
Unsigned == [by |-> None, over |-> None]

SignedBy(p, d) == [d EXCEPT !.signature = Signature(p, d)]

-----------------------------------------------------------------------------
(***************************************************************************)
(* Writing documents.  A step adds one file; from is what it was made of.  *)
(***************************************************************************)
Make(p, d, from) ==
    /\ Cardinality(made) < MaxMade
    /\ Cardinality(docs) < MaxDocs
    /\ docs' = docs \cup {d}
    /\ made' = made \cup {[by |-> p, doc |-> d, from |-> from]}
    /\ UNCHANGED clock

\* Mutant: the sum of the time and the duration does not saturate.
ExpiryUnbounded(ttl) == clock + ttl

\* now.saturating_add(ttl_secs)
Expiry(ttl) == IF clock + ttl > MaxTime THEN MaxTime ELSE clock + ttl

Attestation(p, t) ==
    [kind |-> "OverlapAttestation", sid |-> t.sid, mode |-> t.mode,
     root_a |-> t.root_a, root_b |-> t.root_b, iroot |-> None,
     cardinality |-> None, transcript |-> t.transcript, issued |-> clock,
     expires |-> Expiry(t.ttl), by |-> p, signature |-> Unsigned,
     cosigner |-> None, cosignature |-> Unsigned]

SignIntersection(p, t) ==
    SignedBy(p, [Attestation(p, t) EXCEPT !.iroot = t.iroot])

SignCardinality(p, t) ==
    SignedBy(p, [Attestation(p, t) EXCEPT !.cardinality = t.cardinality])

\* attest-sign: the outcome of the mode is required, the other one dropped.
AttestSign(p) ==
    \E t \in AttestTerms :
        \/ /\ t.mode = "Intersection" /\ t.iroot # None
           /\ Make(p, SignIntersection(p, t), None)
        \/ /\ t.mode = "Cardinality" /\ t.cardinality # None
           /\ Make(p, SignCardinality(p, t), None)

\* The signature of the issuer is not verified, nor the expiry; an earlier
\* co-signature is replaced; the co-signer may be the issuer.
CoSign(p, d) ==
    /\ d.kind = "OverlapAttestation"
    /\ Make(p, [d EXCEPT !.cosigner = p, !.cosignature = Signature(p, d)], None)

\* session-abort: AbortReceipt::new.
SessionAbort(p) ==
    \E t \in AbortTerms :
        Make(p, SignedBy(p, [kind |-> "AbortReceipt", sid |-> t.sid, by |-> p,
                             reason |-> t.reason, text |-> t.text, issued |-> clock,
                             transcript |-> t.transcript, signature |-> Unsigned]), None)

\* receipt-sign: ReceiptSigner::sign; the commitment is to the --result.
ReceiptSign(p) ==
    \E t \in ReceiptTerms :
        Make(p, SignedBy(p, [kind |-> "IntersectionReceipt", root_a |-> t.root_a,
                             root_b |-> t.root_b, commitment |-> t.commitment,
                             mode |-> t.mode, by |-> p, signature |-> Unsigned]), None)

\* Mutant: the transcript leaves out the reply.
OfferDigest(sid, inonce, rnonce, offer, masked, doubly) ==
    [sid |-> sid, inonce |-> inonce, rnonce |-> rnonce, offer |-> offer]

TranscriptDigest(sid, inonce, rnonce, offer, masked, doubly) ==
    [sid |-> sid, inonce |-> inonce, rnonce |-> rnonce, offer |-> offer,
     masked |-> masked, doubly |-> doubly]

\* The nonce of a message; for a message of v1 a random one in its place.
NonceOf(m) == IF m.nonce = None THEN RandomNonces ELSE {m.nonce}

WireReceipt(p, t, inonce, rnonce) ==
    SignedBy(p, [kind |-> "WireBoundReceipt", sid |-> t.sid,
                 transcript |-> TranscriptDigest(t.sid, inonce, rnonce, t.offer.elems,
                                                 t.reply.elems, t.reply.doubly),
                 inonce |-> inonce, rnonce |-> rnonce,
                 root_a |-> t.root_a, root_b |-> t.root_b,
                 commitment |-> t.commitment, mode |-> t.mode,
                 by |-> p, signature |-> Unsigned])

\* wire-bound-sign: --session is not compared with the session of the messages.
WireBoundSign(p) ==
    \E t \in WireTerms :
        \E inonce \in NonceOf(t.offer), rnonce \in NonceOf(t.reply) :
            Make(p, WireReceipt(p, t, inonce, rnonce),
                 [offer |-> t.offer, reply |-> t.reply])

-----------------------------------------------------------------------------
(***************************************************************************)
(* Session records.                                                        *)
(***************************************************************************)
\* shown is what else an entry tells of its message: its time, its size and,
\* from the library, its content.
Entry(direction, type, m) ==
    IF m = None THEN <<>>
    ELSE <<[direction |-> direction, type |-> type, hash |-> m, shown |-> m]>>

\* Whoever exports, the offer is sent, the reply received, the reveal sent.
Entries(t) ==
    Entry("Sent", "offer", t.offer) \o Entry("Received", "reply", t.reply)
        \o Entry("Sent", "reveal", t.reveal)

\* compute_transcript_digest: the hashes of the messages stand for elements.
RecordTranscript(sid, inonce, rnonce, messages) ==
    IF inonce = None THEN None
    ELSE TranscriptDigest(sid, inonce, rnonce,
                          [i \in DOMAIN messages |-> messages[i].hash], None, None)

\* The nonces come from the state file: nonce_hex, the session's own, is the
\* initiator's, and initiator_nonce_hex is the responder's.
Exported(p, t) ==
    [kind |-> "SealedSessionRecord", sid |-> t.sid,
     status |-> IF t.completed THEN "Completed" ELSE "InProgress",
     started |-> clock, exported |-> clock, local |-> p, peer |-> None,
     messages |-> Entries(t),
     transcript |-> RecordTranscript(t.sid, t.state.nonce, t.state.initiator_nonce,
                                     Entries(t)),
     inonce |-> t.state.nonce, rnonce |-> t.state.initiator_nonce,
     body_digest |-> None, by |-> None, sealed |-> None, signature |-> Unsigned]

\* SealedSessionBuilder::build
Build(p, t) == [Exported(p, t) EXCEPT !.body_digest = BodyDigest(Exported(p, t))]

\* RecordSeal::seal, whatever the record holds and whoever has sealed it.
Sealed(p, d) == SignedBy(p, [d EXCEPT !.by = p, !.sealed = clock])

\* session-export: with --identity sealed, else with no seal and no local key.
SessionExport ==
    \E t \in ExportTerms :
        \/ Make(None, Build(None, t), t)
        \/ \E p \in Parties : Make(p, Sealed(p, Build(p, t)), t)

Seal(p, d) ==
    /\ d.kind = "SealedSessionRecord"
    /\ Make(p, Sealed(p, d), None)

-----------------------------------------------------------------------------
(***************************************************************************)
(* Files change and time passes.                                           *)
(***************************************************************************)
Files(kind) == {d \in docs : d.kind = kind}

Signatures == {"signature", "cosignature"}

EntryFields == {"direction", "type", "hash", "shown"}

\* A copy of d, with field f taken over from field g of another file.
Edit(d, f, e, g) ==
    /\ Cardinality(docs) < MaxDocs
    /\ f \in DOMAIN d \ {"kind"} /\ g \in DOMAIN e
    /\ \/ f = g /\ d.kind = e.kind
       \/ f \in Signatures /\ g \in Signatures
    /\ docs' = docs \cup {[d EXCEPT ![f] = e[g]]}
    /\ UNCHANGED <<made, clock>>

\* The same of a field of an entry: of the i-th of d, from the j-th of e.
EditEntry(d, i, e, j, f) ==
    /\ Cardinality(docs) < MaxDocs
    /\ docs' = docs \cup {[d EXCEPT !.messages[i][f] = e.messages[j][f]]}
    /\ UNCHANGED <<made, clock>>

Tick ==
    /\ clock < MaxClock
    /\ clock' = clock + 1
    /\ UNCHANGED <<docs, made>>

Init == docs = {} /\ made = {} /\ clock = 0

Next ==
    \/ \E p \in Parties :
         \/ AttestSign(p) \/ SessionAbort(p) \/ ReceiptSign(p) \/ WireBoundSign(p)
         \/ \E d \in docs : CoSign(p, d) \/ Seal(p, d)
    \/ SessionExport
    \/ \E d, e \in docs : \E f \in DOMAIN d, g \in DOMAIN e : Edit(d, f, e, g)
    \/ \E d, e \in Files("SealedSessionRecord") :
         \E i \in DOMAIN d.messages, j \in DOMAIN e.messages, f \in EntryFields :
            EditEntry(d, i, e, j, f)
    \/ Tick

Spec == Init /\ [][Next]_vars

-----------------------------------------------------------------------------
(***************************************************************************)
(* Verifying, with the options of the commands; None is no such option.    *)
(***************************************************************************)
SignatureHolds(d) == d.signature = Signature(d.by, d)

Expects(option, value) == option # None => value = option

\* A missing co-signature is a warning only, and issued is not looked at.
AttestationHolds(d) == clock < d.expires /\ SignatureHolds(d)

IsDualSigned(d) == d.cosigner # None /\ d.cosignature # Unsigned

VerifyCoSignature(d) ==
    IsDualSigned(d) /\ d.cosignature = Signature(d.cosigner, d)

AttestVerify(d, issuer, session, co) ==
    /\ AttestationHolds(d)
    /\ Expects(issuer, d.by)
    /\ Expects(session, d.sid)
    /\ co /\ IsDualSigned(d) => VerifyCoSignature(d)

AbortVerify(d, issuer, session) ==
    SignatureHolds(d) /\ Expects(issuer, d.by) /\ Expects(session, d.sid)

\* verify_transcript: a receipt with no digest matches any.
MatchesTranscript(d, t) == SignatureHolds(d) /\ d.transcript \in {None, t}

\* verify_with_roots, of either receipt; one root alone is ignored.
RootsMatch(d, root_a, root_b) ==
    root_a # None /\ root_b # None => d.root_a = root_a /\ d.root_b = root_b

ReceiptVerify(d, root_a, root_b) == SignatureHolds(d) /\ RootsMatch(d, root_a, root_b)

\* The transcript is recomputed with the session and the nonces of the receipt,
\* if both messages are given.
TranscriptMatches(d, offer, reply) ==
    offer # None /\ reply # None =>
        d.transcript = TranscriptDigest(d.sid, d.inonce, d.rnonce, offer.elems,
                                        reply.elems, reply.doubly)

WireBoundVerify(d, session, offer, reply, root_a, root_b) ==
    /\ SignatureHolds(d)
    /\ Expects(session, d.sid)
    /\ TranscriptMatches(d, offer, reply)
    /\ RootsMatch(d, root_a, root_b)

VerifyIntegrity(d) == d.body_digest = BodyDigest(d)

\* verify_seal_from, or with no expected sealer verify_seal.
VerifySeal(d, sealer) == Expects(sealer, d.by) /\ VerifyIntegrity(d) /\ SignatureHolds(d)

\* session-verify: a record with no seal is accepted unless a sealer is expected.
SessionVerify(d, sealer) ==
    /\ VerifyIntegrity(d)
    /\ IF d.signature # Unsigned THEN VerifySeal(d, sealer) ELSE sealer = None

-----------------------------------------------------------------------------
(***************************************************************************)
(* Properties.                                                             *)
(***************************************************************************)
WellFormed(d) ==
    /\ d = [f \in DOMAIN d |-> d[f]]
    /\ d.kind \in DOMAIN Fields
    /\ DOMAIN d = Fields[d.kind]
    /\ d.by \in Parties \/ d.kind = "SealedSessionRecord"
    /\ d.kind = "OverlapAttestation" => d.expires \in 0 .. MaxTime

\* Every file has the fields of its Rust type, and no time is past u64::MAX.
TypeOK ==
    /\ \A d \in docs : WellFormed(d)
    /\ clock \in 0 .. MaxClock

Agree(d, e, fields) == d.kind = e.kind /\ \A f \in fields : d[f] = e[f]

\* What the documentation says each document binds.
AttestationClaim ==
    {"sid", "mode", "root_a", "root_b", "iroot", "cardinality", "transcript",
     "issued", "expires", "by"}
AbortClaim   == {"sid", "by", "reason"}
AbortEnding  == {"text", "issued", "transcript"}
ReceiptClaim == {"root_a", "root_b", "commitment", "mode"}
WireClaim    == ReceiptClaim \cup {"sid", "transcript", "inonce", "rnonce"}
RecordClaim  == {"sid", "status", "started", "local", "peer", "transcript"}

\* p has put its key to a document that agrees with d.
Vouched(p, d, fields) == \E m \in made : m.by = p /\ Agree(m.doc, d, fields)

\* An attestation that attest-verify accepts from an issuer, however its file
\* was changed, makes a claim that this issuer signed, before the end of the
\* validity it signed; if it is dual-signed, the co-signer it names has signed
\* the very same claim, with the issuer in it (attest.rs, verify and co_sign).
AttestationsStand ==
    \A d \in Files("OverlapAttestation"), p \in Parties, sid \in SessionIds \cup {None} :
        AttestVerify(d, p, sid, TRUE) =>
            /\ \E m \in made :
                 /\ m.by = p /\ Agree(m.doc, d, AttestationClaim)
                 /\ clock < m.doc.expires
                 /\ Expects(sid, m.doc.sid)
            /\ IsDualSigned(d) => Vouched(d.cosigner, d, AttestationClaim)

\* d holds the other reading of what was signed in e.
ReadOtherwise(d, e) ==
    /\ d.text # None /\ e.text # None
    /\ (d.transcript = None) # (e.transcript = None)

\* An abort receipt that abort-verify accepts from an issuer for a session was
\* signed by it for this session and this reason.  So were the text, the time
\* and the transcript it is compared with, unless a text is read as another with
\* a digest or the other way round: there is no text where none was signed, and
\* no other text as long as the digest stays or stays away.
AbortsStand ==
    \A d \in Files("AbortReceipt"), p \in Parties, sid \in SessionIds :
        AbortVerify(d, p, sid) =>
            \E m \in made :
                /\ m.by = p /\ Agree(m.doc, d, AbortClaim) /\ m.doc.sid = sid
                /\ \/ ReadOtherwise(d, m.doc)
                   \/ /\ Agree(m.doc, d, AbortEnding)
                      /\ \A t \in {e.transcript : e \in Files("AbortReceipt")} :
                           MatchesTranscript(d, t) => m.doc.transcript \in {None, t}

\* A receipt that verifies was signed by the key it names, for these roots and
\* this result; and a wire-bound one that is accepted with an offer and a reply
\* was signed from messages with the same elements, and names the nonces of
\* those, where they have one (receipt.rs, "Both parties' nonces: proves
\* freshness and mutual participation").
ReceiptsStand ==
    /\ \A d \in Files("IntersectionReceipt") :
         ReceiptVerify(d, None, None) => Vouched(d.by, d, ReceiptClaim)
    /\ \A d \in Files("WireBoundReceipt"), offer \in OfferFiles, reply \in ReplyFiles :
         WireBoundVerify(d, None, offer, reply, None, None) =>
             \E m \in made :
                 /\ m.by = d.by /\ Agree(m.doc, d, WireClaim)
                 /\ m.from.offer.elems = offer.elems
                 /\ m.from.reply.elems = reply.elems
                 /\ m.from.reply.doubly = reply.doubly
                 /\ m.from.offer.nonce \in {None, d.inonce}
                 /\ m.from.reply.nonce \in {None, d.rnonce}

\* A record that session-verify accepts from a sealer carries a digest that the
\* sealer sealed, and some export agrees with it on the session, its status,
\* start, parties and transcript, and on the direction and the hash of every
\* message, in their order.  Nothing is said of the rest of an entry.
RecordsStand ==
    \A d \in Files("SealedSessionRecord"), p \in Parties :
        SessionVerify(d, p) =>
            /\ Vouched(p, d, {"body_digest"})
            /\ \E m \in made :
                 /\ Agree(m.doc, d, RecordClaim) /\ m.from # None
                 /\ Digested(d.messages) = Digested(Entries(m.from))

\* A record that is exported with an initiator's nonce names the nonce of the
\* offer of the session (seal.rs:143, "Initiator nonce (if v2 protocol)").
RecordsNameNonces ==
    \A m \in made :
        /\ m.doc.kind = "SealedSessionRecord" /\ m.from # None
        /\ m.doc.inonce # None /\ m.from.offer # None
        => m.doc.inonce = m.from.offer.nonce
=============================================================================
