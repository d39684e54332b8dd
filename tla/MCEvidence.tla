----------------------------- MODULE MCEvidence -----------------------------
(***************************************************************************)
(* Instances of Evidence for TLC.                                          *)
(***************************************************************************)
EXTENDS Evidence, TLC

CONSTANTS alice, bob

Parties2 == Permutations({alice, bob})

OfferV2 == [sid |-> "s", nonce |-> "n1", elems |-> <<"x">>]
OfferV1 == [sid |-> "s", nonce |-> None, elems |-> <<"y">>]
MCOfferFiles == {OfferV2, OfferV1}

ReplyV2 == [sid |-> "s", nonce |-> "n2", elems |-> <<"z">>, doubly |-> <<"xz">>]
ReplyV1 == [sid |-> "s", nonce |-> None, elems |-> <<"z">>, doubly |-> <<"yz">>]
MCReplyFiles == {ReplyV2, ReplyV1}

AttestTerm(sid, mode, ttl) ==
    [sid |-> sid, mode |-> mode, root_a |-> "A", root_b |-> "B", iroot |-> "I",
     cardinality |-> 1, transcript |-> None, ttl |-> ttl]

\* One expires when the clock has moved, one at the end of time.
MCAttestTerms ==
    {AttestTerm("s", "Intersection", 1), AttestTerm(None, "Cardinality", 9)}

AbortTerm(reason, text, transcript) ==
    [sid |-> "s", reason |-> reason, text |-> text, transcript |-> transcript]

MCAbortTerms ==
    {AbortTerm("timeout", None, "t"), AbortTerm("custom", "whynot", None),
     AbortTerm("custom", "why", "t")}

\* Of the text "whynot" the last 32 bytes read as the most of digest "t".
Ended(text, issued, transcript) ==
    [text |-> text, issued |-> issued, transcript |-> transcript]

MCReread == Ended("whynot", 0, None) :> Ended("why", 1, "t")

MCReceiptTerms ==
    {[root_a |-> "A", root_b |-> B, commitment |-> "I", mode |-> "Intersection"]
        : B \in {"B", "C"}}

WireTerm(sid, offer, reply) ==
    [sid |-> sid, offer |-> offer, reply |-> reply, root_a |-> "A", root_b |-> "B",
     commitment |-> "I", mode |-> "Intersection"]

\* One receipt is signed under a session id the messages do not have.
MCWireTerms == {WireTerm("s", OfferV2, ReplyV2), WireTerm("u", OfferV1, ReplyV1)}

ExportTerm(state, reply, completed) ==
    [sid |-> "s", state |-> state, offer |-> OfferV2, reply |-> reply,
     reveal |-> None, completed |-> completed]

\* The state file of the initiator before the reply, and the responder's.
MCExportTerms ==
    {ExportTerm([nonce |-> "n1", initiator_nonce |-> None], None, FALSE),
     ExportTerm([nonce |-> "n2", initiator_nonce |-> "n1"], ReplyV2, TRUE)}

IsRecord(d) == d.kind = "SealedSessionRecord"

\* Bound: where records lie beside other documents, no more than MaxDocs - 1.
KindsApart ==
    Cardinality(docs) = MaxDocs => \A d, e \in docs : IsRecord(d) = IsRecord(e)
=============================================================================
