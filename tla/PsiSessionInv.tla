--------------------------- MODULE PsiSessionInv ---------------------------
(***************************************************************************)
(* The inductive invariant behind the safety properties of PsiSession: it  *)
(* says, of every message, which session objects made it and from what,    *)
(* and of every session, which ones its state was computed with.           *)
(***************************************************************************)
EXTENDS PsiSession

Offered(i) == Created(initiator[i]) /\ initiator[i].state # "Created"
Replied(r) == Created(responder[r]) /\ responder[r].state # "Created"

InitiatorIds(i) == MyIds(initiator[i])
ResponderIds(r) == MyIds(responder[r])

OfferFrom(m, i) == Offered(i) /\ m = OfferOf(i, m.signer)

\* The responder, if bound, got an offer of i with the signature it expects.
OfferExpected(r, i) ==
    SignedCallsOnly /\ Bound(responder[r]) => OfferSigned(i, responder[r].setup.peer)

\* m is the reply that r made of the offer of i.
ReplyFrom(m, r, i) ==
    /\ Replied(r) /\ Offered(i)
    /\ m.sid = responder[r].setup.sid /\ m.sid = initiator[i].setup.sid
    /\ m.elems = MaskIds(r, ResponderIds(r))
    /\ m.doubly = MaskAll(r, MaskIds(i, InitiatorIds(i)))
    /\ Answered(r, i) /\ OfferExpected(r, i)
    /\ m.version = 1 => ~(responder[r].setup.fresh /\ initiator[i].setup.fresh)
    /\ m.version = 2 =>
         /\ m.inonce = i /\ m.rnonce = r
         /\ responder[r].inonce = i
         /\ m.deadline \in Deadline
         /\ m.deadline.expires
              < initiator[i].deadline.expires + responder[r].setup.ttl

RevealFrom(m, i) ==
    /\ Complete(initiator[i])
    /\ m.sid = initiator[i].setup.sid
    /\ m.doubly = MaskAll(i, initiator[i].theirs)
    /\ m.version = 2 <=> initiator[i].setup.fresh
    /\ m.version = 2 =>
         m.rnonce = IF initiator[i].rnonce = NoNonce THEN RandomNonce
                    ELSE initiator[i].rnonce

MessagesTraced ==
    \A m \in msgs :
        /\ m.type = "Offer"  => \E i \in Initiators : OfferFrom(m, i)
        /\ m.type = "Reply"  =>
             \E r \in Responders, i \in Initiators : ReplyFrom(m, r, i)
        /\ m.type = "Reveal" => \E i \in Initiators : RevealFrom(m, i)

\* i completed from the reply that r made of the offer of j.
CompletedBy(i, r, j) ==
    /\ Replied(r) /\ Offered(j)
    /\ responder[r].setup.sid = initiator[i].setup.sid
    /\ initiator[j].setup.sid = initiator[i].setup.sid
    /\ initiator[i].theirs = MaskIds(r, ResponderIds(r))
    /\ initiator[i].result =
         ComputeIntersection(MaskAll(r, MaskIds(j, InitiatorIds(j))),
                             MaskAll(i, MaskIds(r, ResponderIds(r))),
                             InitiatorIds(i), initiator[i].setup.mode)
    /\ Answered(r, j) /\ OfferExpected(r, j)
    /\ initiator[i].rnonce # NoNonce =>
         j = i /\ initiator[i].rnonce = r /\ responder[r].inonce = i
    /\ SignedCallsOnly /\ Bound(initiator[i]) =>
         /\ initiator[i].verified = initiator[i].setup.peer
         /\ ReplySigned(r, initiator[i].setup.peer)
         /\ initiator[i].rnonce = NoNonce =>
              ~(responder[r].setup.fresh /\ initiator[j].setup.fresh)

InitiatorsTraced ==
    \A i \in Initiators : Created(initiator[i]) =>
        /\ WellFormed(initiator[i].setup)
        /\ initiator[i].state # "Complete" => initiator[i].rnonce = NoNonce
        /\ Complete(initiator[i]) =>
             \E r \in Responders, j \in Initiators : CompletedBy(i, r, j)

\* r made its reply of the offer of i.
RepliedTo(r, i) ==
    /\ Offered(i)
    /\ initiator[i].setup.sid = responder[r].setup.sid
    /\ responder[r].doubly = MaskAll(r, MaskIds(i, InitiatorIds(i)))
    /\ responder[r].inonce # NoNonce =>
         responder[r].inonce = i /\ responder[r].setup.fresh
    /\ OfferExpected(r, i)
    /\ SignedCallsOnly /\ Bound(responder[r]) =>
         responder[r].verified = responder[r].setup.peer

\* r completed from the reveal of i.
RevealedBy(r, i) ==
    /\ Complete(initiator[i])
    /\ initiator[i].setup.sid = responder[r].setup.sid
    /\ responder[r].result =
         ComputeIntersection(MaskAll(i, initiator[i].theirs),
                             responder[r].doubly, ResponderIds(r),
                             responder[r].setup.mode)
    /\ initiator[i].setup.fresh /\ responder[r].setup.fresh =>
         initiator[i].rnonce = r
    /\ SignedCallsOnly /\ Bound(responder[r]) =>
         RevealSigned(i, responder[r].setup.peer)

RespondersTraced ==
    \A r \in Responders : Created(responder[r]) =>
        /\ WellFormed(responder[r].setup)
        /\ responder[r].state = "Created" => responder[r].inonce = NoNonce
        /\ Replied(r) => \E i \in Initiators : RepliedTo(r, i)
        /\ Complete(responder[r]) => \E i \in Initiators : RevealedBy(r, i)

\* The invariant the proofs use: every message and every session can be traced
\* back, through the calls of session.rs, to the sessions it was made by.
IInv ==
    /\ TypeOK
    /\ MessagesTraced
    /\ InitiatorsTraced
    /\ RespondersTraced
=============================================================================
