------------------------- MODULE PsiSessionTheorems -------------------------
(***************************************************************************)
(* Theorems about PsiSession, for any number of sessions, ids, facts and   *)
(* clock values, and that it implements PsiIdeal.                          *)
(***************************************************************************)
EXTENDS PsiSessionIdeal, MaskingTheorems

\* FactSet::ids lists a set of facts, each once.
LEMMA IdsEnumerate ==
    ASSUME NEW F \in SUBSET Facts
    PROVE  /\ Enumerates(IdsOf[F], F)
           /\ IdsOf[F] \in Seq(Facts)
<1>1. Enumerates(IdsOf[F], F)
  BY IdsAssumption DEF Enumerates
<1>2. QED
  BY <1>1, SeqMonotonic DEF Enumerates

-----------------------------------------------------------------------------
(***************************************************************************)
(* Types.                                                                  *)
(***************************************************************************)
\* A session that was created is a session record.
LEMMA CreatedType ==
    ASSUME TypeOK
    PROVE  /\ \A i \in Initiators :
                Created(initiator[i]) => initiator[i] \in InitiatorSession
           /\ \A r \in Responders :
                Created(responder[r]) => responder[r] \in ResponderSession
BY DEF TypeOK, Created

\* Any clock read is a number.
LEMMA ClockType ==
    ASSUME TypeOK, NEW p \in Initiators \cup Responders
    PROVE  Clock(p) \in Nat
BY SessionAssumption, BoundAssumption DEF TypeOK, Time, Clock

\* A deadline made from the clock is well typed.
LEMMA NewDeadlineType ==
    ASSUME NEW now \in Nat, NEW ttl \in Nat
    PROVE  NewDeadline(now, ttl) \in Deadline
BY DEF NewDeadline, Deadline

\* The three kinds of message are told apart by their type.
LEMMA MessageKinds ==
    ASSUME NEW m \in Message
    PROVE  /\ m.type = "Offer"  => m \in Offer
           /\ m.type = "Reply"  => m \in Reply
           /\ m.type = "Reveal" => m \in Reveal
           /\ m.signer \in Signer
BY DEF Message, Offer, Reply, Reveal

\* The messages the calls return are well typed.
LEMMA OfferType ==
    ASSUME TypeOK, NEW i \in Initiators, Created(initiator[i]),
           NEW signer \in Signer
    PROVE  OfferOf(i, signer) \in Offer
<1>1. initiator[i] \in InitiatorSession
  BY CreatedType
<1>2. MaskIds(i, MyIds(initiator[i])) \in Seq(Element)
  BY <1>1, IdsEnumerate, MaskIdsType, SessionAssumption
     DEF InitiatorSession, Setup, MyIds
<1>3. i \in Nonce /\ NoNonce \in Nonce
  BY DEF Nonce
<1>4. QED
  BY <1>1, <1>2, <1>3 DEF OfferOf, Offer, InitiatorSession, Setup

\* The reveal an initiator makes is a Reveal.
LEMMA RevealType ==
    ASSUME TypeOK, NEW i \in Initiators, Created(initiator[i]),
           NEW signer \in Signer
    PROVE  RevealOf(i, signer) \in Reveal
<1>1. initiator[i] \in InitiatorSession
  BY CreatedType
<1>2. MaskAll(i, initiator[i].theirs) \in Seq(Element)
  BY <1>1, MaskAllType, SessionAssumption DEF InitiatorSession
<1>3. i \in Nonce /\ NoNonce \in Nonce /\ RandomNonce \in Nonce
  BY DEF Nonce
<1>4. NewDeadline(Clock(i), initiator[i].setup.ttl) \in Deadline
  BY <1>1, ClockType, NewDeadlineType DEF InitiatorSession, Setup
<1>5. QED
  BY <1>1, <1>2, <1>3, <1>4 DEF RevealOf, Reveal, InitiatorSession, Setup

\* The reply a responder makes is a Reply.
LEMMA ReplyType ==
    ASSUME TypeOK, NEW r \in Responders, Created(responder[r]),
           NEW m \in Offer, NEW signer \in Signer
    PROVE  ReplyTo(r, m, signer) \in Reply
<1>1. responder[r] \in ResponderSession
  BY CreatedType
<1>2. MaskIds(r, MyIds(responder[r])) \in Seq(Element)
  BY <1>1, IdsEnumerate, MaskIdsType, SessionAssumption
     DEF ResponderSession, Setup, MyIds
<1>3. MaskAll(r, m.elems) \in Seq(Element)
  BY MaskAllType, SessionAssumption DEF Offer
<1>4. r \in Nonce /\ NoNonce \in Nonce /\ m.inonce \in Nonce
  BY DEF Nonce, Offer
<1>5. NewDeadline(Clock(r), responder[r].setup.ttl) \in Deadline
  BY <1>1, ClockType, NewDeadlineType DEF ResponderSession, Setup
<1>6. QED
  BY <1>1, <1>2, <1>3, <1>4, <1>5 DEF ReplyTo, Reply, ResponderSession, Setup

-----------------------------------------------------------------------------
(***************************************************************************)
(* What no step takes back.                                                *)
(***************************************************************************)
InitiatorGrows(s, t) ==
    Created(s) =>
        /\ Created(t)
        /\ t.setup = s.setup /\ t.deadline = s.deadline
        /\ s.state # "Created" => t.state # "Created"
        /\ s.state = "Complete" =>
             /\ t.state = "Complete"
             /\ t.rnonce = s.rnonce /\ t.theirs = s.theirs /\ t.result = s.result
        /\ s.verified = s.setup.peer => t.verified = s.setup.peer

ResponderGrows(s, t) ==
    Created(s) =>
        /\ Created(t)
        /\ t.setup = s.setup
        /\ s.state # "Created" =>
             /\ t.state # "Created"
             /\ t.inonce = s.inonce /\ t.doubly = s.doubly
        /\ s.state = "Complete" => t.state = "Complete" /\ t.result = s.result
        /\ s.verified = s.setup.peer => t.verified = s.setup.peer

Grows ==
    /\ \A i \in Initiators : InitiatorGrows(initiator[i], initiator'[i])
    /\ \A r \in Responders : ResponderGrows(responder[r], responder'[r])
    /\ msgs \subseteq msgs'

\* A step that replaces one initiator session by a grown one.
LEMMA InitiatorUpdate ==
    ASSUME TypeOK, NEW i \in Initiators, NEW t \in InitiatorSession,
           initiator' = [initiator EXCEPT ![i] = t],
           InitiatorGrows(initiator[i], t),
           UNCHANGED <<responder, clock>>,
           msgs \subseteq msgs', msgs' \subseteq Message
    PROVE  TypeOK' /\ Grows
<1>1. TypeOK'
  BY DEF TypeOK
<1>2. \A j \in Initiators : InitiatorGrows(initiator[j], initiator'[j])
  BY DEF TypeOK, InitiatorGrows
<1>3. \A r \in Responders : ResponderGrows(responder[r], responder'[r])
  BY DEF ResponderGrows
<1>4. QED
  BY <1>1, <1>2, <1>3 DEF Grows

\* A step that replaces one responder session by a grown one.
LEMMA ResponderUpdate ==
    ASSUME TypeOK, NEW r \in Responders, NEW t \in ResponderSession,
           responder' = [responder EXCEPT ![r] = t],
           ResponderGrows(responder[r], t),
           UNCHANGED <<initiator, clock>>,
           msgs \subseteq msgs', msgs' \subseteq Message
    PROVE  TypeOK' /\ Grows
<1>1. TypeOK'
  BY DEF TypeOK
<1>2. \A j \in Responders : ResponderGrows(responder[j], responder'[j])
  BY DEF TypeOK, ResponderGrows
<1>3. \A i \in Initiators : InitiatorGrows(initiator[i], initiator'[i])
  BY DEF InitiatorGrows
<1>4. QED
  BY <1>1, <1>2, <1>3 DEF Grows

\* A step that leaves the sessions alone.
LEMMA NoUpdate ==
    ASSUME TypeOK, UNCHANGED <<initiator, responder>>,
           clock' \in [Hosts -> Time],
           msgs \subseteq msgs', msgs' \subseteq Message
    PROVE  TypeOK' /\ Grows
BY DEF TypeOK, Grows, InitiatorGrows, ResponderGrows

\* Creating an initiator keeps the types and takes nothing back.
LEMMA CreateInitiatorGrows ==
    ASSUME TypeOK, NEW i \in Initiators, CreateInitiator(i)
    PROVE  TypeOK' /\ Grows /\ initiator'[i] \in InitiatorSession
<1>1. PICK s \in InitiatorSetups :
        initiator' = [initiator EXCEPT ![i] =
            [setup |-> s, state |-> "Created",
             deadline |-> NewDeadline(Clock(i), s.ttl),
             rnonce |-> NoNonce, theirs |-> <<>>,
             verified |-> NoPeer, result |-> NoResult]]
  BY DEF CreateInitiator
<1> DEFINE t == [setup |-> s, state |-> "Created",
                 deadline |-> NewDeadline(Clock(i), s.ttl),
                 rnonce |-> NoNonce, theirs |-> <<>>,
                 verified |-> NoPeer, result |-> NoResult]
<1>2. t \in InitiatorSession
  <2>1. s \in Setup /\ s.ttl \in Nat
    BY SetupAssumption DEF Setup
  <2>2. NewDeadline(Clock(i), s.ttl) \in Deadline
    BY <2>1, ClockType, NewDeadlineType
  <2>3. <<>> \in Seq(Element) /\ NoNonce \in Nonce
    BY EmptySeq DEF Nonce
  <2>4. QED
    BY <2>1, <2>2, <2>3 DEF InitiatorSession
<1>3. InitiatorGrows(initiator[i], t)
  BY DEF CreateInitiator, InitiatorGrows, Created
<1>4. initiator'[i] = t
  BY <1>1 DEF TypeOK
<1>5. TypeOK' /\ Grows
  BY <1>1, <1>2, <1>3, InitiatorUpdate DEF CreateInitiator, TypeOK
<1>6. QED
  BY <1>2, <1>4, <1>5

\* So does generate_offer.
LEMMA SendOfferGrows ==
    ASSUME TypeOK, NEW i \in Initiators, Created(initiator[i]),
           NEW signer \in Signer, SendOffer(i, signer)
    PROVE  TypeOK' /\ Grows
<1> DEFINE t == [initiator[i] EXCEPT !.state = "AwaitingReply"]
<1>1. initiator' = [initiator EXCEPT ![i] = t]
  BY DEF SendOffer
<1>2. t \in InitiatorSession
  BY CreatedType DEF InitiatorSession
<1>3. InitiatorGrows(initiator[i], t)
  BY <1>2, CreatedType, NullAssumption DEF SendOffer, InitiatorGrows, Created, InitiatorSession
<1>4. OfferOf(i, signer) \in Message
  BY OfferType DEF Message
<1>5. QED
  BY <1>1, <1>2, <1>3, <1>4, InitiatorUpdate DEF SendOffer, TypeOK

\* So does generate_reveal.
LEMMA SendRevealGrows ==
    ASSUME TypeOK, NEW i \in Initiators, Created(initiator[i]),
           NEW signer \in Signer, SendReveal(i, signer)
    PROVE  TypeOK' /\ Grows
<1>1. RevealOf(i, signer) \in Message
  BY RevealType DEF Message
<1>2. QED
  BY <1>1, NoUpdate DEF SendReveal, TypeOK

\* So does process_reply.
LEMMA TakeReplyGrows ==
    ASSUME TypeOK, NEW i \in Initiators, Created(initiator[i]),
           NEW m \in msgs, NEW verified \in Identities \cup {NoPeer},
           initiator[i].verified = initiator[i].setup.peer
               => verified = initiator[i].setup.peer,
           TakeReply(i, m, verified)
    PROVE  TypeOK' /\ Grows
<1> DEFINE s     == initiator[i]
           nonce == IF BothFresh(s, m) THEN m.rnonce ELSE s.rnonce
           res   == ComputeIntersection(m.doubly, MaskAll(i, m.elems), MyIds(s), s.setup.mode)
           t1    == [s EXCEPT !.rnonce = nonce, !.verified = verified]
           t2    == [s EXCEPT !.rnonce = nonce, !.verified = verified,
                              !.state = "Complete", !.theirs = m.elems, !.result = res]
           t     == IF Len(m.doubly) # Len(MyIds(s)) THEN t1 ELSE t2
<1>1. initiator' = [initiator EXCEPT ![i] = t]
  BY DEF TakeReply
<1>2. s \in InitiatorSession /\ m \in Reply
  BY CreatedType, MessageKinds DEF TakeReply, ReplyPasses, TypeOK
<1>3. nonce \in Nonce /\ m.elems \in Seq(Element) /\ m.doubly \in Seq(Element)
  BY <1>2 DEF InitiatorSession, Reply
<1>4. res \in PsiResult
  <2>1. MaskAll(i, m.elems) \in Seq(Element)
    BY <1>3, MaskAllType, SessionAssumption
  <2>2. MyIds(s) \in Seq(Facts) /\ s.setup.mode \in Modes
    BY <1>2, IdsEnumerate DEF MyIds, InitiatorSession, Setup
  <2>3. QED
    BY <1>3, <2>1, <2>2, ResultType
<1> HIDE DEF nonce, res
<1>5. t1 \in InitiatorSession /\ t2 \in InitiatorSession
  BY <1>2, <1>3, <1>4 DEF InitiatorSession
<1>6. s.state = "AwaitingReply"
  BY DEF TakeReply, ReplyPasses
<1>7. InitiatorGrows(s, t1) /\ InitiatorGrows(s, t2)
  BY <1>2, <1>5, <1>6, NullAssumption DEF InitiatorGrows, Created, InitiatorSession
<1>8. QED
  BY <1>1, <1>5, <1>7, InitiatorUpdate DEF TakeReply, TypeOK

\* So does a signed call that fails after the signer was accepted.
LEMMA RejectReplyGrows ==
    ASSUME TypeOK, NEW i \in Initiators, NEW m \in msgs, RejectReplySigned(i, m)
    PROVE  TypeOK' /\ Grows
<1> DEFINE t == [initiator[i] EXCEPT !.verified = Verified(initiator[i], m)]
<1>1. initiator' = [initiator EXCEPT ![i] = t]
  BY DEF RejectReplySigned
<1>2. initiator[i] \in InitiatorSession /\ m.signer \in Signer
  BY CreatedType, MessageKinds DEF RejectReplySigned, TypeOK, Created
<1>3. /\ Verified(initiator[i], m) \in Identities \cup {NoPeer}
      /\ initiator[i].verified = initiator[i].setup.peer
            => Verified(initiator[i], m) = initiator[i].setup.peer
  BY <1>2 DEF RejectReplySigned, SignerAccepted, Verified, Signer, InitiatorSession
<1> HIDE DEF Verified
<1>4. t \in InitiatorSession
  BY <1>2, <1>3 DEF InitiatorSession
<1>5. InitiatorGrows(initiator[i], t)
  BY <1>2, <1>3, <1>4, NullAssumption DEF InitiatorGrows, Created, InitiatorSession
<1>6. QED
  BY <1>1, <1>4, <1>5, InitiatorUpdate DEF RejectReplySigned, TypeOK

\* So does creating a responder.
LEMMA CreateResponderGrows ==
    ASSUME TypeOK, NEW r \in Responders, CreateResponder(r)
    PROVE  TypeOK' /\ Grows /\ responder'[r] \in ResponderSession
<1>1. PICK s \in ResponderSetups :
        responder' = [responder EXCEPT ![r] =
            [setup |-> s, state |-> "Created", inonce |-> NoNonce,
             doubly |-> <<>>, verified |-> NoPeer, result |-> NoResult]]
  BY DEF CreateResponder
<1> DEFINE t == [setup |-> s, state |-> "Created", inonce |-> NoNonce,
                 doubly |-> <<>>, verified |-> NoPeer, result |-> NoResult]
<1>2. t \in ResponderSession
  <2>1. s \in Setup
    BY SetupAssumption
  <2>2. <<>> \in Seq(Element) /\ NoNonce \in Nonce
    BY EmptySeq DEF Nonce
  <2>3. QED
    BY <2>1, <2>2 DEF ResponderSession
<1>3. ResponderGrows(responder[r], t)
  BY DEF CreateResponder, ResponderGrows, Created
<1>4. responder'[r] = t
  BY <1>1 DEF TypeOK
<1>5. TypeOK' /\ Grows
  BY <1>1, <1>2, <1>3, ResponderUpdate DEF CreateResponder, TypeOK
<1>6. QED
  BY <1>2, <1>4, <1>5

\* So does process_offer_and_reply.
LEMMA TakeOfferGrows ==
    ASSUME TypeOK, NEW r \in Responders, Created(responder[r]),
           NEW m \in msgs, NEW signer \in Signer,
           NEW verified \in Identities \cup {NoPeer},
           responder[r].verified = responder[r].setup.peer
               => verified = responder[r].setup.peer,
           TakeOffer(r, m, signer, verified)
    PROVE  TypeOK' /\ Grows
<1> DEFINE s     == responder[r]
           nonce == IF BothFresh(s, m) THEN m.inonce ELSE s.inonce
           twice == MaskAll(r, m.elems)
           t     == [s EXCEPT !.state = "ReplySent", !.inonce = nonce,
                              !.doubly = twice, !.verified = verified]
<1>1. responder' = [responder EXCEPT ![r] = t]
  BY DEF TakeOffer
<1>2. s \in ResponderSession /\ m \in Offer
  BY CreatedType, MessageKinds DEF TakeOffer, OfferPasses, TypeOK
<1>3. nonce \in Nonce /\ twice \in Seq(Element)
  BY <1>2, MaskAllType, SessionAssumption DEF ResponderSession, Offer
<1>4. ReplyTo(r, m, signer) \in Message
  BY <1>2, ReplyType DEF Message
<1> HIDE DEF nonce, twice
<1>5. t \in ResponderSession
  BY <1>2, <1>3 DEF ResponderSession
<1>6. s.state = "Created"
  BY DEF TakeOffer, OfferPasses
<1>7. ResponderGrows(s, t)
  BY <1>2, <1>5, <1>6, NullAssumption DEF ResponderGrows, Created, ResponderSession
<1>8. QED
  BY <1>1, <1>4, <1>5, <1>7, ResponderUpdate DEF TakeOffer, TypeOK

\* So does its signed call when it fails.
LEMMA RejectOfferGrows ==
    ASSUME TypeOK, NEW r \in Responders, NEW m \in msgs, RejectOfferSigned(r, m)
    PROVE  TypeOK' /\ Grows
<1> DEFINE t == [responder[r] EXCEPT !.verified = Verified(responder[r], m)]
<1>1. responder' = [responder EXCEPT ![r] = t]
  BY DEF RejectOfferSigned
<1>2. responder[r] \in ResponderSession /\ m.signer \in Signer
  BY CreatedType, MessageKinds DEF RejectOfferSigned, TypeOK, Created
<1>3. /\ Verified(responder[r], m) \in Identities \cup {NoPeer}
      /\ responder[r].verified = responder[r].setup.peer
            => Verified(responder[r], m) = responder[r].setup.peer
  BY <1>2 DEF RejectOfferSigned, SignerAccepted, Verified, Signer, ResponderSession
<1>4. t \in ResponderSession
  BY <1>2, <1>3 DEF ResponderSession
<1>5. ResponderGrows(responder[r], t)
  BY <1>2, <1>3, <1>4, NullAssumption DEF ResponderGrows, Created, ResponderSession
<1>6. QED
  BY <1>1, <1>4, <1>5, ResponderUpdate DEF RejectOfferSigned, TypeOK

\* So does process_reveal.
LEMMA TakeRevealGrows ==
    ASSUME TypeOK, NEW r \in Responders, Created(responder[r]),
           NEW m \in msgs, TakeReveal(r, m)
    PROVE  TypeOK' /\ Grows
<1> DEFINE s   == responder[r]
           res == ComputeIntersection(m.doubly, s.doubly, MyIds(s), s.setup.mode)
           t   == [s EXCEPT !.state = "Complete", !.result = res]
<1>1. responder' = [responder EXCEPT ![r] = t]
  BY DEF TakeReveal
<1>2. s \in ResponderSession /\ m \in Reveal
  BY CreatedType, MessageKinds DEF TakeReveal, RevealPasses, TypeOK
<1>3. res \in PsiResult
  <2>1. MyIds(s) \in Seq(Facts) /\ s.setup.mode \in Modes
    BY <1>2, IdsEnumerate DEF MyIds, ResponderSession, Setup
  <2>2. m.doubly \in Seq(Element) /\ s.doubly \in Seq(Element)
    BY <1>2 DEF ResponderSession, Reveal
  <2>3. QED
    BY <2>1, <2>2, ResultType
<1> HIDE DEF res
<1>4. t \in ResponderSession
  BY <1>2, <1>3 DEF ResponderSession
<1>5. s.state = "ReplySent"
  BY DEF TakeReveal, RevealPasses
<1>6. ResponderGrows(s, t)
  BY <1>2, <1>4, <1>5, NullAssumption DEF ResponderGrows, Created, ResponderSession
<1>7. QED
  BY <1>1, <1>4, <1>6, ResponderUpdate DEF TakeReveal, TypeOK

\* What process_..._signed stores as the verified peer.
LEMMA VerifiedType ==
    ASSUME TypeOK, NEW m \in msgs
    PROVE  /\ \A i \in Initiators :
                Created(initiator[i]) /\ SignerAccepted(initiator[i], m) =>
                  /\ Verified(initiator[i], m) \in Identities \cup {NoPeer}
                  /\ initiator[i].verified = initiator[i].setup.peer =>
                       Verified(initiator[i], m) = initiator[i].setup.peer
           /\ \A r \in Responders :
                Created(responder[r]) /\ SignerAccepted(responder[r], m) =>
                  /\ Verified(responder[r], m) \in Identities \cup {NoPeer}
                  /\ responder[r].verified = responder[r].setup.peer =>
                       Verified(responder[r], m) = responder[r].setup.peer
<1>1. m.signer \in Signer
  BY MessageKinds DEF TypeOK
<1>2. QED
  BY <1>1, CreatedType
     DEF SignerAccepted, Verified, Signer, InitiatorSession, ResponderSession

\* An identity may sign, and a session's verified peer is an identity or none.
LEMMA SessionIdentities ==
    ASSUME TypeOK
    PROVE  /\ \A i \in Initiators : Created(initiator[i]) =>
                initiator[i].verified \in Identities \cup {NoPeer}
           /\ \A r \in Responders : Created(responder[r]) =>
                responder[r].verified \in Identities \cup {NoPeer}
           /\ Identities \subseteq Signer /\ NoSigner \in Signer
BY CreatedType DEF Signer, InitiatorSession, ResponderSession, Setup

-----------------------------------------------------------------------------
(***************************************************************************)
(* The steps, with the plain and the signed call of each handler in one.   *)
(***************************************************************************)
\* Session s processes m and reports peer verified.
Accepts(s, m, verified) ==
    /\ verified \in Identities \cup {NoPeer}
    /\ s.verified = s.setup.peer => verified = s.setup.peer
    /\ SignedCallsOnly /\ Bound(s) =>
         m.signer # NoSigner /\ m.signer = s.setup.peer /\ verified = s.setup.peer

OfferStep(i) ==
    Created(initiator[i]) /\ \E signer \in Signer : SendOffer(i, signer)

RevealStep(i) ==
    Created(initiator[i]) /\ \E signer \in Signer : SendReveal(i, signer)

TakeReplyStep(i) ==
    /\ Created(initiator[i])
    /\ \E m \in msgs : \E verified :
         Accepts(initiator[i], m, verified) /\ TakeReply(i, m, verified)

TakeOfferStep(r) ==
    /\ Created(responder[r])
    /\ \E m \in msgs : \E signer \in Signer, verified \in Identities \cup {NoPeer} :
         Accepts(responder[r], m, verified) /\ TakeOffer(r, m, signer, verified)

TakeRevealStep(r) ==
    /\ Created(responder[r])
    /\ \E m \in msgs : \E verified :
         Accepts(responder[r], m, verified) /\ TakeReveal(r, m)

\* The steps of an initiator, the plain and the signed calls taken together.
LEMMA InitiatorCases ==
    ASSUME TypeOK, NEW i \in Initiators, InitiatorStep(i)
    PROVE  \/ CreateInitiator(i) \/ OfferStep(i) \/ RevealStep(i) \/ TakeReplyStep(i)
           \/ \E m \in msgs : RejectReplySigned(i, m)
<1>1. CASE CreateInitiator(i)
  BY <1>1
<1>2. CASE GenerateOffer(i) \/ GenerateOfferSigned(i)
  <2>1. OfferStep(i)
    BY <1>2, SessionIdentities
       DEF GenerateOffer, GenerateOfferSigned, OfferStep, Created
  <2>2. QED
    BY <2>1
<1>3. CASE GenerateReveal(i) \/ GenerateRevealSigned(i)
  <2>1. RevealStep(i)
    BY <1>3, SessionIdentities
       DEF GenerateReveal, GenerateRevealSigned, RevealStep, Created
  <2>2. QED
    BY <2>1
<1>4. ASSUME NEW m \in msgs, ProcessReply(i, m)
      PROVE  TakeReplyStep(i)
  BY <1>4, SessionIdentities DEF ProcessReply, TakeReplyStep, Accepts, Created, MayCallPlain
<1>5. ASSUME NEW m \in msgs, ProcessReplySigned(i, m)
      PROVE  TakeReplyStep(i)
  <2>1. Created(initiator[i]) /\ TakeReply(i, m, Verified(initiator[i], m))
    BY <1>5 DEF ProcessReplySigned, Created
  <2>2. Accepts(initiator[i], m, Verified(initiator[i], m))
    <3>1. SignedCallsOnly /\ Bound(initiator[i]) =>
            /\ m.signer # NoSigner /\ m.signer = initiator[i].setup.peer
            /\ Verified(initiator[i], m) = initiator[i].setup.peer
      BY <1>5 DEF ProcessReplySigned, SignerAccepted, Verified
    <3>2. QED
      BY <1>5, <2>1, <3>1, VerifiedType DEF ProcessReplySigned, Accepts
  <2>3. QED
    BY <2>1, <2>2 DEF TakeReplyStep
<1>6. QED
  BY <1>1, <1>2, <1>3, <1>4, <1>5 DEF InitiatorStep

\* The steps of a responder, likewise.
LEMMA ResponderCases ==
    ASSUME TypeOK, NEW r \in Responders, ResponderStep(r)
    PROVE  \/ CreateResponder(r) \/ TakeOfferStep(r) \/ TakeRevealStep(r)
           \/ \E m \in msgs : RejectOfferSigned(r, m)
<1>1. ASSUME NEW m \in msgs, ProcessOfferAndReply(r, m)
      PROVE  TakeOfferStep(r)
  BY <1>1, SessionIdentities
     DEF ProcessOfferAndReply, TakeOfferStep, Accepts, Created, MayCallPlain
<1>2. ASSUME NEW m \in msgs, SignerAccepted(responder[r], m), Created(responder[r])
      PROVE  Accepts(responder[r], m, Verified(responder[r], m))
  <2>1. SignedCallsOnly /\ Bound(responder[r]) =>
          /\ m.signer # NoSigner /\ m.signer = responder[r].setup.peer
          /\ Verified(responder[r], m) = responder[r].setup.peer
    BY <1>2 DEF SignerAccepted, Verified
  <2>2. QED
    BY <1>2, <2>1, VerifiedType DEF Accepts
<1>3. ASSUME NEW m \in msgs, ProcessOfferAndReplySigned(r, m)
      PROVE  TakeOfferStep(r)
  <2>1. PICK identity \in Identities :
          TakeOffer(r, m, identity, Verified(responder[r], m))
    BY <1>3 DEF ProcessOfferAndReplySigned
  <2>2. Created(responder[r]) /\ SignerAccepted(responder[r], m)
    BY <1>3 DEF ProcessOfferAndReplySigned, Created
  <2>3. identity \in Signer
    BY SessionIdentities
  <2>4. QED
    BY <1>2, <2>1, <2>2, <2>3 DEF TakeOfferStep, Accepts
<1>4. ASSUME NEW m \in msgs, ProcessReveal(r, m)
      PROVE  TakeRevealStep(r)
  BY <1>4, SessionIdentities DEF ProcessReveal, TakeRevealStep, Accepts, Created, MayCallPlain
<1>5. ASSUME NEW m \in msgs, ProcessRevealSigned(r, m)
      PROVE  TakeRevealStep(r)
  BY <1>2, <1>5 DEF ProcessRevealSigned, TakeRevealStep, Created
<1>6. QED
  BY <1>1, <1>3, <1>4, <1>5 DEF ResponderStep

\* Every step keeps the types, and takes back nothing a session has stored.
THEOREM StepGrows ==
    ASSUME TypeOK, [Next]_vars
    PROVE  TypeOK' /\ Grows
<1>1. CASE UNCHANGED vars
  BY <1>1, NoUpdate DEF vars, TypeOK
<1>2. ASSUME NEW i \in Initiators, InitiatorStep(i)
      PROVE  TypeOK' /\ Grows
  BY <1>2, InitiatorCases, CreateInitiatorGrows, SendOfferGrows, SendRevealGrows,
     TakeReplyGrows, RejectReplyGrows
     DEF OfferStep, RevealStep, TakeReplyStep, Accepts
<1>3. ASSUME NEW r \in Responders, ResponderStep(r)
      PROVE  TypeOK' /\ Grows
  BY <1>3, ResponderCases, CreateResponderGrows, TakeOfferGrows, TakeRevealGrows,
     RejectOfferGrows
     DEF TakeOfferStep, TakeRevealStep, Accepts
<1>4. ASSUME NEW h \in Hosts, SetClock(h)
      PROVE  TypeOK' /\ Grows
  BY <1>4, NoUpdate DEF SetClock, TypeOK
<1>5. QED
  BY <1>1, <1>2, <1>3, <1>4 DEF Next

\* Sessions, messages and clocks keep the types of session.rs and wire.rs.
THEOREM TypeCorrect == Spec => []TypeOK
<1>1. Init => TypeOK
  BY DEF Init, TypeOK
<1>2. TypeOK /\ [Next]_vars => TypeOK'
  BY StepGrows
<1>3. QED
  BY <1>1, <1>2, PTL DEF Spec

-----------------------------------------------------------------------------
(***************************************************************************)
(* Traces last: what a message or a session was made from stays true of it *)
(* however the sessions go on.                                             *)
(***************************************************************************)
\* What a session has sent stays sent.
LEMMA OfferedLasts ==
    ASSUME Grows
    PROVE  /\ \A i \in Initiators : Offered(i) =>
                /\ Offered(i)'
                /\ initiator'[i].setup = initiator[i].setup
                /\ initiator'[i].deadline = initiator[i].deadline
           /\ \A r \in Responders : Replied(r) =>
                /\ Replied(r)'
                /\ responder'[r].setup = responder[r].setup
                /\ responder'[r].inonce = responder[r].inonce
                /\ responder'[r].doubly = responder[r].doubly
           /\ \A i \in Initiators : Complete(initiator[i]) =>
                /\ Complete(initiator'[i])
                /\ initiator'[i].setup = initiator[i].setup
                /\ initiator'[i].rnonce = initiator[i].rnonce
                /\ initiator'[i].theirs = initiator[i].theirs
                /\ initiator'[i].result = initiator[i].result
BY DEF Grows, InitiatorGrows, ResponderGrows, Offered, Replied, Created, Complete

\* So do its signatures.
LEMMA SignedLasts ==
    ASSUME Grows, NEW p
    PROVE  /\ \A i \in Initiators : Offered(i) =>
                /\ OfferOf(i, p)' = OfferOf(i, p)
                /\ OfferSigned(i, p) => OfferSigned(i, p)'
           /\ \A r \in Responders : Replied(r) /\ ReplySigned(r, p) => ReplySigned(r, p)'
           /\ \A i \in Initiators :
                Complete(initiator[i]) /\ RevealSigned(i, p) => RevealSigned(i, p)'
<1>1. msgs \subseteq msgs'
  BY DEF Grows
<1>2. \A i \in Initiators : Offered(i) => OfferOf(i, p)' = OfferOf(i, p)
  BY OfferedLasts DEF OfferOf, MyIds
<1>3. \A i \in Initiators : Offered(i) /\ OfferSigned(i, p) => OfferSigned(i, p)'
  BY <1>1, <1>2 DEF OfferSigned
<1>4. \A r \in Responders : Replied(r) /\ ReplySigned(r, p) => ReplySigned(r, p)'
  BY <1>1, OfferedLasts DEF ReplySigned, MyIds
<1>5. \A i \in Initiators :
        Complete(initiator[i]) /\ RevealSigned(i, p) => RevealSigned(i, p)'
  BY <1>1, OfferedLasts DEF RevealSigned
<1>6. QED
  BY <1>2, <1>3, <1>4, <1>5

\* What a bound responder knows of an offer stays so.
LEMMA OfferExpectedLasts ==
    ASSUME Grows, NEW r \in Responders, NEW i \in Initiators,
           Replied(r), Offered(i), OfferExpected(r, i)
    PROVE  OfferExpected(r, i)'
<1>1. responder'[r].setup = responder[r].setup
  BY OfferedLasts
<1>2. OfferSigned(i, responder[r].setup.peer) => OfferSigned(i, responder[r].setup.peer)'
  <2>1. PICK p : p = responder[r].setup.peer
    OBVIOUS
  <2>2. OfferSigned(i, p) => OfferOf(i, p) \in msgs'
    BY SignedLasts DEF OfferSigned, Grows
  <2>3. QED
    BY <1>1, <2>1, <2>2, OfferedLasts DEF OfferSigned, OfferOf, MyIds
<1>3. QED
  BY <1>1, <1>2 DEF OfferExpected, OfferSigned, Bound

\* An offer stays traced to its initiator.
LEMMA OfferFromLasts ==
    ASSUME Grows, NEW m, NEW i \in Initiators, OfferFrom(m, i)
    PROVE  OfferFrom(m, i)'
<1>1. Offered(i)'
  BY OfferedLasts DEF OfferFrom
<1>2. OfferOf(i, m.signer)' = OfferOf(i, m.signer)
  BY SignedLasts DEF OfferFrom
<1>3. QED
  BY <1>1, <1>2 DEF OfferFrom

\* A reply stays traced to its responder and initiator.
LEMMA ReplyFromLasts ==
    ASSUME Grows, NEW m, NEW r \in Responders, NEW i \in Initiators, ReplyFrom(m, r, i)
    PROVE  ReplyFrom(m, r, i)'
<1>1. OfferExpected(r, i)'
  BY OfferExpectedLasts DEF ReplyFrom
<1>2. QED
  BY <1>1, OfferedLasts DEF ReplyFrom, Answered, MyIds, InitiatorIds, ResponderIds

\* A reveal stays traced to its initiator.
LEMMA RevealFromLasts ==
    ASSUME Grows, NEW m, NEW i \in Initiators, RevealFrom(m, i)
    PROVE  RevealFrom(m, i)'
BY OfferedLasts DEF RevealFrom

\* What an initiator completed with stays so.
LEMMA CompletedByLasts ==
    ASSUME Grows, NEW i \in Initiators, Complete(initiator[i]),
           NEW r \in Responders, NEW j \in Initiators, CompletedBy(i, r, j)
    PROVE  CompletedBy(i, r, j)'
<1>1. initiator[i].verified = initiator[i].setup.peer =>
        initiator'[i].verified = initiator[i].setup.peer
  BY DEF Grows, InitiatorGrows, Complete, Created
<1>2. OfferExpected(r, j)'
  BY OfferExpectedLasts DEF CompletedBy
<1>3. ReplySigned(r, initiator[i].setup.peer) => ReplySigned(r, initiator[i].setup.peer)'
  <2>1. PICK p : p = initiator[i].setup.peer
    OBVIOUS
  <2>2. p = initiator'[i].setup.peer /\ Replied(r)
    BY <2>1, OfferedLasts DEF CompletedBy
  <2>3. ReplySigned(r, p) => ReplySigned(r, p)'
    BY <2>2, SignedLasts
  <2>4. QED
    BY <2>1, <2>2, <2>3 DEF ReplySigned
<1>4. QED
  BY <1>1, <1>2, <1>3, OfferedLasts
     DEF CompletedBy, Answered, Bound, MyIds, InitiatorIds, ResponderIds

\* Whom a responder answered stays so.
LEMMA RepliedToLasts ==
    ASSUME Grows, NEW r \in Responders, Replied(r), NEW i \in Initiators, RepliedTo(r, i)
    PROVE  RepliedTo(r, i)'
<1>1. responder[r].verified = responder[r].setup.peer =>
        responder'[r].verified = responder[r].setup.peer
  BY DEF Grows, ResponderGrows, Replied
<1>2. OfferExpected(r, i)'
  BY OfferExpectedLasts DEF RepliedTo
<1>3. QED
  BY <1>1, <1>2, OfferedLasts DEF RepliedTo, Bound, MyIds, InitiatorIds

\* Whose reveal a responder completed with stays so.
LEMMA RevealedByLasts ==
    ASSUME Grows, NEW r \in Responders, Complete(responder[r]),
           NEW i \in Initiators, RevealedBy(r, i)
    PROVE  RevealedBy(r, i)'
<1>1. /\ responder'[r].result = responder[r].result
      /\ responder'[r].doubly = responder[r].doubly
      /\ responder'[r].setup = responder[r].setup
  BY DEF Grows, ResponderGrows, Complete, Created
<1>2. RevealSigned(i, responder[r].setup.peer) => RevealSigned(i, responder[r].setup.peer)'
  <2>1. Complete(initiator[i])
    BY DEF RevealedBy
  <2>2. QED
    BY <1>1, <2>1, OfferedLasts DEF RevealSigned, Grows
<1>3. QED
  BY <1>1, <1>2, OfferedLasts DEF RevealedBy, RevealSigned, Bound, MyIds, ResponderIds

-----------------------------------------------------------------------------
(***************************************************************************)
(* The messages a step adds are traced.                                    *)
(***************************************************************************)
\* The offer that generate_offer returns is traced to its session.
LEMMA OfferTraced ==
    ASSUME TypeOK, TypeOK', InitiatorsTraced, NEW i \in Initiators, Created(initiator[i]),
           NEW signer, SendOffer(i, signer), NEW m, m = OfferOf(i, signer)
    PROVE  OfferFrom(m, i)'
<1> DEFINE s == initiator[i]
           t == [s EXCEPT !.state = "AwaitingReply"]
<1>1. s \in InitiatorSession /\ WellFormed(s.setup)
  BY CreatedType DEF InitiatorsTraced
<1>2. initiator'[i] = t /\ t \in InitiatorSession
  BY <1>1 DEF SendOffer, TypeOK, InitiatorSession
<1>3. /\ t.setup = s.setup /\ t.state # "Created" /\ t.deadline = s.deadline
      /\ t # Absent
  BY <1>1, <1>2, NullAssumption DEF InitiatorSession
<1>4. m.signer = signer
  BY DEF OfferOf
<1>5. OfferOf(i, signer)' = OfferOf(i, signer)
  BY <1>2, <1>3 DEF OfferOf, MyIds
<1> HIDE DEF t
<1>6. QED
  BY <1>2, <1>3, <1>4, <1>5 DEF OfferFrom, Offered, Created

\* So is the reveal of generate_reveal.
LEMMA RevealTraced ==
    ASSUME TypeOK, InitiatorsTraced, NEW i \in Initiators, Created(initiator[i]),
           NEW signer, SendReveal(i, signer), NEW m, m = RevealOf(i, signer)
    PROVE  RevealFrom(m, i)'
<1> DEFINE s == initiator[i]
<1>1. s \in InitiatorSession /\ WellFormed(s.setup)
  BY CreatedType DEF InitiatorsTraced
<1>2. /\ m.sid = s.setup.sid /\ m.doubly = MaskAll(i, s.theirs) /\ m.signer = signer
      /\ m.version = 2 <=> s.setup.fresh
      /\ s.setup.fresh =>
           m.rnonce = IF s.rnonce = NoNonce THEN RandomNonce ELSE s.rnonce
  BY DEF RevealOf
<1>3. Complete(s) /\ initiator' = initiator
  BY DEF SendReveal, Complete, Created
<1>4. QED
  BY <1>2, <1>3 DEF RevealFrom

\* So is the reply of process_offer_and_reply, to both sessions.
LEMMA ReplyTraced ==
    ASSUME TypeOK, TypeOK', Grows, MessagesTraced, RespondersTraced,
           NEW r \in Responders, Created(responder[r]),
           NEW offer \in msgs, NEW signer, NEW verified,
           Accepts(responder[r], offer, verified),
           TakeOffer(r, offer, signer, verified),
           NEW m, m = ReplyTo(r, offer, signer)
    PROVE  \E i \in Initiators : ReplyFrom(m, r, i)'
<1> DEFINE s     == responder[r]
           nonce == IF BothFresh(s, offer) THEN offer.inonce ELSE s.inonce
           twice == MaskAll(r, offer.elems)
           t     == [s EXCEPT !.state = "ReplySent", !.inonce = nonce,
                              !.doubly = twice, !.verified = verified]
<1>1. s \in ResponderSession /\ WellFormed(s.setup)
  BY CreatedType DEF RespondersTraced
<1>2. offer \in Offer /\ offer.sid = s.setup.sid
  BY MessageKinds DEF TakeOffer, OfferPasses, TypeOK
<1>3. PICK i \in Initiators : OfferFrom(offer, i)
  BY DEF MessagesTraced, TakeOffer, OfferPasses
<1>4. responder' = [responder EXCEPT ![r] = t]
  BY DEF TakeOffer
<1> HIDE DEF nonce, twice
<1>5. /\ responder'[r].setup = s.setup /\ responder'[r].inonce = nonce
      /\ responder'[r].state = "ReplySent" /\ responder'[r].doubly = twice
  BY <1>1, <1>4 DEF TypeOK, ResponderSession
<1>6. Replied(r)'
  BY <1>1, <1>5 DEF Grows, ResponderGrows, Replied
<1>7. OfferFrom(offer, i)'
  BY <1>3, OfferFromLasts
<1>8. initiator' = initiator
  BY DEF TakeOffer
<1>9. /\ m.sid = s.setup.sid /\ m.elems = MaskIds(r, MyIds(s))
      /\ m.doubly = MaskAll(r, offer.elems) /\ m.signer = signer
      /\ m.version = 2 <=> BothFresh(s, offer)
  BY DEF ReplyTo
<1>10. m.version = 2 =>
         /\ m.inonce = i /\ m.rnonce = r /\ nonce = i
         /\ m.deadline \in Deadline
         /\ m.deadline.expires < initiator[i].deadline.expires + s.setup.ttl
  <2> SUFFICES ASSUME BothFresh(s, offer)
               PROVE  /\ m.inonce = i /\ m.rnonce = r /\ nonce = i
                      /\ m.deadline \in Deadline
                      /\ m.deadline.expires < initiator[i].deadline.expires + s.setup.ttl
    BY <1>9
  <2>1. offer.inonce = i /\ offer.deadline = initiator[i].deadline
    BY <1>3 DEF OfferFrom, OfferOf, BothFresh
  <2>2. m.inonce = i /\ m.rnonce = r /\ m.deadline = NewDeadline(Clock(r), s.setup.ttl)
    BY <2>1 DEF ReplyTo
  <2>3. Clock(r) < initiator[i].deadline.expires
    BY <2>1 DEF TakeOffer, OfferPasses, Validate
  <2>4. Clock(r) \in Nat /\ s.setup.ttl \in Nat /\ initiator[i].deadline.expires \in Nat
    BY <1>1, <1>3, ClockType, CreatedType
       DEF OfferFrom, Offered, ResponderSession, InitiatorSession, Setup, Deadline
  <2>5. m.deadline.expires = Clock(r) + s.setup.ttl
    BY <2>2 DEF NewDeadline
  <2>6. QED
    BY NewDeadlineType, <2>1, <2>2, <2>3, <2>4, <2>5 DEF nonce
<1>11. ~BothFresh(s, offer) => ~(s.setup.fresh /\ initiator[i].setup.fresh)
  BY <1>3 DEF OfferFrom, OfferOf, BothFresh
<1>12. OfferExpected(r, i)'
  <2>1. SUFFICES ASSUME SignedCallsOnly, Bound(s)
                 PROVE  OfferSigned(i, s.setup.peer)'
    BY <1>5 DEF OfferExpected, OfferSigned, Bound
  <2>2. offer = OfferOf(i, s.setup.peer)
    BY <1>3, <2>1 DEF OfferFrom, Accepts
  <2>3. offer \in msgs'
    BY DEF Grows
  <2>4. QED
    BY <1>5, <1>8, <2>2, <2>3 DEF OfferSigned, OfferOf, MyIds
<1>13. /\ offer.sid = initiator[i].setup.sid
       /\ offer.elems = MaskIds(i, InitiatorIds(i))
  BY <1>3 DEF OfferFrom, OfferOf, InitiatorIds
<1>14. Answered(r, i)'
  BY <1>5, <1>8, <1>13 DEF Answered, twice, MyIds, InitiatorIds
<1>15. Offered(i)' /\ m.version \in {1, 2}
  BY <1>7 DEF OfferFrom, ReplyTo
<1>16. ReplyFrom(m, r, i)'
  BY <1>2, <1>5, <1>6, <1>8, <1>9, <1>10, <1>11, <1>12, <1>13, <1>14, <1>15
     DEF ReplyFrom, MyIds, InitiatorIds, ResponderIds
<1>17. QED
  BY <1>16

\* No step adds a message that cannot be traced to the sessions behind it.
LEMMA MessagesStayTraced ==
    ASSUME IInv, [Next]_vars, TypeOK', Grows
    PROVE  MessagesTraced'
<1>1. SUFFICES ASSUME NEW m \in msgs'
               PROVE  \/ m.type = "Offer"  /\ \E i \in Initiators : OfferFrom(m, i)'
                      \/ m.type = "Reply"  /\ \E r \in Responders, i \in Initiators :
                                                  ReplyFrom(m, r, i)'
                      \/ m.type = "Reveal" /\ \E i \in Initiators : RevealFrom(m, i)'
  BY DEF MessagesTraced
<1>2. CASE m \in msgs
  <2>1. m.type \in {"Offer", "Reply", "Reveal"}
    BY <1>2 DEF IInv, TypeOK, Message, Offer, Reply, Reveal
  <2>2. QED
    BY <1>2, <2>1, OfferFromLasts, ReplyFromLasts, RevealFromLasts
       DEF IInv, MessagesTraced
<1>3. ASSUME NEW i \in Initiators, InitiatorStep(i), m \notin msgs
      PROVE  \/ m.type = "Offer"  /\ OfferFrom(m, i)'
             \/ m.type = "Reveal" /\ RevealFrom(m, i)'
  <2>1. CASE OfferStep(i)
    <3>1. PICK signer \in Signer : SendOffer(i, signer)
      BY <2>1 DEF OfferStep
    <3>2. m = OfferOf(i, signer)
      BY <1>1, <1>3, <3>1 DEF SendOffer
    <3>3. OfferFrom(m, i)'
      BY <2>1, <3>1, <3>2, OfferTraced DEF OfferStep, IInv
    <3>4. QED
      BY <3>2, <3>3 DEF OfferOf
  <2>2. CASE RevealStep(i)
    <3>1. PICK signer \in Signer : SendReveal(i, signer)
      BY <2>2 DEF RevealStep
    <3>2. m = RevealOf(i, signer)
      BY <1>1, <1>3, <3>1 DEF SendReveal
    <3>3. RevealFrom(m, i)'
      BY <2>2, <3>1, <3>2, RevealTraced DEF RevealStep, IInv
    <3>4. QED
      BY <3>2, <3>3 DEF RevealOf
  <2>3. CASE CreateInitiator(i)
    BY <1>1, <1>3, <2>3 DEF CreateInitiator
  <2>4. CASE TakeReplyStep(i)
    BY <1>1, <1>3, <2>4 DEF TakeReplyStep, TakeReply
  <2>5. CASE \E n \in msgs : RejectReplySigned(i, n)
    BY <1>1, <1>3, <2>5 DEF RejectReplySigned
  <2>6. QED
    BY <1>3, <2>1, <2>2, <2>3, <2>4, <2>5, InitiatorCases DEF IInv
<1>4. ASSUME NEW r \in Responders, ResponderStep(r), m \notin msgs
      PROVE  m.type = "Reply" /\ \E i \in Initiators : ReplyFrom(m, r, i)'
  <2>1. CASE TakeOfferStep(r)
    <3>1. PICK offer, signer, verified :
            /\ offer \in msgs /\ Accepts(responder[r], offer, verified)
            /\ TakeOffer(r, offer, signer, verified)
      BY <2>1 DEF TakeOfferStep
    <3>2. m = ReplyTo(r, offer, signer)
      BY <1>1, <1>4, <3>1 DEF TakeOffer
    <3>3. \E i \in Initiators : ReplyFrom(m, r, i)'
      BY <2>1, <3>1, <3>2, ReplyTraced DEF TakeOfferStep, IInv
    <3>4. QED
      BY <3>2, <3>3 DEF ReplyTo
  <2>2. CASE CreateResponder(r)
    BY <1>1, <1>4, <2>2 DEF CreateResponder
  <2>3. CASE TakeRevealStep(r)
    BY <1>1, <1>4, <2>3 DEF TakeRevealStep, TakeReveal
  <2>4. CASE \E n \in msgs : RejectOfferSigned(r, n)
    BY <1>1, <1>4, <2>4 DEF RejectOfferSigned
  <2>5. QED
    BY <1>4, <2>1, <2>2, <2>3, <2>4, ResponderCases DEF IInv
<1>5. CASE UNCHANGED msgs
  BY <1>1, <1>2, <1>5
<1>6. QED
  BY <1>1, <1>2, <1>3, <1>4, <1>5 DEF Next, SetClock, vars

-----------------------------------------------------------------------------
(***************************************************************************)
(* The sessions a step changes are traced.                                 *)
(***************************************************************************)
\* The conjunct of InitiatorsTraced for one initiator.
InitiatorTraced(i) ==
    Created(initiator[i]) =>
        /\ WellFormed(initiator[i].setup)
        /\ initiator[i].state # "Complete" => initiator[i].rnonce = NoNonce
        /\ Complete(initiator[i]) =>
             \E r \in Responders, j \in Initiators : CompletedBy(i, r, j)

\* A session that takes a reply is traced to the responder that made the reply
\* and the initiator that made the offer behind it; where the reply is fresh,
\* that is this session, and then the element counts agree as well.
LEMMA TakeReplyTraced ==
    ASSUME IInv, TypeOK', Grows, NEW i \in Initiators, Created(initiator[i]),
           NEW m \in msgs, NEW verified,
           Accepts(initiator[i], m, verified), TakeReply(i, m, verified)
    PROVE  InitiatorTraced(i)'
<1> DEFINE s     == initiator[i]
           nonce == IF BothFresh(s, m) THEN m.rnonce ELSE s.rnonce
           res   == ComputeIntersection(m.doubly, MaskAll(i, m.elems), MyIds(s), s.setup.mode)
           t1    == [s EXCEPT !.rnonce = nonce, !.verified = verified]
           t2    == [s EXCEPT !.rnonce = nonce, !.verified = verified,
                              !.state = "Complete", !.theirs = m.elems, !.result = res]
           t     == IF Len(m.doubly) # Len(MyIds(s)) THEN t1 ELSE t2
<1>1. /\ s \in InitiatorSession /\ WellFormed(s.setup)
      /\ s.state = "AwaitingReply" /\ s.rnonce = NoNonce
  BY CreatedType DEF IInv, InitiatorsTraced, TakeReply, ReplyPasses
<1>2. m.type = "Reply" /\ m.sid = s.setup.sid
  BY DEF TakeReply, ReplyPasses
<1>3. PICK r \in Responders, j \in Initiators : ReplyFrom(m, r, j)
  BY <1>2 DEF IInv, MessagesTraced
<1>4. BothFresh(s, m) =>
        j = i /\ nonce = r /\ responder[r].inonce = i
  BY <1>3 DEF ReplyFrom, TakeReply, ReplyPasses, BothFresh
<1>5. ~BothFresh(s, m) => nonce = NoNonce
  BY <1>1
<1>6. SignedCallsOnly /\ Bound(s) =>
        /\ verified = s.setup.peer
        /\ ReplySigned(r, s.setup.peer)
        /\ ~BothFresh(s, m) => ~(responder[r].setup.fresh /\ initiator[j].setup.fresh)
  <2> SUFFICES ASSUME SignedCallsOnly, Bound(s)
               PROVE  /\ verified = s.setup.peer
                      /\ ReplySigned(r, s.setup.peer)
                      /\ m.version # 2 =>
                           ~(responder[r].setup.fresh /\ initiator[j].setup.fresh)
    BY <1>1 DEF BothFresh, WellFormed, Bound
  <2>1. verified = s.setup.peer /\ m.signer = s.setup.peer
    BY DEF Accepts
  <2>2. ReplySigned(r, s.setup.peer)
    BY <1>2, <1>3, <2>1 DEF ReplySigned, ReplyFrom, ResponderIds
  <2>3. m.version \in {1, 2}
    BY <1>2, MessageKinds DEF IInv, TypeOK, Reply
  <2>4. QED
    BY <1>3, <2>1, <2>2, <2>3 DEF ReplyFrom
<1>7. initiator' = [initiator EXCEPT ![i] = t]
  BY DEF TakeReply
<1> HIDE DEF nonce, res
<1>8. CASE Len(m.doubly) # Len(MyIds(s))
  <2>1. ~BothFresh(s, m)
    <3>1. SUFFICES ASSUME BothFresh(s, m) PROVE Len(m.doubly) = Len(MyIds(s))
      BY <1>8
    <3>2. m.doubly = MaskAll(r, MaskIds(i, MyIds(s)))
      BY <1>3, <1>4, <3>1 DEF ReplyFrom, InitiatorIds
    <3>3. MyIds(s) \in Seq(Facts)
      BY <1>1, IdsEnumerate DEF MyIds, InitiatorSession, Setup
    <3>4. QED
      BY <3>2, <3>3, MaskIdsType, MaskAllType, SessionAssumption
  <2>2. /\ initiator'[i].setup = s.setup /\ initiator'[i].state = "AwaitingReply"
        /\ initiator'[i].rnonce = NoNonce
    BY <1>1, <1>5, <1>7, <1>8, <2>1 DEF IInv, TypeOK, InitiatorSession
  <2>3. QED
    BY <1>1, <2>2 DEF InitiatorTraced, Complete
<1>9. CASE Len(m.doubly) = Len(MyIds(s))
  <2>1. /\ initiator'[i].setup = s.setup /\ initiator'[i].state = "Complete"
        /\ initiator'[i].rnonce = nonce /\ initiator'[i].verified = verified
        /\ initiator'[i].theirs = m.elems /\ initiator'[i].result = res
    BY <1>1, <1>7, <1>9 DEF IInv, TypeOK, InitiatorSession
  <2>2. ReplyFrom(m, r, j)'
    BY <1>3, ReplyFromLasts
  <2>3. responder' = responder
    BY DEF TakeReply
  <2>4. Offered(j) /\ initiator'[j].setup = initiator[j].setup
    BY <1>3, OfferedLasts DEF ReplyFrom
  <2>5. res = ComputeIntersection(MaskAll(r, MaskIds(j, MyIds(initiator[j]))),
                                  MaskAll(i, MaskIds(r, MyIds(responder[r]))),
                                  MyIds(s), s.setup.mode)
    BY <1>3 DEF res, ReplyFrom, InitiatorIds, ResponderIds
  <2>6. SignedCallsOnly /\ Bound(s) => ReplySigned(r, s.setup.peer)'
    BY <1>6, <2>1, <2>3 DEF ReplySigned, MyIds, Grows
  <2>7. (SignedCallsOnly /\ Bound(initiator[i]) =>
           /\ initiator[i].verified = initiator[i].setup.peer
           /\ ReplySigned(r, initiator[i].setup.peer)
           /\ initiator[i].rnonce = NoNonce =>
                ~(responder[r].setup.fresh /\ initiator[j].setup.fresh))'
    <3>1. SUFFICES ASSUME SignedCallsOnly, Bound(s)
                   PROVE  /\ initiator'[i].verified = initiator'[i].setup.peer
                          /\ ReplySigned(r, initiator[i].setup.peer)'
                          /\ initiator'[i].rnonce = NoNonce =>
                               ~(responder'[r].setup.fresh /\ initiator'[j].setup.fresh)
      BY <2>1 DEF Bound
    <3>2. nonce = NoNonce => ~BothFresh(s, m)
      BY <1>4, NullAssumption
    <3>3. QED
      BY <1>6, <2>1, <2>3, <2>4, <2>6, <3>1, <3>2
  <2>8. /\ Replied(r)' /\ Offered(j)'
        /\ Answered(r, j)' /\ OfferExpected(r, j)'
    BY <2>2 DEF ReplyFrom
  <2>9. /\ responder'[r].setup.sid = s.setup.sid
        /\ initiator'[j].setup.sid = s.setup.sid
        /\ m.elems = MaskIds(r, MyIds(responder[r]))
    BY <1>2, <1>3, <2>3, <2>4 DEF ReplyFrom, ResponderIds
  <2>10. nonce # NoNonce => j = i /\ nonce = r /\ responder[r].inonce = i
    BY <1>4, <1>5
  <2>11. CompletedBy(i, r, j)'
    BY <2>1, <2>3, <2>4, <2>5, <2>7, <2>8, <2>9, <2>10
       DEF CompletedBy, InitiatorIds, ResponderIds, MyIds
  <2>12. QED
    BY <1>1, <2>1, <2>11 DEF InitiatorTraced
<1>10. QED
  BY <1>8, <1>9

\* A session a step does not change stays traced.
LEMMA InitiatorUnchangedTraced ==
    ASSUME InitiatorsTraced, Grows, NEW i \in Initiators, initiator'[i] = initiator[i]
    PROVE  InitiatorTraced(i)'
BY CompletedByLasts DEF InitiatorsTraced, InitiatorTraced

\* No step leaves an initiator that cannot be traced to its peers.
LEMMA InitiatorsStayTraced ==
    ASSUME IInv, [Next]_vars, TypeOK', Grows
    PROVE  InitiatorsTraced'
<1>1. SUFFICES ASSUME NEW i \in Initiators PROVE InitiatorTraced(i)'
  BY DEF InitiatorsTraced, InitiatorTraced
<1>2. CASE initiator'[i] = initiator[i]
  BY <1>2, InitiatorUnchangedTraced DEF IInv
<1>3. ASSUME NEW j \in Initiators, InitiatorStep(j), j # i
      PROVE  initiator'[i] = initiator[i]
  BY <1>3, InitiatorCases
     DEF IInv, TypeOK, CreateInitiator, OfferStep, SendOffer, RevealStep, SendReveal,
         TakeReplyStep, TakeReply, RejectReplySigned
<1>4. ASSUME InitiatorStep(i)
      PROVE  InitiatorTraced(i)'
  <2>1. CASE CreateInitiator(i)
    <3>1. PICK s \in InitiatorSetups :
            initiator' = [initiator EXCEPT ![i] =
                [setup |-> s, state |-> "Created",
                 deadline |-> NewDeadline(Clock(i), s.ttl),
                 rnonce |-> NoNonce, theirs |-> <<>>,
                 verified |-> NoPeer, result |-> NoResult]]
      BY <2>1 DEF CreateInitiator
    <3>2. /\ initiator'[i].setup = s /\ initiator'[i].state = "Created"
          /\ initiator'[i].rnonce = NoNonce
      BY <3>1 DEF IInv, TypeOK
    <3>3. QED
      BY <3>2, SetupAssumption DEF InitiatorTraced, Complete
  <2>2. CASE OfferStep(i)
    <3>1. /\ initiator'[i] = [initiator[i] EXCEPT !.state = "AwaitingReply"]
          /\ initiator[i] \in InitiatorSession /\ initiator[i].state = "Created"
      BY <2>2, CreatedType DEF OfferStep, SendOffer, IInv, TypeOK
    <3>2. /\ initiator'[i].setup = initiator[i].setup
          /\ initiator'[i].state = "AwaitingReply"
          /\ initiator'[i].rnonce = initiator[i].rnonce
      BY <3>1 DEF InitiatorSession
    <3>3. QED
      BY <2>2, <3>1, <3>2 DEF InitiatorTraced, IInv, InitiatorsTraced, OfferStep, Complete
  <2>3. CASE RevealStep(i)
    BY <1>2, <2>3 DEF RevealStep, SendReveal
  <2>4. CASE TakeReplyStep(i)
    BY <2>4, TakeReplyTraced DEF TakeReplyStep
  <2>5. ASSUME NEW m \in msgs, RejectReplySigned(i, m)
        PROVE  InitiatorTraced(i)'
    <3>1. /\ initiator'[i] = [initiator[i] EXCEPT !.verified = Verified(initiator[i], m)]
          /\ initiator[i] \in InitiatorSession /\ Created(initiator[i])
      BY <2>5, CreatedType DEF RejectReplySigned, IInv, TypeOK, Created
    <3>2. /\ initiator'[i].setup = initiator[i].setup
          /\ initiator'[i].state = initiator[i].state
          /\ initiator'[i].rnonce = initiator[i].rnonce
      BY <3>1 DEF InitiatorSession
    <3>3. Complete(initiator'[i]) => Complete(initiator[i])
      BY <3>1, <3>2 DEF Complete, Created
    <3>4. QED
      BY <3>1, <3>2, <3>3, CompletedByLasts DEF InitiatorTraced, IInv, InitiatorsTraced
  <2>6. QED
    BY <1>4, <2>1, <2>2, <2>3, <2>4, <2>5, InitiatorCases DEF IInv
<1>5. CASE UNCHANGED initiator
  BY <1>2, <1>5
<1>6. ASSUME NEW r \in Responders, ResponderStep(r)
      PROVE  UNCHANGED initiator
  BY <1>6, ResponderCases
     DEF IInv, CreateResponder, TakeOfferStep, TakeOffer, TakeRevealStep, TakeReveal,
         RejectOfferSigned
<1>7. QED
  BY <1>2, <1>3, <1>4, <1>5, <1>6 DEF Next, SetClock, vars

\* The conjunct of RespondersTraced for one responder.
ResponderTraced(r) ==
    Created(responder[r]) =>
        /\ WellFormed(responder[r].setup)
        /\ responder[r].state = "Created" => responder[r].inonce = NoNonce
        /\ Replied(r) => \E i \in Initiators : RepliedTo(r, i)
        /\ Complete(responder[r]) => \E i \in Initiators : RevealedBy(r, i)

\* A responder that takes an offer is traced to the initiator that made it.
LEMMA TakeOfferTraced ==
    ASSUME IInv, TypeOK', Grows, NEW r \in Responders, Created(responder[r]),
           NEW m \in msgs, NEW signer, NEW verified,
           Accepts(responder[r], m, verified), TakeOffer(r, m, signer, verified)
    PROVE  ResponderTraced(r)'
<1> DEFINE s     == responder[r]
           nonce == IF BothFresh(s, m) THEN m.inonce ELSE s.inonce
           twice == MaskAll(r, m.elems)
           t     == [s EXCEPT !.state = "ReplySent", !.inonce = nonce,
                              !.doubly = twice, !.verified = verified]
<1>1. /\ s \in ResponderSession /\ WellFormed(s.setup)
      /\ s.inonce = NoNonce
      /\ m.type = "Offer" /\ m.sid = s.setup.sid
  BY CreatedType DEF IInv, RespondersTraced, TakeOffer, OfferPasses
<1>2. PICK i \in Initiators : OfferFrom(m, i)
  BY <1>1 DEF IInv, MessagesTraced
<1>3. BothFresh(s, m) => nonce = i /\ s.setup.fresh
  BY <1>2 DEF OfferFrom, OfferOf, BothFresh
<1>4. ~BothFresh(s, m) => nonce = NoNonce
  BY <1>1
<1>5. SignedCallsOnly /\ Bound(s) =>
        verified = s.setup.peer /\ OfferSigned(i, s.setup.peer)
  BY <1>2 DEF Accepts, OfferFrom, OfferSigned
<1>6. responder' = [responder EXCEPT ![r] = t] /\ initiator' = initiator
  BY DEF TakeOffer
<1> HIDE DEF nonce
<1>7. /\ responder'[r].setup = s.setup /\ responder'[r].state = "ReplySent"
      /\ responder'[r].inonce = nonce /\ responder'[r].verified = verified
      /\ responder'[r].doubly = twice
  BY <1>1, <1>6 DEF IInv, TypeOK, ResponderSession
<1>8. /\ twice = MaskAll(r, MaskIds(i, InitiatorIds(i)))
      /\ initiator[i].setup.sid = s.setup.sid /\ Offered(i)
  BY <1>1, <1>2 DEF OfferFrom, OfferOf, InitiatorIds
<1> HIDE DEF twice
<1>9. SignedCallsOnly /\ Bound(s) => OfferSigned(i, s.setup.peer)'
  BY <1>5, <1>6 DEF OfferSigned, OfferOf, MyIds, Grows
<1>10. RepliedTo(r, i)'
  BY <1>3, <1>4, <1>5, <1>6, <1>7, <1>8, <1>9
     DEF RepliedTo, OfferExpected, OfferSigned, Offered, InitiatorIds, MyIds, Bound
<1>11. QED
  BY <1>1, <1>7, <1>10 DEF ResponderTraced, Complete

\* A responder that takes a reveal is traced to the initiator that made it; if
\* both use freshness, that initiator completed with this responder's reply.
LEMMA TakeRevealTraced ==
    ASSUME IInv, TypeOK', Grows, NEW r \in Responders, Created(responder[r]),
           NEW m \in msgs, NEW verified,
           Accepts(responder[r], m, verified), TakeReveal(r, m)
    PROVE  ResponderTraced(r)'
<1> DEFINE s   == responder[r]
           res == ComputeIntersection(m.doubly, s.doubly, MyIds(s), s.setup.mode)
           t   == [s EXCEPT !.state = "Complete", !.result = res]
<1>1. /\ s \in ResponderSession /\ WellFormed(s.setup)
      /\ s.state = "ReplySent"
      /\ m.type = "Reveal" /\ m.sid = s.setup.sid
  BY CreatedType DEF IInv, RespondersTraced, TakeReveal, RevealPasses
<1>2. PICK i \in Initiators : RevealFrom(m, i)
  BY <1>1 DEF IInv, MessagesTraced
<1>3. initiator[i].setup.fresh /\ s.setup.fresh => initiator[i].rnonce = r
  <2> SUFFICES ASSUME initiator[i].setup.fresh, s.setup.fresh
               PROVE  initiator[i].rnonce = r
    OBVIOUS
  <2>1. m.version = 2 /\ m.rnonce = r
    BY <1>2 DEF RevealFrom, TakeReveal, RevealPasses, BothFresh
  <2>2. r # RandomNonce
    BY NullAssumption
  <2>3. QED
    BY <1>2, <2>1, <2>2 DEF RevealFrom
<1>4. SignedCallsOnly /\ Bound(s) => RevealSigned(i, s.setup.peer)
  BY <1>1, <1>2 DEF Accepts, RevealFrom, RevealSigned
<1>5. responder' = [responder EXCEPT ![r] = t] /\ initiator' = initiator
  BY DEF TakeReveal
<1>6. res = ComputeIntersection(MaskAll(i, initiator[i].theirs), s.doubly,
                                ResponderIds(r), s.setup.mode)
  BY <1>2 DEF RevealFrom, ResponderIds
<1> HIDE DEF res
<1>7. /\ responder'[r].setup = s.setup /\ responder'[r].state = "Complete"
      /\ responder'[r].doubly = s.doubly /\ responder'[r].result = res
  BY <1>1, <1>5 DEF IInv, TypeOK, ResponderSession
<1>8. RevealedBy(r, i)'
  BY <1>1, <1>2, <1>3, <1>4, <1>5, <1>6, <1>7
     DEF RevealedBy, RevealFrom, RevealSigned, ResponderIds, MyIds, Bound, Grows
<1>9. \E j \in Initiators : RepliedTo(r, j)'
  <2>1. Replied(r)
    BY <1>1 DEF Replied
  <2>2. QED
    BY <2>1, RepliedToLasts DEF IInv, RespondersTraced, Replied
<1>10. QED
  BY <1>1, <1>7, <1>8, <1>9 DEF ResponderTraced

\* A session a step does not change stays traced.
LEMMA ResponderUnchangedTraced ==
    ASSUME RespondersTraced, Grows, NEW r \in Responders, responder'[r] = responder[r]
    PROVE  ResponderTraced(r)'
BY RepliedToLasts, RevealedByLasts DEF RespondersTraced, ResponderTraced, Replied

\* No step leaves a responder that cannot be traced to its peers.
LEMMA RespondersStayTraced ==
    ASSUME IInv, [Next]_vars, TypeOK', Grows
    PROVE  RespondersTraced'
<1>1. SUFFICES ASSUME NEW r \in Responders PROVE ResponderTraced(r)'
  BY DEF RespondersTraced, ResponderTraced
<1>2. CASE responder'[r] = responder[r]
  BY <1>2, ResponderUnchangedTraced DEF IInv
<1>3. ASSUME NEW q \in Responders, ResponderStep(q), q # r
      PROVE  responder'[r] = responder[r]
  BY <1>3, ResponderCases
     DEF IInv, TypeOK, CreateResponder, TakeOfferStep, TakeOffer, TakeRevealStep,
         TakeReveal, RejectOfferSigned
<1>4. ASSUME ResponderStep(r)
      PROVE  ResponderTraced(r)'
  <2>1. CASE CreateResponder(r)
    <3>1. PICK s \in ResponderSetups :
            responder' = [responder EXCEPT ![r] =
                [setup |-> s, state |-> "Created", inonce |-> NoNonce,
                 doubly |-> <<>>, verified |-> NoPeer, result |-> NoResult]]
      BY <2>1 DEF CreateResponder
    <3>2. /\ responder'[r].setup = s /\ responder'[r].state = "Created"
          /\ responder'[r].inonce = NoNonce
      BY <3>1 DEF IInv, TypeOK
    <3>3. QED
      BY <3>2, SetupAssumption DEF ResponderTraced, Complete, Replied
  <2>2. CASE TakeOfferStep(r)
    BY <2>2, TakeOfferTraced DEF TakeOfferStep
  <2>3. CASE TakeRevealStep(r)
    BY <2>3, TakeRevealTraced DEF TakeRevealStep
  <2>4. ASSUME NEW m \in msgs, RejectOfferSigned(r, m)
        PROVE  ResponderTraced(r)'
    <3>1. /\ responder'[r] = [responder[r] EXCEPT !.verified = Verified(responder[r], m)]
          /\ responder[r] \in ResponderSession /\ Created(responder[r])
      BY <2>4, CreatedType DEF RejectOfferSigned, IInv, TypeOK, Created
    <3>2. /\ responder'[r].setup = responder[r].setup
          /\ responder'[r].state = responder[r].state
          /\ responder'[r].inonce = responder[r].inonce
      BY <3>1 DEF ResponderSession
    <3>3. /\ Complete(responder'[r]) => Complete(responder[r])
          /\ Replied(r)' => Replied(r)
      BY <3>1, <3>2 DEF Complete, Created, Replied
    <3>4. QED
      BY <3>1, <3>2, <3>3, RepliedToLasts, RevealedByLasts
         DEF ResponderTraced, IInv, RespondersTraced
  <2>5. QED
    BY <1>4, <2>1, <2>2, <2>3, <2>4, ResponderCases DEF IInv
<1>5. CASE UNCHANGED responder
  BY <1>2, <1>5
<1>6. ASSUME NEW i \in Initiators, InitiatorStep(i)
      PROVE  UNCHANGED responder
  BY <1>6, InitiatorCases
     DEF IInv, CreateInitiator, OfferStep, SendOffer, RevealStep, SendReveal,
         TakeReplyStep, TakeReply, RejectReplySigned
<1>7. QED
  BY <1>2, <1>3, <1>4, <1>5, <1>6 DEF Next, SetClock, vars

\* Every message and every session can be traced, in every reachable state, to
\* the sessions it was made by: the inductive invariant of the protocol.
THEOREM Traced == Spec => []IInv
<1>1. Init => IInv
  BY DEF Init, IInv, TypeOK, MessagesTraced, InitiatorsTraced, RespondersTraced, Created
<1>2. IInv /\ [Next]_vars => IInv'
  <2> SUFFICES ASSUME IInv, [Next]_vars PROVE IInv'
    OBVIOUS
  <2>1. TypeOK' /\ Grows
    BY StepGrows DEF IInv
  <2>2. QED
    BY <2>1, MessagesStayTraced, InitiatorsStayTraced, RespondersStayTraced DEF IInv
<1>3. QED
  BY <1>1, <1>2, PTL DEF Spec

-----------------------------------------------------------------------------
(***************************************************************************)
(* The safety properties: they follow from IInv and the exactness of the   *)
(* masking.                                                                *)
(***************************************************************************)
\* A session that computed with the elements of one initiator and one
\* responder, both masked by both, got the exact intersection of their facts.
LEMMA SessionsExact ==
    ASSUME TypeOK, NEW i \in Initiators, NEW r \in Responders, NEW mode,
           Created(initiator[i]), Created(responder[r])
    PROVE  /\ ComputeIntersection(MaskAll(r, MaskIds(i, InitiatorIds(i))),
                                  MaskAll(i, MaskIds(r, ResponderIds(r))),
                                  InitiatorIds(i), mode)
                = TrueIntersection(initiator[i].setup.facts,
                                   responder[r].setup.facts, mode)
           /\ ComputeIntersection(MaskAll(i, MaskIds(r, ResponderIds(r))),
                                  MaskAll(r, MaskIds(i, InitiatorIds(i))),
                                  ResponderIds(r), mode)
                = TrueIntersection(responder[r].setup.facts,
                                   initiator[i].setup.facts, mode)
<1> DEFINE A == initiator[i].setup.facts
           B == responder[r].setup.facts
<1>1. A \in SUBSET Facts /\ B \in SUBSET Facts
  BY CreatedType DEF InitiatorSession, ResponderSession, Setup
<1>2. Enumerates(IdsOf[A], A) /\ Enumerates(IdsOf[B], B)
  BY <1>1, IdsEnumerate
<1>3. i \in Secrets /\ r \in Secrets /\ IsFiniteSet(Facts)
  BY SessionAssumption, IdsAssumption
<1>4. InitiatorIds(i) = IdsOf[A] /\ ResponderIds(r) = IdsOf[B]
  BY DEF InitiatorIds, ResponderIds, MyIds
<1> HIDE DEF A, B
<1>5. /\ ComputeIntersection(MaskAll(r, MaskIds(i, IdsOf[A])),
                             MaskAll(i, MaskIds(r, IdsOf[B])), IdsOf[A], mode)
           = TrueIntersection(A, B, mode)
      /\ ComputeIntersection(MaskAll(i, MaskIds(r, IdsOf[B])),
                             MaskAll(r, MaskIds(i, IdsOf[A])), IdsOf[B], mode)
           = TrueIntersection(B, A, mode)
  BY <1>1, <1>2, <1>3, ComputeIntersectionExact
<1>6. QED
  BY <1>4, <1>5 DEF A, B

\* A completed initiator can be traced to a responder that answered it.
LEMMA InitiatorPeer ==
    ASSUME IInv, NEW i \in Initiators, Complete(initiator[i])
    PROVE  \E r \in Responders, j \in Initiators : CompletedBy(i, r, j)
BY DEF IInv, InitiatorsTraced, Complete, Created

\* An initiator that holds a responder's nonce completed with that responder,
\* which answered this initiator.
LEMMA FreshInitiatorPeer ==
    ASSUME IInv, NEW i \in Initiators, Complete(initiator[i]),
           initiator[i].rnonce # NoNonce
    PROVE  \E r \in Responders : CompletedBy(i, r, i) /\ initiator[i].rnonce = r
                                 /\ responder[r].inonce = i
BY InitiatorPeer DEF CompletedBy

\* The initiator's exactness is implied by the invariant.
LEMMA InitiatorExactHolds ==
    ASSUME IInv
    PROVE  InitiatorExact
<1>1. SUFFICES ASSUME NEW i \in Initiators, Complete(initiator[i]),
                      initiator[i].rnonce # NoNonce
               PROVE  \E r \in RespondersOf(initiator[i].setup.sid) :
                        /\ initiator[i].rnonce = r
                        /\ responder[r].inonce = i
                        /\ initiator[i].result = TrueResult(initiator[i], responder[r])
  BY DEF InitiatorExact
<1>2. PICK r \in Responders : /\ CompletedBy(i, r, i) /\ initiator[i].rnonce = r
                              /\ responder[r].inonce = i
  BY <1>1, FreshInitiatorPeer
<1>3. Created(initiator[i]) /\ Created(responder[r])
  BY <1>2 DEF CompletedBy, Replied, Offered
<1>4. initiator[i].result = TrueResult(initiator[i], responder[r])
  BY <1>2, <1>3, SessionsExact DEF CompletedBy, TrueResult, IInv
<1>5. r \in RespondersOf(initiator[i].setup.sid)
  BY <1>2, <1>3 DEF CompletedBy, RespondersOf
<1>6. QED
  BY <1>2, <1>4, <1>5

\* Alone under its id, a pair of any versions computes exact intersections.
LEMMA SoleSessionsExactHolds ==
    ASSUME IInv
    PROVE  SoleSessionsExact
<1>1. SUFFICES ASSUME NEW i \in Initiators, NEW r \in Responders,
                      Created(initiator[i]), Created(responder[r]),
                      InitiatorsOf(initiator[i].setup.sid) = {i},
                      RespondersOf(initiator[i].setup.sid) = {r}
               PROVE  /\ Complete(initiator[i]) =>
                           initiator[i].result = TrueResult(initiator[i], responder[r])
                      /\ Complete(responder[r]) =>
                           /\ Complete(initiator[i])
                           /\ responder[r].result = TrueResult(responder[r], initiator[i])
  BY DEF SoleSessionsExact
<1>2. responder[r].setup.sid = initiator[i].setup.sid
  BY <1>1 DEF RespondersOf
<1>3. \A j \in Initiators :
        Created(initiator[j]) /\ initiator[j].setup.sid = initiator[i].setup.sid => j = i
  BY <1>1 DEF InitiatorsOf
<1>4. \A q \in Responders :
        Created(responder[q]) /\ responder[q].setup.sid = initiator[i].setup.sid => q = r
  BY <1>1 DEF RespondersOf
<1>5. Complete(initiator[i]) => CompletedBy(i, r, i)
  <2> SUFFICES ASSUME Complete(initiator[i]) PROVE CompletedBy(i, r, i)
    OBVIOUS
  <2>1. PICK q \in Responders, j \in Initiators : CompletedBy(i, q, j)
    BY InitiatorPeer
  <2>2. q = r /\ j = i
    BY <1>3, <1>4, <2>1 DEF CompletedBy, Replied, Offered
  <2>3. QED
    BY <2>1, <2>2
<1>6. ASSUME Complete(initiator[i])
      PROVE  initiator[i].result = TrueResult(initiator[i], responder[r])
  BY <1>1, <1>5, <1>6, SessionsExact DEF CompletedBy, TrueResult, IInv
<1>7. ASSUME Complete(responder[r])
      PROVE  /\ Complete(initiator[i])
             /\ responder[r].result = TrueResult(responder[r], initiator[i])
  <2>1. PICK j \in Initiators : RevealedBy(r, j)
    BY <1>7 DEF IInv, RespondersTraced, Complete, Created
  <2>2. PICK k \in Initiators : RepliedTo(r, k)
    BY <1>7 DEF IInv, RespondersTraced, Replied, Complete, Created
  <2>3. j = i /\ k = i
    BY <1>2, <1>3, <2>1, <2>2 DEF RevealedBy, RepliedTo, Complete, Offered, Created
  <2>4. Complete(initiator[i])
    BY <2>1, <2>3 DEF RevealedBy
  <2>5. initiator[i].theirs = MaskIds(r, ResponderIds(r))
    BY <1>5, <2>4 DEF CompletedBy
  <2>6. responder[r].result = TrueResult(responder[r], initiator[i])
    BY <1>1, <2>1, <2>2, <2>3, <2>5, SessionsExact DEF RevealedBy, RepliedTo, TrueResult, IInv
  <2>7. QED
    BY <2>4, <2>6
<1>8. QED
  BY <1>6, <1>7

\* A responder that completed from a fresh initiator's reveal, having answered
\* a fresh offer, answered that same initiator.
LEMMA FreshResponderPeer ==
    ASSUME IInv, NEW r \in Responders, NEW i \in Initiators,
           Complete(responder[r]), RevealedBy(r, i),
           responder[r].setup.fresh, initiator[i].setup.fresh
    PROVE  /\ responder[r].inonce = i /\ initiator[i].rnonce = r
           /\ CompletedBy(i, r, i)
<1>1. Complete(initiator[i]) /\ initiator[i].rnonce = r
  BY DEF RevealedBy
<1>2. r # NoNonce
  BY NullAssumption
<1>3. PICK q \in Responders : /\ CompletedBy(i, q, i) /\ initiator[i].rnonce = q
                              /\ responder[q].inonce = i
  BY <1>1, <1>2, FreshInitiatorPeer
<1>4. QED
  BY <1>1, <1>3

\* Both sides of a fresh run hold the same intersection.
LEMMA ResponderAgreesHolds ==
    ASSUME IInv
    PROVE  ResponderAgrees
<1>1. SUFFICES ASSUME NEW r \in Responders,
                      Complete(responder[r]), responder[r].inonce # NoNonce,
                      \A j \in InitiatorsOf(responder[r].setup.sid) :
                          initiator[j].setup.fresh
               PROVE  \E i \in InitiatorsOf(responder[r].setup.sid) :
                         /\ responder[r].inonce = i
                         /\ Complete(initiator[i]) /\ initiator[i].rnonce = r
                         /\ responder[r].result = TrueResult(responder[r], initiator[i])
  BY DEF ResponderAgrees
<1>2. PICK i \in Initiators : RevealedBy(r, i)
  BY <1>1 DEF IInv, RespondersTraced, Complete, Created
<1>3. PICK k \in Initiators : RepliedTo(r, k)
  BY <1>1 DEF IInv, RespondersTraced, Replied, Complete, Created
<1>4. i \in InitiatorsOf(responder[r].setup.sid) /\ Complete(initiator[i])
  BY <1>2 DEF RevealedBy, InitiatorsOf, Complete, Created
<1>5. responder[r].inonce = k /\ responder[r].setup.fresh
  BY <1>1, <1>3 DEF RepliedTo
<1>6. /\ responder[r].inonce = i /\ initiator[i].rnonce = r
      /\ CompletedBy(i, r, i)
  BY <1>1, <1>2, <1>4, <1>5, FreshResponderPeer
<1>7. responder[r].result = TrueResult(responder[r], initiator[i])
  <2>1. Created(initiator[i]) /\ Created(responder[r])
    BY <1>1, <1>4 DEF Complete, Created
  <2>2. responder[r].doubly = MaskAll(r, MaskIds(i, InitiatorIds(i)))
    BY <1>3, <1>5, <1>6 DEF RepliedTo
  <2>3. initiator[i].theirs = MaskIds(r, ResponderIds(r))
    BY <1>6 DEF CompletedBy
  <2>4. QED
    BY <1>2, <2>1, <2>2, <2>3, SessionsExact DEF RevealedBy, TrueResult, IInv
<1>8. QED
  BY <1>4, <1>6, <1>7

\* A completed initiator met a responder that signed as its peer.
LEMMA InitiatorMet ==
    ASSUME IInv, SignedCallsOnly,
           NEW i \in Initiators, Complete(initiator[i]), Bound(initiator[i])
    PROVE  /\ initiator[i].verified = initiator[i].setup.peer
           /\ \E r \in RespondersOf(initiator[i].setup.sid),
                 j \in InitiatorsOf(initiator[i].setup.sid) :
                  MetResponder(i, r, j, initiator[i].setup.peer)
<1>1. PICK r \in Responders, j \in Initiators : CompletedBy(i, r, j)
  BY InitiatorPeer
<1>2. MetResponder(i, r, j, initiator[i].setup.peer)
  BY <1>1 DEF CompletedBy, MetResponder, OfferExpected, ResponderIds
<1>3. /\ r \in RespondersOf(initiator[i].setup.sid)
      /\ j \in InitiatorsOf(initiator[i].setup.sid)
  BY <1>1 DEF CompletedBy, RespondersOf, InitiatorsOf, Replied, Offered
<1>4. initiator[i].verified = initiator[i].setup.peer
  BY <1>1 DEF CompletedBy
<1>5. QED
  BY <1>2, <1>3, <1>4

\* A completed responder met an initiator that signed as its peer.
LEMMA ResponderMet ==
    ASSUME IInv, SignedCallsOnly,
           NEW r \in Responders, Complete(responder[r]), Bound(responder[r])
    PROVE  /\ responder[r].verified = responder[r].setup.peer
           /\ \E i, j \in InitiatorsOf(responder[r].setup.sid) :
                  MetInitiator(r, i, j, responder[r].setup.peer)
<1>1. PICK i \in Initiators : RevealedBy(r, i)
  BY DEF IInv, RespondersTraced, Complete, Created
<1>2. PICK j \in Initiators : RepliedTo(r, j)
  BY DEF IInv, RespondersTraced, Replied, Complete, Created
<1>3. Answered(r, j) /\ OfferSigned(j, responder[r].setup.peer)
  BY <1>2 DEF RepliedTo, OfferExpected, Answered, InitiatorIds
<1>4. Complete(initiator[i]) /\ RevealSigned(i, responder[r].setup.peer)
  BY <1>1 DEF RevealedBy
<1>5. ASSUME initiator[i].setup.fresh
      PROVE  /\ j = i /\ responder[r].inonce = i /\ initiator[i].rnonce = r
             /\ Bound(initiator[i]) => ReplySigned(r, initiator[i].setup.peer)
  <2>1. responder[r].setup.fresh
    BY DEF IInv, RespondersTraced, WellFormed, Bound, Complete, Created
  <2>2. /\ responder[r].inonce = i /\ initiator[i].rnonce = r
        /\ CompletedBy(i, r, i)
    BY <1>1, <1>5, <2>1, FreshResponderPeer
  <2>3. j = i
    BY <1>2, <2>2, NullAssumption DEF RepliedTo
  <2>4. QED
    BY <2>2, <2>3 DEF CompletedBy
<1>6. MetInitiator(r, i, j, responder[r].setup.peer)
  BY <1>3, <1>4, <1>5 DEF MetInitiator
<1>7. i \in InitiatorsOf(responder[r].setup.sid) /\ j \in InitiatorsOf(responder[r].setup.sid)
  BY <1>1, <1>2 DEF RevealedBy, RepliedTo, InitiatorsOf, Complete, Offered, Created
<1>8. responder[r].verified = responder[r].setup.peer
  BY <1>2 DEF RepliedTo
<1>9. QED
  BY <1>6, <1>7, <1>8

\* Bound sessions complete only with those that signed as whom they expect.
LEMMA BoundPeersHolds ==
    ASSUME IInv
    PROVE  BoundPeers
BY InitiatorMet, ResponderMet DEF BoundPeers

\* A fresh initiator session that completes holds the exact intersection with
\* the one responder session whose nonce it echoes, in every reachable state.
THEOREM InitiatorIsExact == Spec => []InitiatorExact
<1>1. IInv => InitiatorExact
  BY InitiatorExactHolds
<1>2. QED
  BY <1>1, Traced, PTL

\* Undisturbed pairs of any versions compute the exact intersection.
THEOREM SoleSessionsAreExact == Spec => []SoleSessionsExact
<1>1. IInv => SoleSessionsExact
  BY SoleSessionsExactHolds
<1>2. QED
  BY <1>1, Traced, PTL

\* A responder that completes a fresh run agrees with the one initiator it
\* answered, although it compares its own nonce only.
THEOREM ResponderAlwaysAgrees == Spec => []ResponderAgrees
<1>1. IInv => ResponderAgrees
  BY ResponderAgreesHolds
<1>2. QED
  BY <1>1, Traced, PTL

\* Bound sessions used by their signed calls complete only with sessions that
\* signed as the identity they are bound to, whoever else signs what.
THEOREM BoundSessionsMeet == Spec => []BoundPeers
<1>1. IInv => BoundPeers
  BY BoundPeersHolds
<1>2. QED
  BY <1>1, Traced, PTL

-----------------------------------------------------------------------------
(***************************************************************************)
(* Action properties.                                                      *)
(***************************************************************************)
\* The step that completes an initiator is one that takes a reply.
LEMMA CompletingStep ==
    ASSUME TypeOK, [Next]_vars, NEW i \in Initiators,
           initiator[i] # Absent, initiator[i].state = "AwaitingReply",
           initiator'[i].state = "Complete"
    PROVE  TakeReplyStep(i)
<1>1. initiator[i] \in InitiatorSession /\ initiator' # initiator
      /\ initiator'[i] # initiator[i]
  BY CreatedType DEF Created
<1>2. \A r \in Responders : ResponderStep(r) => initiator' = initiator
  BY ResponderCases
     DEF CreateResponder, TakeOfferStep, TakeOffer, TakeRevealStep, TakeReveal,
         RejectOfferSigned
<1>3. \A j \in Initiators : InitiatorStep(j) /\ j # i => initiator'[i] = initiator[i]
  BY InitiatorCases
     DEF TypeOK, CreateInitiator, OfferStep, SendOffer, RevealStep, SendReveal,
         TakeReplyStep, TakeReply, RejectReplySigned
<1>4. InitiatorStep(i)
  BY <1>1, <1>2, <1>3 DEF Next, SetClock, vars
<1>5. ~CreateInitiator(i) /\ ~OfferStep(i) /\ ~RevealStep(i)
  BY DEF CreateInitiator, OfferStep, SendOffer, RevealStep, SendReveal
<1>6. ASSUME NEW m \in msgs, RejectReplySigned(i, m) PROVE FALSE
  BY <1>1, <1>6 DEF RejectReplySigned, TypeOK, InitiatorSession
<1>7. QED
  BY <1>4, <1>5, <1>6, InitiatorCases

\* A reply that completes a fresh run comes before the offer's deadline plus the
\* TTL of the responder that made it.
LEMMA RoundTripStep ==
    ASSUME IInv, [Next]_vars, NEW i \in Initiators,
           Created(initiator[i]), initiator[i].state = "AwaitingReply",
           initiator'[i].state = "Complete", initiator'[i].rnonce # NoNonce
    PROVE  /\ Clock(i) < initiator[i].deadline.expires
                           + responder[initiator'[i].rnonce].setup.ttl
           /\ responder[initiator'[i].rnonce].setup.ttl \in Nat
<1>1. TakeReplyStep(i)
  BY CompletingStep DEF IInv, Created
<1>2. PICK m, verified : m \in msgs /\ TakeReply(i, m, verified)
  BY <1>1 DEF TakeReplyStep
<1>3. initiator[i] \in InitiatorSession /\ initiator[i].rnonce = NoNonce
  BY CreatedType DEF IInv, InitiatorsTraced
<1>4. initiator'[i].rnonce = IF BothFresh(initiator[i], m) THEN m.rnonce ELSE NoNonce
  <2>1. CASE BothFresh(initiator[i], m)
    BY <1>2, <1>3, <2>1 DEF TakeReply, IInv, TypeOK, InitiatorSession
  <2>2. CASE ~BothFresh(initiator[i], m)
    BY <1>2, <1>3, <2>2 DEF TakeReply, IInv, TypeOK, InitiatorSession
  <2>3. QED
    BY <2>1, <2>2
<1>5. BothFresh(initiator[i], m) /\ initiator'[i].rnonce = m.rnonce
  BY <1>4
<1>6. /\ m.type = "Reply" /\ m.version = 2 /\ m.inonce = i
      /\ Clock(i) < m.deadline.expires
  BY <1>2, <1>5 DEF TakeReply, ReplyPasses, BothFresh, Validate
<1>7. PICK r \in Responders, j \in Initiators : ReplyFrom(m, r, j)
  BY <1>2, <1>6 DEF IInv, MessagesTraced
<1>8. /\ j = i /\ initiator'[i].rnonce = r
      /\ m.deadline.expires < initiator[i].deadline.expires + responder[r].setup.ttl
  BY <1>5, <1>6, <1>7 DEF ReplyFrom
<1>9. /\ Clock(i) \in Nat /\ m.deadline.expires \in Nat
      /\ initiator[i].deadline.expires + responder[r].setup.ttl \in Nat
      /\ responder[r].setup.ttl \in Nat
  <2>1. m.deadline \in Deadline
    BY <1>6, <1>7 DEF ReplyFrom
  <2>2. responder[r] \in ResponderSession
    BY <1>7, CreatedType DEF ReplyFrom, Replied, IInv
  <2>3. m.deadline.expires \in Nat /\ initiator[i].deadline.expires \in Nat
    BY <1>3, <2>1 DEF Deadline, InitiatorSession
  <2>4. responder[r].setup.ttl \in Nat
    BY <2>2 DEF ResponderSession, Setup
  <2>5. QED
    BY <2>3, <2>4, ClockType DEF IInv
<1>10. QED
  BY <1>6, <1>8, <1>9

\* A fresh run ends, on the initiator's clock, before the offer's deadline plus
\* the responder's TTL, whatever the clocks do.
THEOREM RoundTripIsBounded == Spec => RoundTripBounded
<1>1. IInv /\ [Next]_vars =>
        [\A i \in Initiators :
          /\ Created(initiator[i]) /\ initiator[i].state = "AwaitingReply"
          /\ initiator'[i].state = "Complete" /\ initiator'[i].rnonce # NoNonce
          => Clock(i) < initiator[i].deadline.expires
                           + responder[initiator'[i].rnonce].setup.ttl]_vars
  BY RoundTripStep
<1>2. QED
  BY <1>1, Traced, PTL DEF Spec, RoundTripBounded

\* A completed initiator is changed by no call, but for its verified peer.
LEMMA CompleteInitiatorKept ==
    ASSUME TypeOK, [Next]_vars, NEW i \in Initiators, Complete(initiator[i])
    PROVE  initiator'[i] = [initiator[i] EXCEPT !.verified = initiator'[i].verified]
<1>1. initiator[i] \in InitiatorSession /\ initiator[i].state = "Complete"
      /\ initiator[i] # Absent
  BY CreatedType DEF Complete, Created
<1>2. initiator[i] = [initiator[i] EXCEPT !.verified = initiator[i].verified]
  BY <1>1 DEF InitiatorSession
<1>3. \A r \in Responders : ResponderStep(r) => initiator' = initiator
  BY ResponderCases
     DEF CreateResponder, TakeOfferStep, TakeOffer, TakeRevealStep, TakeReveal,
         RejectOfferSigned
<1>4. \A j \in Initiators : InitiatorStep(j) /\ j # i => initiator'[i] = initiator[i]
  BY InitiatorCases
     DEF TypeOK, CreateInitiator, OfferStep, SendOffer, RevealStep, SendReveal,
         TakeReplyStep, TakeReply, RejectReplySigned
<1>5. ASSUME InitiatorStep(i), initiator'[i] # initiator[i]
      PROVE  \E m \in msgs : RejectReplySigned(i, m)
  BY <1>1, <1>5, InitiatorCases
     DEF CreateInitiator, OfferStep, SendOffer, RevealStep, SendReveal,
         TakeReplyStep, TakeReply, ReplyPasses
<1>6. ASSUME NEW m \in msgs, RejectReplySigned(i, m)
      PROVE  initiator'[i] = [initiator[i] EXCEPT !.verified = initiator'[i].verified]
  <2> DEFINE v == Verified(initiator[i], m)
  <2>1. initiator'[i] = [initiator[i] EXCEPT !.verified = v]
    BY <1>6 DEF RejectReplySigned, TypeOK
  <2> HIDE DEF v
  <2>2. initiator'[i].verified = v
    BY <1>1, <2>1 DEF InitiatorSession
  <2>3. QED
    BY <2>1, <2>2
<1>7. QED
  BY <1>2, <1>3, <1>4, <1>5, <1>6 DEF Next, SetClock, vars

\* So is a completed responder.
LEMMA CompleteResponderKept ==
    ASSUME TypeOK, [Next]_vars, NEW r \in Responders, Complete(responder[r])
    PROVE  responder'[r] = [responder[r] EXCEPT !.verified = responder'[r].verified]
<1>1. responder[r] \in ResponderSession /\ responder[r].state = "Complete"
      /\ responder[r] # Absent
  BY CreatedType DEF Complete, Created
<1>2. responder[r] = [responder[r] EXCEPT !.verified = responder[r].verified]
  BY <1>1 DEF ResponderSession
<1>3. \A i \in Initiators : InitiatorStep(i) => responder' = responder
  BY InitiatorCases
     DEF CreateInitiator, OfferStep, SendOffer, RevealStep, SendReveal,
         TakeReplyStep, TakeReply, RejectReplySigned
<1>4. \A q \in Responders : ResponderStep(q) /\ q # r => responder'[r] = responder[r]
  BY ResponderCases
     DEF TypeOK, CreateResponder, TakeOfferStep, TakeOffer, TakeRevealStep, TakeReveal,
         RejectOfferSigned
<1>5. ASSUME ResponderStep(r), responder'[r] # responder[r]
      PROVE  \E m \in msgs : RejectOfferSigned(r, m)
  BY <1>1, <1>5, ResponderCases
     DEF CreateResponder, TakeOfferStep, TakeOffer, OfferPasses, TakeRevealStep,
         TakeReveal, RevealPasses
<1>6. ASSUME NEW m \in msgs, RejectOfferSigned(r, m)
      PROVE  responder'[r] = [responder[r] EXCEPT !.verified = responder'[r].verified]
  <2> DEFINE v == Verified(responder[r], m)
  <2>1. responder'[r] = [responder[r] EXCEPT !.verified = v]
    BY <1>6 DEF RejectOfferSigned, TypeOK
  <2> HIDE DEF v
  <2>2. responder'[r].verified = v
    BY <1>1, <2>1 DEF ResponderSession
  <2>3. QED
    BY <2>1, <2>2
<1>7. QED
  BY <1>2, <1>3, <1>4, <1>5, <1>6 DEF Next, SetClock, vars

\* A completed session's result, and everything else an application reads from
\* it except the verified peer, is final.
THEOREM ResultsAreFinal == Spec => ResultsFinal
<1>1. TypeOK /\ [Next]_vars =>
        [/\ \A i \in Initiators :
              Complete(initiator[i]) =>
                  initiator'[i] = [initiator[i] EXCEPT
                                      !.verified = initiator'[i].verified]
         /\ \A r \in Responders :
              Complete(responder[r]) =>
                  responder'[r] = [responder[r] EXCEPT
                                      !.verified = responder'[r].verified]]_vars
  BY CompleteInitiatorKept, CompleteResponderKept
<1>2. QED
  BY <1>1, TypeCorrect, PTL DEF Spec, ResultsFinal

-----------------------------------------------------------------------------
(***************************************************************************)
(* Sessions that all use freshness implement the ideal private set         *)
(* intersection of PsiIdeal, for any number of sessions.                   *)
(***************************************************************************)
\* Where only fresh setups exist, every message is v2 and a responder that
\* answered holds the nonce of the offer it answered.
FreshInv ==
    /\ \A i \in Initiators : Created(initiator[i]) => initiator[i].setup.fresh
    /\ \A r \in Responders :
         /\ Created(responder[r]) => responder[r].setup.fresh
         /\ Replied(r) => responder[r].inonce # NoNonce
    /\ \A m \in msgs : m.version = 2

-----------------------------------------------------------------------------
(***************************************************************************)
(* Every step keeps FreshInv.                                              *)
(***************************************************************************)
\* The setup of a session that exists after a step is the one it had, or one of
\* the setups a session may be created with.
LEMMA FreshSetups ==
    ASSUME FreshOnly, IInv, FreshInv, [Next]_vars, Grows
    PROVE  /\ \A i \in Initiators : Created(initiator'[i]) => initiator'[i].setup.fresh
           /\ \A r \in Responders : Created(responder'[r]) => responder'[r].setup.fresh
<1>1. ASSUME NEW i \in Initiators, Created(initiator'[i]), ~Created(initiator[i])
      PROVE  initiator'[i].setup.fresh
  <2>1. ASSUME NEW j \in Initiators, InitiatorStep(j)
        PROVE  j = i /\ CreateInitiator(i)
    BY <1>1, <2>1, InitiatorCases
       DEF IInv, TypeOK, CreateInitiator, OfferStep, SendOffer, RevealStep, SendReveal,
           TakeReplyStep, TakeReply, RejectReplySigned, Created
  <2>2. ASSUME NEW r \in Responders, ResponderStep(r) PROVE FALSE
    BY <1>1, <2>2, ResponderCases
       DEF IInv, CreateResponder, TakeOfferStep, TakeOffer, TakeRevealStep, TakeReveal,
           RejectOfferSigned
  <2>3. CreateInitiator(i)
    BY <1>1, <2>1, <2>2 DEF Next, SetClock, vars
  <2>4. \E s \in InitiatorSetups : initiator'[i].setup = s
    BY <2>3 DEF CreateInitiator, IInv, TypeOK
  <2>5. QED
    BY <2>4 DEF FreshOnly
<1>2. ASSUME NEW r \in Responders, Created(responder'[r]), ~Created(responder[r])
      PROVE  responder'[r].setup.fresh
  <2>1. ASSUME NEW q \in Responders, ResponderStep(q)
        PROVE  q = r /\ CreateResponder(r)
    BY <1>2, <2>1, ResponderCases
       DEF IInv, TypeOK, CreateResponder, TakeOfferStep, TakeOffer, TakeRevealStep,
           TakeReveal, RejectOfferSigned, Created
  <2>2. ASSUME NEW i \in Initiators, InitiatorStep(i) PROVE FALSE
    BY <1>2, <2>2, InitiatorCases
       DEF IInv, CreateInitiator, OfferStep, SendOffer, RevealStep, SendReveal,
           TakeReplyStep, TakeReply, RejectReplySigned
  <2>3. CreateResponder(r)
    BY <1>2, <2>1, <2>2 DEF Next, SetClock, vars
  <2>4. \E s \in ResponderSetups : responder'[r].setup = s
    BY <2>3 DEF CreateResponder, IInv, TypeOK
  <2>5. QED
    BY <2>4 DEF FreshOnly
<1>3. QED
  BY <1>1, <1>2 DEF FreshInv, Grows, InitiatorGrows, ResponderGrows

\* A responder that takes an offer holds the nonce of the initiator behind it.
LEMMA FreshAnswer ==
    ASSUME IInv, FreshInv, NEW r \in Responders, Created(responder[r]),
           NEW m \in msgs, NEW signer, NEW verified, TakeOffer(r, m, signer, verified)
    PROVE  \E i \in Initiators :
             /\ OfferFrom(m, i)
             /\ responder[r].state = "Created" /\ responder[r].inonce = NoNonce
             /\ responder[r].setup.sid = initiator[i].setup.sid
             /\ responder'[r].setup = responder[r].setup
             /\ responder'[r].state = "ReplySent" /\ responder'[r].inonce = i
             /\ \A q \in Responders : q # r => responder'[q] = responder[q]
             /\ ReplyTo(r, m, signer).version = 2
<1>1. responder[r] \in ResponderSession /\ BothFresh(responder[r], m)
  BY CreatedType DEF IInv, FreshInv, BothFresh
<1>2. m.type = "Offer" /\ responder[r].state = "Created" /\ m.sid = responder[r].setup.sid
  BY DEF TakeOffer, OfferPasses
<1>3. PICK i \in Initiators : OfferFrom(m, i)
  BY <1>2 DEF IInv, MessagesTraced
<1>4. m.inonce = i /\ m.sid = initiator[i].setup.sid
  BY <1>1, <1>3 DEF OfferFrom, OfferOf, BothFresh
<1>5. responder' = [responder EXCEPT ![r] =
        [responder[r] EXCEPT !.state = "ReplySent", !.inonce = m.inonce,
                             !.doubly = MaskAll(r, m.elems), !.verified = verified]]
  BY <1>1 DEF TakeOffer
<1>6. /\ responder'[r].setup = responder[r].setup
      /\ responder'[r].state = "ReplySent" /\ responder'[r].inonce = m.inonce
  BY <1>1, <1>5 DEF IInv, TypeOK, ResponderSession
<1>7. \A q \in Responders : q # r => responder'[q] = responder[q]
  BY <1>5 DEF IInv, TypeOK
<1>8. ReplyTo(r, m, signer).version = 2
  BY <1>1 DEF ReplyTo
<1>9. responder[r].inonce = NoNonce
  BY <1>2 DEF IInv, RespondersTraced
<1>10. QED
  BY <1>2, <1>3, <1>4, <1>6, <1>7, <1>8, <1>9

\* A message that a step adds is v2.
LEMMA FreshMessages ==
    ASSUME IInv, FreshInv, [Next]_vars
    PROVE  \A m \in msgs' : m.version = 2
<1>1. ASSUME NEW i \in Initiators, InitiatorStep(i), NEW m \in msgs'
      PROVE  m.version = 2
  <2>1. CASE OfferStep(i)
    BY <1>1, <2>1 DEF OfferStep, SendOffer, OfferOf, FreshInv
  <2>2. CASE RevealStep(i)
    BY <1>1, <2>2 DEF RevealStep, SendReveal, RevealOf, FreshInv
  <2>3. CASE msgs' = msgs
    BY <1>1, <2>3 DEF FreshInv
  <2>4. QED
    BY <1>1, <2>1, <2>2, <2>3, InitiatorCases
       DEF IInv, CreateInitiator, TakeReplyStep, TakeReply, RejectReplySigned
<1>2. ASSUME NEW r \in Responders, ResponderStep(r), NEW m \in msgs'
      PROVE  m.version = 2
  <2>1. CASE TakeOfferStep(r)
    <3>1. PICK o, signer, verified : o \in msgs /\ TakeOffer(r, o, signer, verified)
      BY <2>1 DEF TakeOfferStep
    <3>2. ReplyTo(r, o, signer).version = 2
      BY <2>1, <3>1, FreshAnswer DEF TakeOfferStep
    <3>3. QED
      BY <1>2, <3>1, <3>2 DEF TakeOffer, FreshInv
  <2>2. CASE msgs' = msgs
    BY <1>2, <2>2 DEF FreshInv
  <2>3. QED
    BY <1>2, <2>1, <2>2, ResponderCases
       DEF IInv, CreateResponder, TakeRevealStep, TakeReveal, RejectOfferSigned
<1>3. QED
  BY <1>1, <1>2 DEF Next, SetClock, vars, FreshInv

\* A responder that answered holds a nonce.
LEMMA FreshNonces ==
    ASSUME IInv, FreshInv, [Next]_vars, Grows, NEW r \in Responders, Replied(r)'
    PROVE  responder'[r].inonce # NoNonce
<1>1. CASE Replied(r)
  BY <1>1 DEF FreshInv, Grows, ResponderGrows, Replied
<1>2. CASE ~Replied(r)
  <2>1. ASSUME NEW i \in Initiators, InitiatorStep(i) PROVE FALSE
    BY <1>2, <2>1, InitiatorCases
       DEF IInv, CreateInitiator, OfferStep, SendOffer, RevealStep, SendReveal,
           TakeReplyStep, TakeReply, RejectReplySigned, Replied
  <2>2. ASSUME NEW q \in Responders, ResponderStep(q), q # r PROVE FALSE
    BY <1>2, <2>2, ResponderCases
       DEF IInv, TypeOK, CreateResponder, TakeOfferStep, TakeOffer, TakeRevealStep,
           TakeReveal, RejectOfferSigned, Replied
  <2>3. ResponderStep(r)
    BY <1>2, <2>1, <2>2 DEF Next, SetClock, vars, Replied
  <2>4. ~CreateResponder(r)
    BY DEF CreateResponder, Replied, IInv, TypeOK
  <2>5. ~TakeRevealStep(r)
    BY <1>2 DEF TakeRevealStep, TakeReveal, RevealPasses, Replied
  <2>6. ASSUME NEW m \in msgs, RejectOfferSigned(r, m) PROVE FALSE
    BY <1>2, <2>6, CreatedType
       DEF RejectOfferSigned, Replied, Created, IInv, TypeOK, ResponderSession
  <2>7. TakeOfferStep(r)
    BY <2>3, <2>4, <2>5, <2>6, ResponderCases DEF IInv
  <2>8. PICK i \in Initiators : responder'[r].inonce = i
    BY <2>7, FreshAnswer DEF TakeOfferStep
  <2>9. QED
    BY <2>8, NullAssumption
<1>3. QED
  BY <1>1, <1>2

\* FreshInv is kept by every step.
LEMMA FreshStays ==
    ASSUME FreshOnly, IInv, FreshInv, [Next]_vars, Grows
    PROVE  FreshInv'
BY FreshSetups, FreshMessages, FreshNonces DEF FreshInv

-----------------------------------------------------------------------------
(***************************************************************************)
(* The refinement mapping, session by session.                             *)
(***************************************************************************)
\* The abstract input, partner and output of an initiator.
LEMMA InitiatorBars ==
    ASSUME NEW i \in Initiators
    PROVE  /\ inputBar[i] = IF Created(initiator[i]) THEN InputOf(initiator[i]) ELSE Absent
           /\ partnerBar[i] = IF Created(initiator[i]) /\ initiator[i].rnonce # NoNonce
                              THEN initiator[i].rnonce ELSE Absent
           /\ outputBar[i] = IF Complete(initiator[i]) THEN initiator[i].result ELSE Absent
           /\ inputBar'[i] =
                IF Created(initiator'[i]) THEN InputOf(initiator'[i]) ELSE Absent
           /\ partnerBar'[i] = IF Created(initiator'[i]) /\ initiator'[i].rnonce # NoNonce
                               THEN initiator'[i].rnonce ELSE Absent
           /\ outputBar'[i] = IF Complete(initiator'[i]) THEN initiator'[i].result ELSE Absent
BY DEF inputBar, partnerBar, outputBar, Parties, Session, PartnerNonce

\* The abstract input, partner and output of a responder.
LEMMA ResponderBars ==
    ASSUME NEW r \in Responders
    PROVE  /\ inputBar[r] = IF Created(responder[r]) THEN InputOf(responder[r]) ELSE Absent
           /\ partnerBar[r] = IF Created(responder[r]) /\ responder[r].inonce # NoNonce
                              THEN responder[r].inonce ELSE Absent
           /\ outputBar[r] = IF Complete(responder[r]) THEN responder[r].result ELSE Absent
           /\ inputBar'[r] =
                IF Created(responder'[r]) THEN InputOf(responder'[r]) ELSE Absent
           /\ partnerBar'[r] = IF Created(responder'[r]) /\ responder'[r].inonce # NoNonce
                               THEN responder'[r].inonce ELSE Absent
           /\ outputBar'[r] = IF Complete(responder'[r]) THEN responder'[r].result ELSE Absent
<1>1. r \in Parties /\ r \notin Initiators
  BY SessionAssumption DEF Parties
<1>2. QED
  BY <1>1 DEF inputBar, partnerBar, outputBar, Session, PartnerNonce

\* A step that changes the abstract state of party p at most.
LEMMA OnlyAt ==
    ASSUME NEW p \in Parties,
           \A q \in Parties : q # p => /\ inputBar'[q] = inputBar[q]
                                       /\ partnerBar'[q] = partnerBar[q]
                                       /\ outputBar'[q] = outputBar[q]
    PROVE  /\ inputBar' = [inputBar EXCEPT ![p] = inputBar'[p]]
           /\ partnerBar' = [partnerBar EXCEPT ![p] = partnerBar'[p]]
           /\ outputBar' = [outputBar EXCEPT ![p] = outputBar'[p]]
           /\ inputBar'[p] = inputBar[p] => inputBar' = inputBar
           /\ partnerBar'[p] = partnerBar[p] => partnerBar' = partnerBar
           /\ outputBar'[p] = outputBar[p] => outputBar' = outputBar
<1>1. /\ inputBar = [q \in Parties |-> inputBar[q]]
      /\ partnerBar = [q \in Parties |-> partnerBar[q]]
      /\ outputBar = [q \in Parties |-> outputBar[q]]
      /\ inputBar' = [q \in Parties |-> inputBar'[q]]
      /\ partnerBar' = [q \in Parties |-> partnerBar'[q]]
      /\ outputBar' = [q \in Parties |-> outputBar'[q]]
  BY DEF inputBar, partnerBar, outputBar
<1>2. QED
  BY <1>1

\* A step of one initiator.
LEMMA OnlyInitiator ==
    ASSUME NEW i \in Initiators, UNCHANGED responder,
           \A j \in Initiators : j # i => initiator'[j] = initiator[j]
    PROVE  /\ inputBar' = [inputBar EXCEPT ![i] = inputBar'[i]]
           /\ partnerBar' = [partnerBar EXCEPT ![i] = partnerBar'[i]]
           /\ outputBar' = [outputBar EXCEPT ![i] = outputBar'[i]]
           /\ inputBar'[i] = inputBar[i] => inputBar' = inputBar
           /\ partnerBar'[i] = partnerBar[i] => partnerBar' = partnerBar
           /\ outputBar'[i] = outputBar[i] => outputBar' = outputBar
<1>1. \A q \in Parties : q # i => /\ inputBar'[q] = inputBar[q]
                                  /\ partnerBar'[q] = partnerBar[q]
                                  /\ outputBar'[q] = outputBar[q]
  BY InitiatorBars, ResponderBars DEF Parties
<1>2. QED
  BY <1>1, OnlyAt DEF Parties

\* A step of one responder.
LEMMA OnlyResponder ==
    ASSUME NEW r \in Responders, UNCHANGED initiator,
           \A q \in Responders : q # r => responder'[q] = responder[q]
    PROVE  /\ inputBar' = [inputBar EXCEPT ![r] = inputBar'[r]]
           /\ partnerBar' = [partnerBar EXCEPT ![r] = partnerBar'[r]]
           /\ outputBar' = [outputBar EXCEPT ![r] = outputBar'[r]]
           /\ inputBar'[r] = inputBar[r] => inputBar' = inputBar
           /\ partnerBar'[r] = partnerBar[r] => partnerBar' = partnerBar
           /\ outputBar'[r] = outputBar[r] => outputBar' = outputBar
<1>1. \A q \in Parties : q # r => /\ inputBar'[q] = inputBar[q]
                                  /\ partnerBar'[q] = partnerBar[q]
                                  /\ outputBar'[q] = outputBar[q]
  BY InitiatorBars, ResponderBars DEF Parties
<1>2. QED
  BY <1>1, OnlyAt DEF Parties

\* A created session has an abstract input.
LEMMA InputType ==
    ASSUME TypeOK
    PROVE  /\ \A i \in Initiators : Created(initiator[i]) =>
                InputOf(initiator[i]) \in Ideal!Input /\ InputOf(initiator[i]) # Absent
           /\ \A r \in Responders : Created(responder[r]) =>
                InputOf(responder[r]) \in Ideal!Input /\ InputOf(responder[r]) # Absent
BY CreatedType, AbsentAssumption
   DEF InputOf, Ideal!Input, InitiatorSession, ResponderSession, Setup

-----------------------------------------------------------------------------
(***************************************************************************)
(* Each step is an ideal step or a stutter.                                *)
(***************************************************************************)
IdealStep == [Ideal!Next]_(Ideal!vars)

\* A step that leaves the three abstract variables alone stutters.
LEMMA Stutters ==
    ASSUME inputBar' = inputBar, partnerBar' = partnerBar, outputBar' = outputBar
    PROVE  IdealStep
BY DEF IdealStep, Ideal!vars

\* A session object that is created enters.
LEMMA CreateEnters ==
    ASSUME IInv, TypeOK'
    PROVE  /\ \A i \in Initiators : CreateInitiator(i) => IdealStep
           /\ \A r \in Responders : CreateResponder(r) => IdealStep
<1>1. ASSUME NEW i \in Initiators, CreateInitiator(i)
      PROVE  IdealStep
  <2>1. PICK s \in InitiatorSetups : initiator' = [initiator EXCEPT ![i] =
            [setup |-> s, state |-> "Created",
             deadline |-> NewDeadline(Clock(i), s.ttl),
             rnonce |-> NoNonce, theirs |-> <<>>,
             verified |-> NoPeer, result |-> NoResult]]
    BY <1>1 DEF CreateInitiator
  <2>2. /\ UNCHANGED responder /\ initiator[i] = Absent
        /\ \A j \in Initiators : j # i => initiator'[j] = initiator[j]
        /\ initiator'[i].setup = s /\ initiator'[i].rnonce = NoNonce
        /\ initiator'[i].state = "Created"
    BY <1>1, <2>1 DEF CreateInitiator, IInv, TypeOK
  <2>3. InputOf(initiator'[i]) \in Ideal!Input
    BY <2>2, SetupAssumption DEF InputOf, Ideal!Input, Setup
  <2>4. /\ inputBar[i] = Absent /\ partnerBar[i] = Absent /\ outputBar[i] = Absent
        /\ partnerBar'[i] = Absent /\ outputBar'[i] = Absent
    BY <2>2, InitiatorBars DEF Created, Complete
  <2>5. inputBar'[i] = InputOf(initiator'[i])
    <3>1. Created(initiator'[i])
      BY <1>1, NullAssumption, CreateInitiatorGrows DEF Created, IInv
    <3>2. QED
      BY <3>1, InitiatorBars
  <2>6. Ideal!Enter(i)
    BY <2>2, <2>3, <2>4, <2>5, OnlyInitiator DEF Ideal!Enter
  <2>7. QED
    BY <2>6 DEF IdealStep, Ideal!Next, Ideal!Parties
<1>2. ASSUME NEW r \in Responders, CreateResponder(r)
      PROVE  IdealStep
  <2>1. PICK s \in ResponderSetups : responder' = [responder EXCEPT ![r] =
            [setup |-> s, state |-> "Created", inonce |-> NoNonce,
             doubly |-> <<>>, verified |-> NoPeer, result |-> NoResult]]
    BY <1>2 DEF CreateResponder
  <2>2. /\ UNCHANGED initiator /\ responder[r] = Absent
        /\ \A q \in Responders : q # r => responder'[q] = responder[q]
        /\ responder'[r].setup = s /\ responder'[r].inonce = NoNonce
        /\ responder'[r].state = "Created"
    BY <1>2, <2>1 DEF CreateResponder, IInv, TypeOK
  <2>3. InputOf(responder'[r]) \in Ideal!Input
    BY <2>2, SetupAssumption DEF InputOf, Ideal!Input, Setup
  <2>4. /\ inputBar[r] = Absent /\ partnerBar[r] = Absent /\ outputBar[r] = Absent
        /\ partnerBar'[r] = Absent /\ outputBar'[r] = Absent
    BY <2>2, ResponderBars DEF Created, Complete
  <2>5. inputBar'[r] = InputOf(responder'[r])
    <3>1. Created(responder'[r])
      BY <1>2, NullAssumption, CreateResponderGrows DEF Created, IInv
    <3>2. QED
      BY <3>1, ResponderBars
  <2>6. Ideal!Enter(r)
    BY <2>2, <2>3, <2>4, <2>5, OnlyResponder DEF Ideal!Enter
  <2>7. QED
    BY <2>6 DEF IdealStep, Ideal!Next, Ideal!Parties
<1>3. QED
  BY <1>1, <1>2

\* A reply that completes an initiator is the ideal's Learn: it is the reply of
\* the responder that answered this initiator.
LEMMA ReplyLearns ==
    ASSUME IInv, IInv', FreshInv, InitiatorExact', Grows,
           NEW i \in Initiators, TakeReplyStep(i)
    PROVE  IdealStep
<1>1. PICK m, verified : m \in msgs /\ TakeReply(i, m, verified)
  BY DEF TakeReplyStep
<1>2. /\ initiator[i] \in InitiatorSession /\ Created(initiator[i])
      /\ initiator[i].state = "AwaitingReply" /\ initiator[i].rnonce = NoNonce
      /\ UNCHANGED responder
  BY <1>1, CreatedType
     DEF TakeReplyStep, TakeReply, ReplyPasses, IInv, InitiatorsTraced
<1>3. BothFresh(initiator[i], m) /\ m.type = "Reply"
  BY <1>1, <1>2 DEF FreshInv, BothFresh, TakeReply, ReplyPasses
<1>4. PICK r \in Responders : m.rnonce = r
  BY <1>1, <1>3 DEF IInv, MessagesTraced, ReplyFrom, BothFresh
<1>5. /\ initiator'[i].setup = initiator[i].setup
      /\ initiator'[i].rnonce = r
      /\ \A j \in Initiators : j # i => initiator'[j] = initiator[j]
  BY <1>1, <1>2, <1>3, <1>4 DEF TakeReply, IInv, TypeOK, InitiatorSession
<1>6. r # NoNonce
  BY NullAssumption
<1>7. Created(initiator'[i])
  BY <1>2 DEF Grows, InitiatorGrows
<1>8. Complete(initiator'[i])
  BY <1>5, <1>6, <1>7 DEF IInv, InitiatorsTraced, Complete, Created
<1>9. /\ Created(responder[r]) /\ responder[r].setup.sid = initiator[i].setup.sid
      /\ responder[r].inonce = i
      /\ initiator'[i].result = TrueResult(initiator[i], responder[r])
  BY <1>2, <1>5, <1>6, <1>8 DEF InitiatorExact, RespondersOf, TrueResult
<1>10. i # NoNonce
  BY NullAssumption
<1>11. /\ inputBar[i] = InputOf(initiator[i]) /\ inputBar'[i] = inputBar[i]
       /\ partnerBar[i] = Absent /\ partnerBar'[i] = r
       /\ outputBar[i] = Absent /\ outputBar'[i] = initiator'[i].result
  BY <1>2, <1>5, <1>6, <1>7, <1>8, InitiatorBars DEF InputOf, Complete
<1>12. inputBar[r] = InputOf(responder[r]) /\ partnerBar[r] = i
  BY <1>9, <1>10, ResponderBars
<1>13. Ideal!Intersection(i, r) = TrueResult(initiator[i], responder[r])
  <2>1. /\ inputBar[i].facts = initiator[i].setup.facts
        /\ inputBar[i].mode = initiator[i].setup.mode
        /\ inputBar[r].facts = responder[r].setup.facts
    BY <1>11, <1>12 DEF InputOf
  <2>2. \A S : Ideal!Cardinality(S) = Cardinality(S)
    BY Zenon DEF Ideal!Cardinality, Cardinality, Ideal!IsFiniteSet, IsFiniteSet
  <2>3. QED
    BY <2>1, <2>2 DEF Ideal!Intersection, TrueResult, TrueIntersection
<1>14. Ideal!Learn(i, r)
  BY <1>2, <1>5, <1>9, <1>11, <1>12, <1>13, OnlyInitiator DEF Ideal!Learn
<1>15. QED
  BY <1>14 DEF IdealStep, Ideal!Next

\* A responder that replies to an offer answers the initiator that made it.
LEMMA OfferAnswers ==
    ASSUME IInv, FreshInv, Grows, NEW r \in Responders, TakeOfferStep(r)
    PROVE  IdealStep
<1>1. PICK m, signer, verified : m \in msgs /\ TakeOffer(r, m, signer, verified)
  BY DEF TakeOfferStep
<1>2. PICK i \in Initiators :
        /\ OfferFrom(m, i)
        /\ responder[r].state = "Created" /\ responder[r].inonce = NoNonce
        /\ responder[r].setup.sid = initiator[i].setup.sid
        /\ responder'[r].setup = responder[r].setup
        /\ responder'[r].state = "ReplySent" /\ responder'[r].inonce = i
        /\ \A q \in Responders : q # r => responder'[q] = responder[q]
  BY <1>1, FreshAnswer DEF TakeOfferStep
<1>3. Created(responder[r]) /\ Created(initiator[i]) /\ UNCHANGED initiator
  BY <1>1, <1>2 DEF TakeOfferStep, TakeOffer, OfferFrom, Offered
<1>4. Created(responder'[r])
  BY <1>3 DEF Grows, ResponderGrows
<1>5. i # NoNonce
  BY NullAssumption
<1>6. inputBar[i] # Absent /\ inputBar[i] = InputOf(initiator[i])
  BY <1>3, InitiatorBars, InputType DEF IInv
<1>7. /\ inputBar[r] # Absent /\ inputBar[r] = InputOf(responder[r])
      /\ inputBar'[r] = inputBar[r]
      /\ partnerBar[r] = Absent /\ partnerBar'[r] = i
      /\ outputBar[r] = Absent /\ outputBar'[r] = Absent
  BY <1>2, <1>3, <1>4, <1>5, ResponderBars, InputType DEF InputOf, Complete, IInv
<1>8. Ideal!Answer(r, i)
  BY <1>2, <1>3, <1>6, <1>7, OnlyResponder DEF Ideal!Answer, InputOf
<1>9. QED
  BY <1>8 DEF IdealStep, Ideal!Next

\* A reveal that completes a responder is the ideal's LearnBack: it is that of
\* the one initiator it answered.
LEMMA RevealLearnsBack ==
    ASSUME IInv, FreshInv, FreshInv', Grows, ResponderAgrees', TypeOK,
           NEW r \in Responders, TakeRevealStep(r)
    PROVE  IdealStep
<1>1. PICK m, verified : m \in msgs /\ TakeReveal(r, m)
  BY DEF TakeRevealStep
<1>2. /\ Created(responder[r]) /\ responder[r] \in ResponderSession
      /\ responder[r].state = "ReplySent"
      /\ UNCHANGED initiator
  BY <1>1, CreatedType DEF TakeRevealStep, TakeReveal, RevealPasses
<1>3. /\ responder'[r].setup = responder[r].setup
      /\ responder'[r].inonce = responder[r].inonce
      /\ responder'[r].state = "Complete"
      /\ \A q \in Responders : q # r => responder'[q] = responder[q]
  BY <1>1, <1>2 DEF TakeReveal, TypeOK, ResponderSession
<1>4. Created(responder'[r])
  BY <1>2 DEF Grows, ResponderGrows
<1>5. Complete(responder'[r]) /\ responder'[r].inonce # NoNonce
  BY <1>2, <1>3, <1>4 DEF Complete, Created, FreshInv, Replied
<1>6. PICK i \in Initiators :
        /\ Created(initiator[i]) /\ initiator[i].setup.sid = responder[r].setup.sid
        /\ responder[r].inonce = i
        /\ Complete(initiator[i]) /\ initiator[i].rnonce = r
        /\ responder'[r].result = TrueResult(responder[r], initiator[i])
  <2>1. \A j \in InitiatorsOf(responder[r].setup.sid)' : initiator'[j].setup.fresh
    BY DEF FreshInv, InitiatorsOf
  <2>2. QED
    BY <1>2, <1>3, <1>5, <2>1 DEF ResponderAgrees, InitiatorsOf, TrueResult
<1>7. i # NoNonce /\ r # NoNonce
  BY NullAssumption
<1>8. /\ inputBar[i] = InputOf(initiator[i]) /\ partnerBar[i] = r
      /\ outputBar[i] # Absent
  <2>1. initiator[i].result # Absent
    <3>1. initiator[i].result = TrueResult(initiator[i], responder[r])
      BY <1>6, <1>7, InitiatorExactHolds DEF InitiatorExact, RespondersOf
    <3>2. initiator[i].setup.facts \in SUBSET Facts /\ initiator[i].setup.mode \in Modes
      BY <1>6, CreatedType DEF InitiatorSession, Setup
    <3>3. responder[r].setup.facts \in SUBSET Facts
      BY <1>2 DEF ResponderSession, Setup
    <3>4. TrueResult(initiator[i], responder[r]) \in PsiResult
      <4>1. IsFiniteSet(initiator[i].setup.facts \cap responder[r].setup.facts)
        BY <3>2, IdsAssumption, FS_Subset
      <4>2. Cardinality(initiator[i].setup.facts \cap responder[r].setup.facts) \in Nat
        BY <4>1, FS_CardinalityType
      <4>3. QED
        BY <3>2, <3>3, <4>2 DEF TrueResult, TrueIntersection, PsiResult
    <3>5. QED
      BY <3>1, <3>4, AbsentAssumption
  <2>2. QED
    BY <1>6, <1>7, <2>1, InitiatorBars
<1>9. /\ inputBar[r] = InputOf(responder[r]) /\ inputBar'[r] = inputBar[r]
      /\ partnerBar[r] = i /\ partnerBar'[r] = partnerBar[r]
      /\ outputBar[r] = Absent /\ outputBar'[r] = responder'[r].result
  BY <1>2, <1>3, <1>4, <1>5, <1>6, <1>7, ResponderBars DEF InputOf, Complete
<1>10. Ideal!Intersection(r, i) = TrueResult(responder[r], initiator[i])
  <2>1. /\ inputBar[r].facts = responder[r].setup.facts
        /\ inputBar[r].mode = responder[r].setup.mode
        /\ inputBar[i].facts = initiator[i].setup.facts
    BY <1>8, <1>9 DEF InputOf
  <2>2. \A S : Ideal!Cardinality(S) = Cardinality(S)
    BY Zenon DEF Ideal!Cardinality, Cardinality, Ideal!IsFiniteSet, IsFiniteSet
  <2>3. QED
    BY <2>1, <2>2 DEF Ideal!Intersection, TrueResult, TrueIntersection
<1>11. Ideal!LearnBack(r, i)
  BY <1>2, <1>3, <1>6, <1>8, <1>9, <1>10, OnlyResponder DEF Ideal!LearnBack
<1>12. QED
  BY <1>11 DEF IdealStep, Ideal!Next

\* Sending an offer or a reveal, and a signed call that fails, change nothing
\* the ideal can see; nor does the clock.
LEMMA OthersStutter ==
    ASSUME TypeOK, TypeOK', Grows
    PROVE  /\ \A i \in Initiators : OfferStep(i) => IdealStep
           /\ \A i \in Initiators : RevealStep(i) => IdealStep
           /\ \A i \in Initiators, m \in msgs : RejectReplySigned(i, m) => IdealStep
           /\ \A r \in Responders, m \in msgs : RejectOfferSigned(r, m) => IdealStep
           /\ UNCHANGED <<initiator, responder>> => IdealStep
<1>1. UNCHANGED <<initiator, responder>> => IdealStep
  <2>1. UNCHANGED <<initiator, responder>> =>
          inputBar' = inputBar /\ partnerBar' = partnerBar /\ outputBar' = outputBar
    BY DEF inputBar, partnerBar, outputBar, Session, PartnerNonce
  <2>2. QED
    BY <2>1, Stutters
<1>2. ASSUME NEW i \in Initiators, Created(initiator[i]), UNCHANGED responder,
             \A j \in Initiators : j # i => initiator'[j] = initiator[j],
             initiator'[i].setup = initiator[i].setup,
             initiator'[i].rnonce = initiator[i].rnonce,
             ~Complete(initiator[i]) => ~Complete(initiator'[i])
      PROVE  IdealStep
  <2>1. Created(initiator'[i])
    BY <1>2 DEF Grows, InitiatorGrows
  <2>2. Complete(initiator'[i]) => initiator'[i].result = initiator[i].result
                                   /\ Complete(initiator[i])
    BY <1>2 DEF Grows, InitiatorGrows, Complete
  <2>3. Complete(initiator[i]) => Complete(initiator'[i])
    BY <1>2, <2>1 DEF Grows, InitiatorGrows, Complete, Created
  <2>4. /\ inputBar'[i] = inputBar[i] /\ partnerBar'[i] = partnerBar[i]
        /\ outputBar'[i] = outputBar[i]
    BY <1>2, <2>1, <2>2, <2>3, InitiatorBars DEF InputOf
  <2>5. QED
    BY <1>2, <2>4, OnlyInitiator, Stutters
<1>3. ASSUME NEW i \in Initiators, OfferStep(i)
      PROVE  IdealStep
  <2>1. /\ Created(initiator[i]) /\ initiator[i] \in InitiatorSession
        /\ UNCHANGED responder
        /\ initiator' = [initiator EXCEPT ![i] =
                           [initiator[i] EXCEPT !.state = "AwaitingReply"]]
    BY <1>3, CreatedType DEF OfferStep, SendOffer
  <2>2. /\ \A j \in Initiators : j # i => initiator'[j] = initiator[j]
        /\ initiator'[i].setup = initiator[i].setup
        /\ initiator'[i].rnonce = initiator[i].rnonce
        /\ initiator'[i].state = "AwaitingReply"
    BY <2>1 DEF TypeOK, InitiatorSession
  <2>3. QED
    BY <1>2, <2>1, <2>2 DEF Complete
<1>4. ASSUME NEW i \in Initiators, NEW m \in msgs, RejectReplySigned(i, m)
      PROVE  IdealStep
  <2> DEFINE v == Verified(initiator[i], m)
  <2>1. /\ Created(initiator[i]) /\ initiator[i] \in InitiatorSession
        /\ UNCHANGED responder
        /\ initiator' = [initiator EXCEPT ![i] = [initiator[i] EXCEPT !.verified = v]]
    BY <1>4, CreatedType DEF RejectReplySigned, Created
  <2> HIDE DEF v
  <2>2. /\ \A j \in Initiators : j # i => initiator'[j] = initiator[j]
        /\ initiator'[i].setup = initiator[i].setup
        /\ initiator'[i].rnonce = initiator[i].rnonce
        /\ initiator'[i].state = initiator[i].state
    BY <2>1 DEF TypeOK, InitiatorSession
  <2>3. QED
    BY <1>2, <2>1, <2>2 DEF Complete, Created
<1>5. ASSUME NEW r \in Responders, NEW m \in msgs, RejectOfferSigned(r, m)
      PROVE  IdealStep
  <2> DEFINE v == Verified(responder[r], m)
  <2>1. /\ Created(responder[r]) /\ responder[r] \in ResponderSession
        /\ UNCHANGED initiator
        /\ responder' = [responder EXCEPT ![r] = [responder[r] EXCEPT !.verified = v]]
    BY <1>5, CreatedType DEF RejectOfferSigned, Created
  <2> HIDE DEF v
  <2>2. /\ \A q \in Responders : q # r => responder'[q] = responder[q]
        /\ responder'[r].setup = responder[r].setup
        /\ responder'[r].inonce = responder[r].inonce
        /\ responder'[r].state = responder[r].state
        /\ responder'[r].result = responder[r].result
    BY <2>1 DEF TypeOK, ResponderSession
  <2>3. Created(responder'[r])
    BY <2>1 DEF Grows, ResponderGrows
  <2>4. Complete(responder'[r]) <=> Complete(responder[r])
    BY <2>1, <2>2, <2>3 DEF Complete, Created
  <2>5. /\ inputBar'[r] = inputBar[r] /\ partnerBar'[r] = partnerBar[r]
        /\ outputBar'[r] = outputBar[r]
    <3>1. InputOf(responder'[r]) = InputOf(responder[r])
      BY <2>2 DEF InputOf
    <3>2. Created(responder[r])
      BY <2>1
    <3>3. QED
      BY <2>2, <2>3, <2>4, <3>1, <3>2, ResponderBars
  <2>6. QED
    BY <2>1, <2>2, <2>5, OnlyResponder, Stutters
<1>6. QED
  BY <1>1, <1>3, <1>4, <1>5 DEF RevealStep, SendReveal

\* Every step of the session objects is an ideal step or a stutter.
LEMMA StepImplements ==
    ASSUME IInv, IInv', FreshInv, FreshInv', Grows,
           InitiatorExact', ResponderAgrees', [Next]_vars
    PROVE  IdealStep
<1>1. TypeOK /\ TypeOK'
  BY DEF IInv
<1>2. ASSUME NEW i \in Initiators, InitiatorStep(i) PROVE IdealStep
  BY <1>1, <1>2, InitiatorCases, CreateEnters, ReplyLearns, OthersStutter
<1>3. ASSUME NEW r \in Responders, ResponderStep(r) PROVE IdealStep
  BY <1>1, <1>3, ResponderCases, CreateEnters, OfferAnswers, RevealLearnsBack,
     OthersStutter
<1>4. QED
  BY <1>1, <1>2, <1>3, OthersStutter DEF Next, SetClock, vars

\* Nothing has been sent or created at the start, in the ideal either.
LEMMA InitImplements ==
    ASSUME Init
    PROVE  Ideal!Init /\ FreshInv
<1>1. \A p \in Parties : Session(p) = Absent
  BY DEF Init, Parties, Session
<1>2. Ideal!Init
  BY <1>1 DEF Ideal!Init, Ideal!Parties, Parties, inputBar, partnerBar, outputBar,
              Created, Complete
<1>3. FreshInv
  BY DEF FreshInv, Init, Created, Replied
<1>4. QED
  BY <1>2, <1>3

\* The sessions of session.rs implement the ideal private set intersection where
\* every session uses freshness: over any transport and any clocks, at most one
\* responder answers an initiator it can learn from, and what each learns is the
\* exact intersection with its partner.
THEOREM FreshSessionsImplementIdeal ==
    ASSUME FreshOnly
    PROVE  Spec => Implements
<1>1. Init => Ideal!Init /\ FreshInv
  BY InitImplements
<1>2. IInv /\ FreshInv /\ [Next]_vars => FreshInv'
  BY FreshStays, StepGrows DEF IInv
<1>3. /\ IInv /\ IInv' /\ FreshInv /\ FreshInv'
      /\ InitiatorExact' /\ ResponderAgrees' /\ [Next]_vars
      => [Ideal!Next]_(Ideal!vars)
  BY StepImplements, StepGrows DEF IInv, IdealStep
<1>4. QED
  BY <1>1, <1>2, <1>3, Traced, InitiatorIsExact, ResponderAlwaysAgrees, PTL
     DEF Spec, Implements, Ideal!Spec
=============================================================================
