----------------------------- MODULE PsiSession -----------------------------
(***************************************************************************)
(* The session objects of session.rs and the messages they exchange.       *)
(*                                                                         *)
(* An initiator and a responder session run one private set intersection:  *)
(*                                                                         *)
(*   initiator   Created --offer--> AwaitingReply --reply--> Complete      *)
(*   responder   Created --offer/reply--> ReplySent --reveal--> Complete   *)
(*                                                                         *)
(* Each member of Initiators and Responders is one session object: an      *)
(* application that retries, or a process that restarts, uses another      *)
(* member, possibly under the same session id.  The object draws its       *)
(* secret and its nonce at random, so both are named by the object itself. *)
(*                                                                         *)
(* The transport belongs to the application: a message that was sent may   *)
(* be lost (never processed), processed late, in any order, more than      *)
(* once, or by any session object.  Every party is honest.                 *)
(***************************************************************************)
EXTENDS Masking

CONSTANTS
    SessionIds,       \* session identifiers, chosen by the applications
    Identities,       \* long-term identities
    Initiators,       \* initiator session objects, each its secret and nonce
    Responders,       \* responder session objects, likewise
    Hosts, HostOf,    \* the machines, and the one a session object runs on
    InitiatorSetups,  \* what an application may create an initiator with
    ResponderSetups,  \* what an application may create a responder with
    IdsOf,            \* FactSet::ids : the ids of a set in their fixed order
    MaxSetSize,       \* MAX_SET_SIZE (4096 in the code)
    MaxClock,         \* bound of the clocks
    SignedCallsOnly,  \* TRUE: bound sessions are used by signed calls only
    Absent, NoNonce, RandomNonce, NoPeer, NoSigner, NoDeadline, NoResult

VARIABLES
    initiator,  \* the state of each initiator session object
    responder,  \* the state of each responder session object
    msgs,       \* every message sent so far
    clock       \* the wall clock of each host

vars == <<initiator, responder, msgs, clock>>

-----------------------------------------------------------------------------
(***************************************************************************)
(* Data.                                                                   *)
(***************************************************************************)
Nonce == Initiators \cup Responders \cup {NoNonce, RandomNonce}

Time == 0 .. MaxClock

Deadline == [issued : Nat, expires : Nat]

\* fresh, ttl and signed are SessionConfig; me and peer the ChannelBinding,
\* NoPeer where the session has none.
Setup ==
    [sid : SessionIds, facts : SUBSET Facts, mode : Modes, fresh : BOOLEAN,
     ttl : Nat, signed : BOOLEAN, me : Identities \cup {NoPeer},
     peer : Identities \cup {NoPeer}]

\* with_channel_binding always configures freshness and signatures.
WellFormed(s) == s.peer # NoPeer => s.fresh /\ s.signed /\ s.me # NoPeer

InitiatorSession ==
    [setup : Setup, state : {"Created", "AwaitingReply", "Complete"},
     deadline : Deadline, rnonce : Nonce, theirs : Seq(Element),
     verified : Identities \cup {NoPeer}, result : PsiResult \cup {NoResult}]

ResponderSession ==
    [setup : Setup, state : {"Created", "ReplySent", "Complete"},
     inonce : Nonce, doubly : Seq(Element),
     verified : Identities \cup {NoPeer}, result : PsiResult \cup {NoResult}]

\* A message is unsigned, or in the envelope of the signer (SignedWireMessage).
Signer == Identities \cup {NoSigner}

Offer ==
    [type : {"Offer"}, sid : SessionIds, version : {1, 2},
     elems : Seq(Element), inonce : Nonce,
     deadline : Deadline \cup {NoDeadline}, signer : Signer]

Reply ==
    [type : {"Reply"}, sid : SessionIds, version : {1, 2},
     elems : Seq(Element), doubly : Seq(Element), inonce : Nonce,
     rnonce : Nonce, deadline : Deadline \cup {NoDeadline}, signer : Signer]

Reveal ==
    [type : {"Reveal"}, sid : SessionIds, version : {1, 2},
     doubly : Seq(Element), inonce : Nonce, rnonce : Nonce,
     deadline : Deadline \cup {NoDeadline}, signer : Signer]

Message == Offer \cup Reply \cup Reveal

ASSUME SetupAssumption ==
    /\ InitiatorSetups \subseteq {s \in Setup : WellFormed(s)}
    /\ ResponderSetups \subseteq {s \in Setup : WellFormed(s)}

ASSUME SessionAssumption ==
    /\ Initiators \cup Responders \subseteq Secrets
    /\ Initiators \cap Responders = {}
    /\ HostOf \in [Initiators \cup Responders -> Hosts]

ASSUME IdsAssumption ==
    /\ IsFiniteSet(Facts)
    /\ \A F \in SUBSET Facts :
         /\ IdsOf[F] \in Seq(F)
         /\ \A f \in F : \E k \in 1 .. Len(IdsOf[F]) : IdsOf[F][k] = f
         /\ \A k, l \in 1 .. Len(IdsOf[F]) :
              IdsOf[F][k] = IdsOf[F][l] => k = l

ASSUME BoundAssumption ==
    MaxSetSize \in Nat /\ MaxClock \in Nat /\ SignedCallsOnly \in BOOLEAN

ASSUME NullAssumption ==
    /\ Absent \notin InitiatorSession /\ Absent \notin ResponderSession
    /\ NoNonce \notin Initiators \cup Responders
    /\ RandomNonce \notin Initiators \cup Responders \cup {NoNonce}
    /\ NoPeer \notin Identities /\ NoSigner \notin Identities
    /\ NoDeadline \notin Deadline /\ NoResult \notin PsiResult

-----------------------------------------------------------------------------
(***************************************************************************)
(* Helpers shared by the handlers.                                         *)
(***************************************************************************)
Clock(p) == clock[HostOf[p]]

\* Mutant: the TTL is taken from the time instead of added.
NewDeadlineBackwards(now, ttl) == [issued |-> now, expires |-> now - ttl]

\* Mutant: the TTL stays at its derived default, 0.
NewDeadlineAtOnce(now, ttl) == [issued |-> now, expires |-> now]

NewDeadline(now, ttl) == [issued |-> now, expires |-> now + ttl]

\* SessionDeadline::validate on the receiver's clock.
Validate(d, now) == d.issued < d.expires /\ now < d.expires

\* Mutant: this session's own configuration is not asked.
BothFreshByMessage(s, m) == m.version = 2

\* Freshness is looked at only when both this session and the message have it.
BothFresh(s, m) == s.setup.fresh /\ m.version = 2

Bound(s) == s.setup.peer # NoPeer

\* Any session has the plain calls and the ..._signed ones: which of them an
\* application uses on a bound session is up to it.
MayCallPlain(s) == SignedCallsOnly => ~Bound(s)

\* Mutant: any signature will do.
SignerAcceptedAnyone(s, m) == m.signer # NoSigner

\* The check at the head of every process_..._signed call.
SignerAccepted(s, m) ==
    /\ m.signer # NoSigner
    /\ IF Bound(s) THEN m.signer = s.setup.peer ELSE ~s.setup.signed

\* Mutant: the verified peer is not recorded.
VerifiedForgotten(s, m) == s.verified

\* verified_peer after that check.
Verified(s, m) == IF Bound(s) THEN m.signer ELSE s.verified

MyIds(s) == IdsOf[s.setup.facts]

-----------------------------------------------------------------------------
(***************************************************************************)
(* Initiator.                                                              *)
(***************************************************************************)
\* The nonce and the deadline are drawn here, not when the offer is sent.
CreateInitiator(i) ==
    /\ initiator[i] = Absent
    /\ \E s \in InitiatorSetups :
         /\ Cardinality(s.facts) <= MaxSetSize
         /\ initiator' = [initiator EXCEPT ![i] =
                [setup |-> s, state |-> "Created",
                 deadline |-> NewDeadline(Clock(i), s.ttl),
                 rnonce |-> NoNonce, theirs |-> <<>>,
                 verified |-> NoPeer, result |-> NoResult]]
    /\ UNCHANGED <<responder, msgs, clock>>

OfferOf(i, signer) ==
    LET s == initiator[i]
    IN  [type |-> "Offer", sid |-> s.setup.sid,
         version |-> IF s.setup.fresh THEN 2 ELSE 1,
         elems |-> MaskIds(i, MyIds(s)),
         inonce |-> IF s.setup.fresh THEN i ELSE NoNonce,
         deadline |-> IF s.setup.fresh THEN s.deadline ELSE NoDeadline,
         signer |-> signer]

SendOffer(i, signer) ==
    /\ initiator[i].state = "Created"
    /\ initiator' = [initiator EXCEPT ![i].state = "AwaitingReply"]
    /\ msgs' = msgs \cup {OfferOf(i, signer)}
    /\ UNCHANGED <<responder, clock>>

GenerateOffer(i) ==
    /\ initiator[i] # Absent
    /\ MayCallPlain(initiator[i])
    /\ SendOffer(i, NoSigner)

\* The identity is the caller's: nothing compares it with the binding.
GenerateOfferSigned(i) ==
    /\ initiator[i] # Absent
    /\ \E identity \in Identities : SendOffer(i, identity)

\* Mutant: the echo of the initiator's nonce is not compared.
ReplyPassesAnyEcho(i, m) ==
    LET s == initiator[i]
    IN  /\ m.type = "Reply" /\ s.state = "AwaitingReply" /\ m.sid = s.setup.sid
        /\ BothFresh(s, m) => Validate(m.deadline, Clock(i))

\* Mutant: the state of the session is not checked.
ReplyPassesAnyState(i, m) ==
    LET s == initiator[i]
    IN  /\ m.type = "Reply" /\ m.sid = s.setup.sid
        /\ BothFresh(s, m) => m.inonce = i /\ Validate(m.deadline, Clock(i))

\* The checks of process_reply that return before anything is assigned.
ReplyPasses(i, m) ==
    LET s == initiator[i]
    IN  /\ m.type = "Reply"
        /\ s.state = "AwaitingReply"
        /\ m.sid = s.setup.sid
        /\ BothFresh(s, m) => /\ m.inonce = i
                              /\ Validate(m.deadline, Clock(i))

\* The rest of process_reply: the responder's nonce is kept even when the
\* element count is then found to be wrong and the call fails.
TakeReply(i, m, verified) ==
    LET s     == initiator[i]
        nonce == IF BothFresh(s, m) THEN m.rnonce ELSE s.rnonce
    IN  /\ ReplyPasses(i, m)
        /\ initiator' = [initiator EXCEPT ![i] =
              IF Len(m.doubly) # Len(MyIds(s))
              THEN [s EXCEPT !.rnonce = nonce, !.verified = verified]
              ELSE [s EXCEPT !.rnonce = nonce, !.verified = verified,
                             !.state = "Complete", !.theirs = m.elems,
                             !.result = ComputeIntersection(m.doubly,
                                            MaskAll(i, m.elems), MyIds(s),
                                            s.setup.mode)]]
        /\ UNCHANGED <<responder, msgs, clock>>

ProcessReply(i, m) ==
    /\ initiator[i] # Absent
    /\ MayCallPlain(initiator[i])
    /\ TakeReply(i, m, initiator[i].verified)

ProcessReplySigned(i, m) ==
    /\ initiator[i] # Absent
    /\ SignerAccepted(initiator[i], m)
    /\ TakeReply(i, m, Verified(initiator[i], m))

\* A signed message of the peer that process_reply then rejects (or that is
\* no reply at all) still leaves verified_peer set.
RejectReplySigned(i, m) ==
    /\ initiator[i] # Absent
    /\ SignerAccepted(initiator[i], m)
    /\ ~ReplyPasses(i, m)
    /\ initiator' = [initiator EXCEPT ![i].verified = Verified(initiator[i], m)]
    /\ UNCHANGED <<responder, msgs, clock>>

\* A v2 session whose reply carried no nonce invents one for the reveal.
RevealOf(i, signer) ==
    LET s == initiator[i]
    IN  [type |-> "Reveal", sid |-> s.setup.sid,
         version |-> IF s.setup.fresh THEN 2 ELSE 1,
         doubly |-> MaskAll(i, s.theirs),
         inonce |-> IF s.setup.fresh THEN i ELSE NoNonce,
         rnonce |-> IF ~s.setup.fresh THEN NoNonce
                    ELSE IF s.rnonce = NoNonce THEN RandomNonce ELSE s.rnonce,
         deadline |-> IF s.setup.fresh THEN NewDeadline(Clock(i), s.setup.ttl)
                      ELSE NoDeadline,
         signer |-> signer]

\* generate_reveal changes nothing in the session: it may be called again.
SendReveal(i, signer) ==
    /\ initiator[i].state = "Complete"
    /\ msgs' = msgs \cup {RevealOf(i, signer)}
    /\ UNCHANGED <<initiator, responder, clock>>

GenerateReveal(i) ==
    /\ initiator[i] # Absent
    /\ MayCallPlain(initiator[i])
    /\ SendReveal(i, NoSigner)

GenerateRevealSigned(i) ==
    /\ initiator[i] # Absent
    /\ \E identity \in Identities : SendReveal(i, identity)

-----------------------------------------------------------------------------
(***************************************************************************)
(* Responder.                                                              *)
(***************************************************************************)
CreateResponder(r) ==
    /\ responder[r] = Absent
    /\ \E s \in ResponderSetups :
         /\ Cardinality(s.facts) <= MaxSetSize
         /\ responder' = [responder EXCEPT ![r] =
                [setup |-> s, state |-> "Created", inonce |-> NoNonce,
                 doubly |-> <<>>, verified |-> NoPeer, result |-> NoResult]]
    /\ UNCHANGED <<initiator, msgs, clock>>

\* Mutant: the deadline of the offer is not looked at.
OfferPassesLate(r, m) ==
    LET s == responder[r]
    IN  m.type = "Offer" /\ s.state = "Created" /\ m.sid = s.setup.sid

OfferPasses(r, m) ==
    LET s == responder[r]
    IN  /\ m.type = "Offer"
        /\ s.state = "Created"
        /\ m.sid = s.setup.sid
        /\ BothFresh(s, m) => Validate(m.deadline, Clock(r))

\* The reply is v2 only when the offer was fresh and this session is too.
ReplyTo(r, m, signer) ==
    LET s     == responder[r]
        fresh == BothFresh(s, m)
    IN  [type |-> "Reply", sid |-> s.setup.sid,
         version |-> IF fresh THEN 2 ELSE 1,
         elems |-> MaskIds(r, MyIds(s)),
         doubly |-> MaskAll(r, m.elems),
         inonce |-> IF fresh THEN m.inonce ELSE NoNonce,
         rnonce |-> IF fresh THEN r ELSE NoNonce,
         deadline |-> IF fresh THEN NewDeadline(Clock(r), s.setup.ttl)
                      ELSE NoDeadline,
         signer |-> signer]

TakeOffer(r, m, signer, verified) ==
    LET s == responder[r]
    IN  /\ OfferPasses(r, m)
        /\ responder' = [responder EXCEPT ![r] =
              [s EXCEPT !.state = "ReplySent",
                        !.inonce = IF BothFresh(s, m) THEN m.inonce ELSE s.inonce,
                        !.doubly = MaskAll(r, m.elems),
                        !.verified = verified]]
        /\ msgs' = msgs \cup {ReplyTo(r, m, signer)}
        /\ UNCHANGED <<initiator, clock>>

ProcessOfferAndReply(r, m) ==
    /\ responder[r] # Absent
    /\ MayCallPlain(responder[r])
    /\ TakeOffer(r, m, NoSigner, responder[r].verified)

ProcessOfferAndReplySigned(r, m) ==
    /\ responder[r] # Absent
    /\ SignerAccepted(responder[r], m)
    /\ \E identity \in Identities :
         TakeOffer(r, m, identity, Verified(responder[r], m))

RejectOfferSigned(r, m) ==
    /\ responder[r] # Absent
    /\ SignerAccepted(responder[r], m)
    /\ ~OfferPasses(r, m)
    /\ responder' = [responder EXCEPT ![r].verified = Verified(responder[r], m)]
    /\ UNCHANGED <<initiator, msgs, clock>>

\* Mutant: the echo of the responder's nonce is not compared.
RevealPassesAnyEcho(r, m) ==
    LET s == responder[r]
    IN  /\ m.type = "Reveal" /\ s.state = "ReplySent" /\ m.sid = s.setup.sid
        /\ BothFresh(s, m) => Validate(m.deadline, Clock(r))
        /\ Len(m.doubly) = Len(MyIds(s))

\* The reveal must echo this session's nonce; the initiator's is not compared.
RevealPasses(r, m) ==
    LET s == responder[r]
    IN  /\ m.type = "Reveal"
        /\ s.state = "ReplySent"
        /\ m.sid = s.setup.sid
        /\ BothFresh(s, m) => /\ m.rnonce = r
                              /\ Validate(m.deadline, Clock(r))
        /\ Len(m.doubly) = Len(MyIds(s))

TakeReveal(r, m) ==
    LET s == responder[r]
    IN  /\ RevealPasses(r, m)
        /\ responder' = [responder EXCEPT ![r] =
              [s EXCEPT !.state = "Complete",
                        !.result = ComputeIntersection(m.doubly, s.doubly,
                                       MyIds(s), s.setup.mode)]]
        /\ UNCHANGED <<initiator, msgs, clock>>

ProcessReveal(r, m) ==
    /\ responder[r] # Absent
    /\ MayCallPlain(responder[r])
    /\ TakeReveal(r, m)

\* Unlike the other signed calls this one leaves verified_peer alone.
ProcessRevealSigned(r, m) ==
    /\ responder[r] # Absent
    /\ SignerAccepted(responder[r], m)
    /\ TakeReveal(r, m)

-----------------------------------------------------------------------------
(***************************************************************************)
(* The specification.  SystemTime::now may be stepped either way.          *)
(***************************************************************************)
SetClock(h) ==
    /\ \E t \in Time : t # clock[h] /\ clock' = [clock EXCEPT ![h] = t]
    /\ UNCHANGED <<initiator, responder, msgs>>

Init ==
    /\ initiator = [i \in Initiators |-> Absent]
    /\ responder = [r \in Responders |-> Absent]
    /\ msgs = {}
    /\ clock \in [Hosts -> Time]

InitiatorStep(i) ==
    \/ CreateInitiator(i) \/ GenerateOffer(i) \/ GenerateOfferSigned(i)
    \/ GenerateReveal(i) \/ GenerateRevealSigned(i)
    \/ \E m \in msgs :
         ProcessReply(i, m) \/ ProcessReplySigned(i, m) \/ RejectReplySigned(i, m)

ResponderStep(r) ==
    \/ CreateResponder(r)
    \/ \E m \in msgs :
         \/ ProcessOfferAndReply(r, m) \/ ProcessOfferAndReplySigned(r, m)
         \/ RejectOfferSigned(r, m)
         \/ ProcessReveal(r, m) \/ ProcessRevealSigned(r, m)

Next ==
    \/ \E i \in Initiators : InitiatorStep(i)
    \/ \E r \in Responders : ResponderStep(r)
    \/ \E h \in Hosts : SetClock(h)

Spec == Init /\ [][Next]_vars

\* Fairness: an application goes on with a session it has created, and the
\* transport delivers every message at some time to the session it is for.
FairSpec ==
    /\ Spec
    /\ \A i \in Initiators :
         /\ WF_vars(GenerateOffer(i) \/ GenerateOfferSigned(i))
         /\ WF_vars(\E m \in msgs : ProcessReply(i, m) \/ ProcessReplySigned(i, m))
         /\ WF_vars(GenerateReveal(i) \/ GenerateRevealSigned(i))
    /\ \A r \in Responders :
         /\ WF_vars(\E m \in msgs : \/ ProcessOfferAndReply(r, m)
                                   \/ ProcessOfferAndReplySigned(r, m))
         /\ WF_vars(\E m \in msgs : ProcessReveal(r, m) \/ ProcessRevealSigned(r, m))

-----------------------------------------------------------------------------
(***************************************************************************)
(* Properties.                                                             *)
(***************************************************************************)
Created(s)  == s # Absent
Complete(s) == s # Absent /\ s.state = "Complete"

\* The answer s ought to have got from a run with t.
TrueResult(s, t) == TrueIntersection(s.setup.facts, t.setup.facts, s.setup.mode)

InitiatorsOf(sid) ==
    {i \in Initiators : Created(initiator[i]) /\ initiator[i].setup.sid = sid}

RespondersOf(sid) ==
    {r \in Responders : Created(responder[r]) /\ responder[r].setup.sid = sid}

\* Every session object, message and clock has the shape its Rust type gives it.
TypeOK ==
    /\ initiator \in [Initiators -> InitiatorSession \cup {Absent}]
    /\ responder \in [Responders -> ResponderSession \cup {Absent}]
    /\ msgs \subseteq Message
    /\ clock \in [Hosts -> Time]

\* An initiator that completed with a responder nonce holds the exact
\* intersection with the facts of the session that owns the nonce, and that
\* session answered this initiator and no other: whatever was lost, repeated,
\* reordered or left over from earlier runs under the same session id, and
\* whatever mixture of v1 and v2 sessions uses it (process_reply).
InitiatorExact ==
    \A i \in Initiators :
        Complete(initiator[i]) /\ initiator[i].rnonce # NoNonce =>
            \E r \in RespondersOf(initiator[i].setup.sid) :
                /\ initiator[i].rnonce = r
                /\ responder[r].inonce = i
                /\ initiator[i].result = TrueResult(initiator[i], responder[r])

\* Where a session id is used by one initiator and one responder only, both
\* get the exact intersection in v1 and in mixed versions too, where no nonce
\* is compared (process_reply, process_reveal).
SoleSessionsExact ==
    \A i \in Initiators, r \in Responders :
        /\ Created(initiator[i]) /\ Created(responder[r])
        /\ InitiatorsOf(initiator[i].setup.sid) = {i}
        /\ RespondersOf(initiator[i].setup.sid) = {r}
        => /\ Complete(initiator[i]) =>
                 initiator[i].result = TrueResult(initiator[i], responder[r])
           /\ Complete(responder[r]) =>
                 /\ Complete(initiator[i])
                 /\ responder[r].result = TrueResult(responder[r], initiator[i])

\* A responder that answered a fresh offer, under a session id no v1 initiator
\* uses, completes only from the reveal of the very initiator it answered, and
\* that initiator completed with this responder: the two hold the same
\* intersection (process_reveal, which compares its own nonce only).
ResponderAgrees ==
    \A r \in Responders :
        /\ Complete(responder[r]) /\ responder[r].inonce # NoNonce
        /\ \A j \in InitiatorsOf(responder[r].setup.sid) : initiator[j].setup.fresh
        => \E i \in InitiatorsOf(responder[r].setup.sid) :
              /\ responder[r].inonce = i
              /\ Complete(initiator[i]) /\ initiator[i].rnonce = r
              /\ responder[r].result = TrueResult(responder[r], initiator[i])

\* The session was asked to sign its offer, its reply or its reveal as p.
OfferSigned(i, p) == OfferOf(i, p) \in msgs

ReplySigned(r, p) ==
    \E m \in msgs :
        /\ m.type = "Reply" /\ m.signer = p /\ m.sid = responder[r].setup.sid
        /\ m.elems = MaskIds(r, MyIds(responder[r]))

RevealSigned(i, p) ==
    \E m \in msgs :
        /\ m.type = "Reveal" /\ m.signer = p /\ m.sid = initiator[i].setup.sid
        /\ m.doubly = MaskAll(i, initiator[i].theirs)

Answered(r, j) == responder[r].doubly = MaskAll(r, MaskIds(j, MyIds(initiator[j])))

\* i completed from the reply, signed as p, that r made of the offer of j, and
\* r knew whose offer it was if it is bound.  That j is i is only certain by
\* the nonces, which are not there when r or j is a v1 session.
MetResponder(i, r, j, p) ==
    /\ initiator[i].theirs = MaskIds(r, MyIds(responder[r]))
    /\ ReplySigned(r, p)
    /\ Answered(r, j)
    /\ Bound(responder[r]) => OfferSigned(j, responder[r].setup.peer)
    /\ IF initiator[i].rnonce = NoNonce
       THEN ~(responder[r].setup.fresh /\ initiator[j].setup.fresh)
       ELSE j = i /\ initiator[i].rnonce = r /\ responder[r].inonce = i

\* r answered an offer that j signed as p and completed from the reveal that i
\* signed as p; if i uses freshness, j is i, and i completed with r, as what i
\* expects if it is bound.
MetInitiator(r, i, j, p) ==
    /\ Answered(r, j) /\ OfferSigned(j, p)
    /\ Complete(initiator[i]) /\ RevealSigned(i, p)
    /\ initiator[i].setup.fresh =>
         /\ j = i /\ responder[r].inonce = i /\ initiator[i].rnonce = r
         /\ Bound(initiator[i]) => ReplySigned(r, initiator[i].setup.peer)

\* A bound session that is used by its signed calls completes only with
\* sessions that signed as the identity it is bound to, which it reports as
\* its verified peer; a bound partner got the signature it expects as well,
\* whatever sessions, bound or not, sign as whom under the same id.
BoundPeers ==
    SignedCallsOnly =>
        /\ \A i \in Initiators : Complete(initiator[i]) /\ Bound(initiator[i]) =>
             /\ initiator[i].verified = initiator[i].setup.peer
             /\ \E r \in RespondersOf(initiator[i].setup.sid),
                   j \in InitiatorsOf(initiator[i].setup.sid) :
                    MetResponder(i, r, j, initiator[i].setup.peer)
        /\ \A r \in Responders : Complete(responder[r]) /\ Bound(responder[r]) =>
             /\ responder[r].verified = responder[r].setup.peer
             /\ \E i, j \in InitiatorsOf(responder[r].setup.sid) :
                    MetInitiator(r, i, j, responder[r].setup.peer)

\* On the initiator's own clock a fresh run ends before its deadline plus the
\* responder's TTL, however far the two clocks are apart or stepped: the offer
\* carries the first stamp into the responder's, and the reply carries it back.
RoundTripBounded ==
    [][\A i \in Initiators :
          /\ Created(initiator[i]) /\ initiator[i].state = "AwaitingReply"
          /\ initiator'[i].state = "Complete" /\ initiator'[i].rnonce # NoNonce
          => Clock(i) < initiator[i].deadline.expires
                           + responder[initiator'[i].rnonce].setup.ttl]_vars

\* What an application has read from a completed session never changes under
\* it, whichever messages are processed afterwards.
ResultsFinal ==
    [][/\ \A i \in Initiators :
            Complete(initiator[i]) =>
                initiator'[i] = [initiator[i] EXCEPT
                                    !.verified = initiator'[i].verified]
       /\ \A r \in Responders :
            Complete(responder[r]) =>
                responder'[r] = [responder[r] EXCEPT
                                    !.verified = responder'[r].verified]]_vars

\* Two sessions an application may expect to finish: one session id, and bound
\* to each other or not bound at all.
Compatible(s, t) ==
    /\ s.setup.sid = t.setup.sid
    /\ \/ ~Bound(s) /\ ~Bound(t)
       \/ Bound(s) /\ s.setup.peer = t.setup.me /\ t.setup.peer = s.setup.me

\* The applications sign for a bound session with its own identity.
SignedAsBound ==
    /\ \A i \in Initiators, p \in Identities :
         /\ Created(initiator[i]) /\ Bound(initiator[i])
         /\ OfferSigned(i, p) \/ RevealSigned(i, p)
         => p = initiator[i].setup.me
    /\ \A r \in Responders, p \in Identities :
         Created(responder[r]) /\ Bound(responder[r]) /\ ReplySigned(r, p) =>
            p = responder[r].setup.me

\* A compatible pair of any versions that is not disturbed by other sessions,
\* on clocks that stay within the TTLs, finishes on both sides, if bound
\* sessions are given their own identity to sign with.
Completion ==
    []SignedAsBound =>
        \A i \in Initiators, r \in Responders :
            (/\ Created(initiator[i]) /\ Created(responder[r])
             /\ Compatible(initiator[i], responder[r]))
            ~> (Complete(initiator[i]) /\ Complete(responder[r]))
=============================================================================
