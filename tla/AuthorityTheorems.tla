------------------------- MODULE AuthorityTheorems -------------------------
(***************************************************************************)
(* What is proved of tickets and leases.  Every step of Authority is a     *)
(* step of PsiSession or leaves the sessions alone, so that all theorems   *)
(* about sessions hold of granted ones too; GrantInv ties a session to its *)
(* grant.                                                                  *)
(***************************************************************************)
EXTENDS Authority, PsiSessionTheorems

-----------------------------------------------------------------------------
(***************************************************************************)
(* Sessions with grants are sessions.                                      *)
(***************************************************************************)
\* What a step of Authority does to sessions, PsiSession allows.
LEMMA StepOfSessions ==
    ASSUME [AuthorityNext]_authorityVars
    PROVE  [Next]_vars
<1>1. ASSUME NEW g, Grant(g) PROVE UNCHANGED vars
  BY <1>1 DEF Grant, vars
<1>2. CASE IssueInvite \/ IssueLease
  BY <1>1, <1>2 DEF IssueInvite, IssueLease
<1>3. ASSUME NEW k \in DOMAIN grants, RenewLease(k) PROVE UNCHANGED vars
  BY <1>1, <1>3 DEF RenewLease
<1>4. ASSUME NEW k \in DOMAIN grants, NEW i \in Initiators,
             InitiatorFromInvite(i, k) \/ InitiatorFromLease(i, k)
      PROVE  Next
  <2>1. CreateInitiator(i)
    BY <1>4 DEF InitiatorFromInvite, InitiatorFromLease
  <2>2. QED
    BY <2>1 DEF Next, InitiatorStep
<1>5. ASSUME NEW k \in DOMAIN grants, NEW r \in Responders,
             ResponderFromInvite(r, k) \/ ResponderFromLease(r, k)
      PROVE  Next
  <2>1. CreateResponder(r)
    BY <1>5 DEF ResponderFromInvite, ResponderFromLease
  <2>2. QED
    BY <2>1 DEF Next, ResponderStep
<1>6. CASE SessionStep
  BY <1>6 DEF SessionStep
<1>7. CASE UNCHANGED authorityVars
  BY <1>7 DEF authorityVars, vars
<1>8. QED
  BY <1>2, <1>3, <1>4, <1>5, <1>6, <1>7 DEF AuthorityNext

\* Sessions with grants behave as sessions: from_invite and from_lease add
\* conditions to with_channel_binding, and nothing else.
THEOREM GrantedSessionsAreSessions == AuthoritySpec => Spec
<1>1. AuthorityInit => Init
  BY DEF AuthorityInit
<1>2. [AuthorityNext]_authorityVars => [Next]_vars
  BY StepOfSessions
<1>3. QED
  BY <1>1, <1>2, PTL DEF AuthoritySpec, Spec

-----------------------------------------------------------------------------
(***************************************************************************)
(* What a session owes to its grant.                                       *)
(***************************************************************************)
InitiatorGranted(i) ==
    /\ Created(initiator[i])
    /\ MadeFrom(initiator[i].setup, GrantFor(i))
    /\ GrantFor(i).type = "Lease" => GrantFor(i).peer = initiator[i].setup.me
    /\ initiator[i].deadline.expires
         <= GrantFor(i).expires + initiator[i].setup.ttl

ResponderGranted(r) ==
    /\ Created(responder[r])
    /\ MadeFrom(responder[r].setup, GrantFor(r))
    /\ GrantFor(r).peer \in {responder[r].setup.me, NoPeer}

GrantInv ==
    /\ AuthorityTypeOK
    /\ \A i \in Initiators : Granted(i) => InitiatorGranted(i)
    /\ \A r \in Responders : Granted(r) => ResponderGranted(r)

\* A session's grant is one of the grants.
LEMMA GrantType ==
    ASSUME AuthorityTypeOK, NEW p \in Sessions, Granted(p)
    PROVE  /\ grantOf[p] \in 1 .. Len(grants) /\ GrantFor(p) \in Ticket \cup Lease
           /\ GrantFor(p).expires \in Nat /\ GrantFor(p).issuer \in Identities
<1>1. grantOf[p] \in 1 .. Len(grants)
  BY LenProperties DEF AuthorityTypeOK, Granted
<1>2. GrantFor(p) \in Ticket \cup Lease
  BY <1>1, ElementOfSeq DEF AuthorityTypeOK, GrantFor
<1>3. QED
  BY <1>1, <1>2 DEF Ticket, Lease

\* Grants are only added: a session that keeps its number keeps its grant.
LEMMA GrantKept ==
    ASSUME AuthorityTypeOK, NEW p \in Sessions, Granted(p),
           grantOf'[p] = grantOf[p],
           \/ grants' = grants
           \/ \E g \in Ticket \cup Lease : grants' = Append(grants, g)
    PROVE  Granted(p)' /\ GrantFor(p)' = GrantFor(p)
<1>1. grantOf[p] \in 1 .. Len(grants)
  BY GrantType
<1>2. grants'[grantOf[p]] = grants[grantOf[p]]
  BY <1>1, AppendProperties DEF AuthorityTypeOK
<1>3. QED
  BY <1>2 DEF Granted, GrantFor

\* A session that goes on under its grant keeps what it owes to it.
LEMMA GrantedLasts ==
    ASSUME Grows, AuthorityTypeOK, NEW p \in Sessions, Granted(p),
           grantOf'[p] = grantOf[p],
           \/ grants' = grants
           \/ \E g \in Ticket \cup Lease : grants' = Append(grants, g)
    PROVE  /\ p \in Initiators /\ InitiatorGranted(p) => InitiatorGranted(p)'
           /\ p \in Responders /\ ResponderGranted(p) => ResponderGranted(p)'
<1>1. GrantFor(p)' = GrantFor(p)
  BY GrantKept
<1>2. ASSUME p \in Initiators, InitiatorGranted(p) PROVE InitiatorGranted(p)'
  BY <1>1, <1>2 DEF Grows, InitiatorGrows, InitiatorGranted, MadeFrom
<1>3. ASSUME p \in Responders, ResponderGranted(p) PROVE ResponderGranted(p)'
  BY <1>1, <1>3 DEF Grows, ResponderGrows, ResponderGranted, MadeFrom
<1>4. QED
  BY <1>2, <1>3

SameTerms(l, m) == l.sid = m.sid /\ l.issuer = m.issuer /\ l.peer = m.peer

\* A new lease begins a chain, or renews a lease on the terms of that one.
Continues(g) ==
    g.type = "Lease" =>
        \/ (g.parent = 0 /\ g.renew_count = 0)
        \/ /\ g.parent \in Leases
           /\ SameTerms(g, grants[g.parent])
           /\ g.renew_count = grants[g.parent].renew_count + 1

\* Issuing and renewing make well-typed grants that continue their chains.
LEMMA GrantAdded ==
    ASSUME TypeOK, AuthorityTypeOK,
           IssueInvite \/ IssueLease \/ \E k \in DOMAIN grants : RenewLease(k)
    PROVE  /\ \E g \in Ticket \cup Lease : Continues(g) /\ grants' = Append(grants, g)
           /\ UNCHANGED <<initiator, responder, msgs, clock, grantOf>>
<1>1. \A identity \in Identities : IssueTime(identity) \in Nat
  BY TermsAssumption, BoundAssumption DEF TypeOK, IssueTime, Time
<1>2. \A now, ttl \in Nat : Expiry(now, ttl) \in Nat
  BY DEF Expiry
<1>3. CASE IssueInvite
  <2>1. PICK t \in InviteTerms : Grant(InviteOf(t, IssueTime(t.issuer)))
    BY <1>3 DEF IssueInvite
  <2>2. InviteOf(t, IssueTime(t.issuer)) \in Ticket
    BY <1>1, <1>2, TermsAssumption DEF InviteOf, InviteTerm, Ticket
  <2>3. QED
    BY <2>1, <2>2 DEF Grant, Continues, Ticket
<1>4. CASE IssueLease
  <2>1. PICK t \in LeaseTerms : Grant(LeaseOf(t, IssueTime(t.issuer)))
    BY <1>4 DEF IssueLease
  <2>2. LeaseOf(t, IssueTime(t.issuer)) \in Lease
    BY <1>1, <1>2, TermsAssumption DEF LeaseOf, LeaseTerm, Lease
  <2>3. Continues(LeaseOf(t, IssueTime(t.issuer)))
    BY DEF Continues, LeaseOf
  <2>4. QED
    BY <2>1, <2>2, <2>3 DEF Grant
<1>5. ASSUME NEW k \in DOMAIN grants, RenewLease(k)
      PROVE  /\ \E g \in Ticket \cup Lease : Continues(g) /\ grants' = Append(grants, g)
             /\ UNCHANGED <<initiator, responder, msgs, clock, grantOf>>
  <2>1. PICK ttl \in RenewTtls : Grant(RenewalOf(k, IssueTime(grants[k].issuer), ttl))
    BY <1>5 DEF RenewLease
  <2>2. k \in 1 .. Len(grants) /\ grants[k] \in Ticket \cup Lease
    BY <1>5, LenProperties, ElementOfSeq DEF AuthorityTypeOK
  <2>3. k \in Nat /\ grants[k] \in Lease
    BY <1>5, <2>2, LenProperties DEF RenewLease, Ticket, AuthorityTypeOK
  <2> DEFINE now == IssueTime(grants[k].issuer)
  <2>4. now \in Nat
    BY <1>1, <2>3 DEF Lease
  <2>5. Expiry(now, ttl) \in Nat
    BY <1>2, <2>1, <2>4, TermsAssumption
  <2> HIDE DEF now
  <2>6. RenewalOf(k, now, ttl) \in Lease
    <3>1. grants[k].renew_count + 1 \in Nat
      BY <2>3 DEF Lease
    <3>2. QED
      BY <2>3, <2>4, <2>5, <3>1 DEF RenewalOf, Lease
  <2>7. Continues(RenewalOf(k, now, ttl))
    BY <1>5, <2>3 DEF Continues, SameTerms, RenewalOf, RenewLease, Leases, Lease
  <2> USE DEF now
  <2>8. QED
    BY <2>1, <2>6, <2>7 DEF Grant
<1>6. QED
  BY <1>3, <1>4, <1>5

\* An initiator created from a grant owes it id, peer, identity and deadline.
LEMMA InitiatorFromGrant ==
    ASSUME TypeOK, AuthorityTypeOK, NEW i \in Initiators, NEW k \in DOMAIN grants,
           InitiatorFromInvite(i, k) \/ InitiatorFromLease(i, k)
    PROVE  InitiatorGranted(i)'
<1>1. /\ k \in 1 .. Len(grants) /\ k \in Nat /\ grants[k] \in Ticket \cup Lease
      /\ grants[k].expires \in Nat
  BY LenProperties, ElementOfSeq DEF AuthorityTypeOK, Ticket, Lease
<1>2. /\ CreateInitiator(i) /\ From(i, k)
      /\ MadeFrom(initiator'[i].setup, grants[k])
      /\ grants[k].type = "Lease" => LeasedTo(grants[k], initiator'[i].setup.me)
  BY DEF InitiatorFromInvite, InitiatorFromLease
<1>3. GrantFor(i)' = grants[k]
  BY <1>2 DEF From, GrantFor, AuthorityTypeOK, Sessions
<1>4. PICK s \in InitiatorSetups :
        initiator'[i] = [setup |-> s, state |-> "Created",
                         deadline |-> NewDeadline(Clock(i), s.ttl),
                         rnonce |-> NoNonce, theirs |-> <<>>,
                         verified |-> NoPeer, result |-> NoResult]
  BY <1>2 DEF CreateInitiator, TypeOK
<1>5. initiator'[i].deadline.expires <= grants[k].expires + initiator'[i].setup.ttl
  <2>1. Clock(i) \in Nat /\ s.ttl \in Nat
    BY ClockType, SetupAssumption DEF Setup
  <2>2. Clock(i) <= grants[k].expires
    BY <1>2 DEF From, InWindow
  <2>3. initiator'[i].deadline.expires = Clock(i) + s.ttl
    BY <1>4 DEF NewDeadline
  <2>4. initiator'[i].setup.ttl = s.ttl
    BY <1>4
  <2>5. QED
    BY <1>1, <2>1, <2>2, <2>3, <2>4
<1>6. initiator'[i] # Absent
  BY <1>2, CreateInitiatorGrows, NullAssumption
<1>7. grants[k].type = "Lease" => grants[k].peer = initiator'[i].setup.me
  BY <1>2 DEF LeasedTo
<1>8. QED
  BY <1>2, <1>3, <1>5, <1>6, <1>7 DEF InitiatorGranted, Created, MadeFrom

\* A responder created from a grant owes it id, peer and identity.
LEMMA ResponderFromGrant ==
    ASSUME TypeOK, AuthorityTypeOK, NEW r \in Responders, NEW k \in DOMAIN grants,
           ResponderFromInvite(r, k) \/ ResponderFromLease(r, k)
    PROVE  ResponderGranted(r)'
<1>1. /\ CreateResponder(r) /\ From(r, k)
      /\ MadeFrom(responder'[r].setup, grants[k])
      /\ grants[k].peer \in {responder'[r].setup.me, NoPeer}
  BY DEF ResponderFromInvite, ResponderFromLease, Invites, LeasedTo
<1>2. GrantFor(r)' = grants[k]
  BY <1>1 DEF From, GrantFor, AuthorityTypeOK, Sessions
<1>3. responder'[r] # Absent
  BY <1>1, CreateResponderGrows, NullAssumption
<1>4. QED
  BY <1>1, <1>2, <1>3 DEF ResponderGranted, Created, MadeFrom

\* GrantInv is inductive: grants are only added, a session keeps its setup and
\* its deadline, and only one that did not exist takes a grant.
LEMMA GrantInvNext ==
    ASSUME TypeOK, GrantInv, [AuthorityNext]_authorityVars
    PROVE  GrantInv'
<1>1. AuthorityTypeOK /\ Len(grants) \in Nat
  BY LenProperties DEF GrantInv, AuthorityTypeOK
<1>2. Grows
  BY StepOfSessions, StepGrows
<1>3. CASE \/ IssueInvite \/ IssueLease
           \/ \E k \in DOMAIN grants : RenewLease(k)
  <2>1. PICK g \in Ticket \cup Lease : grants' = Append(grants, g)
    BY <1>1, <1>3, GrantAdded
  <2>2. UNCHANGED <<initiator, responder, msgs, clock, grantOf>>
    BY <1>1, <1>3, GrantAdded
  <2>3. AuthorityTypeOK'
    <3>1. grants' \in Seq(Ticket \cup Lease) /\ Len(grants') = Len(grants) + 1
      BY <1>1, <2>1, AppendProperties DEF AuthorityTypeOK
    <3>2. QED
      BY <1>1, <2>2, <3>1 DEF AuthorityTypeOK
  <2>4. \A p \in Sessions : Granted(p)' => Granted(p)
    BY <2>2 DEF Granted
  <2>5. QED
    BY <1>1, <1>2, <2>1, <2>2, <2>3, <2>4, GrantedLasts DEF GrantInv, Sessions
<1>4. ASSUME NEW p \in Sessions, NEW k \in DOMAIN grants, From(p, k),
             p \in Initiators  => InitiatorGranted(p)',
             p \in Responders => ResponderGranted(p)'
      PROVE  GrantInv'
  <2>1. k \in 1 .. Len(grants) /\ k \in Nat
    BY <1>1, LenProperties DEF AuthorityTypeOK
  <2>2. grants' = grants /\ grantOf' = [grantOf EXCEPT ![p] = k]
    BY <1>4 DEF From
  <2>3. AuthorityTypeOK'
    BY <1>1, <2>1, <2>2 DEF AuthorityTypeOK
  <2>4. \A q \in Sessions : q # p => grantOf'[q] = grantOf[q]
    BY <1>1, <2>2 DEF AuthorityTypeOK
  <2>5. \A q \in Sessions : q # p /\ Granted(q)' => Granted(q)
    BY <2>4 DEF Granted
  <2>6. ASSUME NEW i \in Initiators, Granted(i)' PROVE InitiatorGranted(i)'
    BY <1>1, <1>2, <1>4, <2>2, <2>4, <2>5, <2>6, GrantedLasts DEF GrantInv, Sessions
  <2>7. ASSUME NEW r \in Responders, Granted(r)' PROVE ResponderGranted(r)'
    BY <1>1, <1>2, <1>4, <2>2, <2>4, <2>5, <2>7, GrantedLasts DEF GrantInv, Sessions
  <2>8. QED
    BY <2>3, <2>6, <2>7 DEF GrantInv
<1>5. ASSUME NEW k \in DOMAIN grants, NEW i \in Initiators,
             InitiatorFromInvite(i, k) \/ InitiatorFromLease(i, k)
      PROVE  GrantInv'
  <2>1. From(i, k) /\ InitiatorGranted(i)'
    BY <1>1, <1>5, InitiatorFromGrant DEF InitiatorFromInvite, InitiatorFromLease
  <2>2. i \notin Responders /\ i \in Sessions
    BY SessionAssumption DEF Sessions
  <2>3. QED
    BY <1>4, <2>1, <2>2
<1>6. ASSUME NEW k \in DOMAIN grants, NEW r \in Responders,
             ResponderFromInvite(r, k) \/ ResponderFromLease(r, k)
      PROVE  GrantInv'
  <2>1. From(r, k) /\ ResponderGranted(r)'
    BY <1>1, <1>6, ResponderFromGrant DEF ResponderFromInvite, ResponderFromLease
  <2>2. r \notin Initiators /\ r \in Sessions
    BY SessionAssumption DEF Sessions
  <2>3. QED
    BY <1>4, <2>1, <2>2
<1>7. CASE SessionStep \/ UNCHANGED authorityVars
  <2>1. UNCHANGED <<grants, grantOf>>
    BY <1>7 DEF SessionStep, authorityVars
  <2>2. AuthorityTypeOK'
    BY <1>1, <2>1 DEF AuthorityTypeOK
  <2>3. \A p \in Sessions : Granted(p)' => Granted(p)
    BY <2>1 DEF Granted
  <2>4. QED
    BY <1>1, <1>2, <2>1, <2>2, <2>3, GrantedLasts DEF GrantInv, Sessions
<1>8. QED
  BY <1>3, <1>5, <1>6, <1>7 DEF AuthorityNext

\* A granted session keeps the id, the peer, the identity and the deadline its
\* grant gave it.
THEOREM GrantsHold == AuthoritySpec => []GrantInv
<1>1. AuthorityInit => GrantInv
  BY EmptySeq, LenProperties
     DEF AuthorityInit, GrantInv, AuthorityTypeOK, Granted, Sessions
<1>2. TypeOK /\ GrantInv /\ [AuthorityNext]_authorityVars => GrantInv'
  BY GrantInvNext
<1>3. QED
  BY <1>1, <1>2, GrantedSessionsAreSessions, TypeCorrect, PTL DEF AuthoritySpec

\* Grants and the grants of sessions keep their types.
THEOREM AuthorityTypeCorrect == AuthoritySpec => []AuthorityTypeOK
<1>1. GrantInv => AuthorityTypeOK
  BY DEF GrantInv
<1>2. QED
  BY <1>1, GrantsHold, PTL

-----------------------------------------------------------------------------
(***************************************************************************)
(* The promises of a grant.                                                *)
(***************************************************************************)
\* A granted session is bound to the issuer of its grant.
LEMMA GrantedSessionsBound ==
    ASSUME GrantInv
    PROVE  /\ \A i \in Initiators : Granted(i) =>
                /\ Bound(initiator[i])
                /\ initiator[i].setup.sid = GrantFor(i).sid
                /\ initiator[i].setup.peer = GrantFor(i).issuer
           /\ \A r \in Responders : Granted(r) =>
                /\ Bound(responder[r])
                /\ responder[r].setup.sid = GrantFor(r).sid
                /\ responder[r].setup.peer = GrantFor(r).issuer
<1>1. \A p \in Sessions : Granted(p) => GrantFor(p).issuer # NoPeer
  BY GrantType, NullAssumption DEF GrantInv
<1>2. QED
  BY <1>1
     DEF GrantInv, InitiatorGranted, ResponderGranted, MadeFrom, Bound, Sessions

\* So BoundPeers speaks of it.
LEMMA GrantedSessionsMeetHolds ==
    ASSUME IInv, GrantInv, BoundPeers
    PROVE  GrantedSessionsMeet
<1>1. SUFFICES ASSUME SignedCallsOnly PROVE GrantedSessionsMeet
  BY DEF GrantedSessionsMeet
<1>2. ASSUME NEW i \in Initiators, Granted(i), Complete(initiator[i])
      PROVE  \E r \in RespondersOf(GrantFor(i).sid), j \in InitiatorsOf(GrantFor(i).sid) :
                /\ MetResponder(i, r, j, GrantFor(i).issuer)
                /\ Granted(r) => OfferSigned(j, GrantFor(r).issuer)
  <2>1. PICK r \in RespondersOf(initiator[i].setup.sid),
             j \in InitiatorsOf(initiator[i].setup.sid) :
               MetResponder(i, r, j, initiator[i].setup.peer)
    BY <1>1, <1>2, GrantedSessionsBound DEF BoundPeers
  <2>2. Granted(r) => OfferSigned(j, GrantFor(r).issuer)
    BY <2>1, GrantedSessionsBound DEF MetResponder, RespondersOf
  <2>3. QED
    BY <1>2, <2>1, <2>2, GrantedSessionsBound
<1>3. ASSUME NEW r \in Responders, Granted(r), Complete(responder[r])
      PROVE  \E i, j \in InitiatorsOf(GrantFor(r).sid) :
                /\ MetInitiator(r, i, j, GrantFor(r).issuer)
                /\ Granted(i) => ReplySigned(r, GrantFor(i).issuer)
  <2>1. PICK i, j \in InitiatorsOf(responder[r].setup.sid) :
               MetInitiator(r, i, j, responder[r].setup.peer)
    BY <1>1, <1>3, GrantedSessionsBound DEF BoundPeers
  <2>2. ASSUME Granted(i)
        PROVE  ReplySigned(r, GrantFor(i).issuer)
    <3>1. i \in Initiators /\ Created(initiator[i])
      BY <2>1 DEF InitiatorsOf
    <3>2. initiator[i].setup.fresh
      BY <2>2, <3>1, GrantedSessionsBound DEF IInv, InitiatorsTraced, WellFormed, Bound
    <3>3. QED
      BY <2>1, <2>2, <3>1, <3>2, GrantedSessionsBound DEF MetInitiator
  <2>3. QED
    BY <1>3, <2>1, <2>2, GrantedSessionsBound
<1>4. QED
  BY <1>2, <1>3 DEF GrantedSessionsMeet

\* Granted sessions complete only with sessions that signed as the issuer of
\* the grant, and a granted partner had this session's signature as the issuer
\* of its own.
THEOREM GrantedSessionsAlwaysMeet == AuthoritySpec => []GrantedSessionsMeet
<1>1. IInv /\ GrantInv /\ BoundPeers => GrantedSessionsMeet
  BY GrantedSessionsMeetHolds
<1>2. QED
  BY <1>1, GrantsHold, GrantedSessionsAreSessions, Traced, BoundSessionsMeet, PTL

\* An initiator completes at most two TTLs after its grant has expired: the
\* deadline it drew when it was created is a TTL from a time in the window.
THEOREM GrantsAreNotOutlived == AuthoritySpec => GrantNotOutlived
<1>1. ASSUME IInv, GrantInv, [AuthorityNext]_authorityVars,
             NEW i \in Initiators, Granted(i),
             initiator[i].state = "AwaitingReply",
             initiator'[i].state = "Complete", initiator'[i].rnonce # NoNonce
      PROVE  Clock(i) < GrantFor(i).expires + initiator[i].setup.ttl
                           + responder[initiator'[i].rnonce].setup.ttl
  <2>1. InitiatorGranted(i) /\ Created(initiator[i])
    BY <1>1 DEF GrantInv, InitiatorGranted
  <2>2. /\ Clock(i) < initiator[i].deadline.expires
                         + responder[initiator'[i].rnonce].setup.ttl
        /\ responder[initiator'[i].rnonce].setup.ttl \in Nat
    BY <1>1, <2>1, StepOfSessions, RoundTripStep
  <2>3. initiator[i].deadline.expires <= GrantFor(i).expires + initiator[i].setup.ttl
    BY <2>1 DEF InitiatorGranted
  <2>4. /\ initiator[i].deadline.expires \in Nat /\ initiator[i].setup.ttl \in Nat
        /\ Clock(i) \in Nat
    BY <1>1, <2>1, CreatedType, ClockType
       DEF IInv, InitiatorSession, Deadline, Setup
  <2>5. GrantFor(i).expires \in Nat
    BY <1>1, GrantType DEF GrantInv, Sessions
  <2>6. QED
    BY <2>2, <2>3, <2>4, <2>5
<1>2. IInv /\ GrantInv /\ [AuthorityNext]_authorityVars =>
        [\A i \in Initiators :
          /\ Granted(i)
          /\ initiator[i].state = "AwaitingReply"
          /\ initiator'[i].state = "Complete" /\ initiator'[i].rnonce # NoNonce
          => Clock(i) < GrantFor(i).expires + initiator[i].setup.ttl
                           + responder[initiator'[i].rnonce].setup.ttl
        ]_authorityVars
  BY <1>1
<1>3. QED
  BY <1>2, GrantsHold, GrantedSessionsAreSessions, Traced, PTL
     DEF AuthoritySpec, GrantNotOutlived

-----------------------------------------------------------------------------
(***************************************************************************)
(* Chains of renewals.                                                     *)
(***************************************************************************)
\* The equations that define Root and Depth.
IsRoot(f) ==
    f = [k \in Leases |->
            IF grants[k].parent = 0 THEN k ELSE f[grants[k].parent]]

IsDepth(f) ==
    f = [k \in Leases |->
            IF grants[k].parent = 0 THEN 0 ELSE f[grants[k].parent] + 1]

\* That the equations have solutions, and what every solution says, is kept
\* by each renewal: an induction over the steps of a behaviour in the place of
\* one along the chain.
ChainInv ==
    /\ \A k \in Leases : grants[k].parent = 0 \/ grants[k].parent \in Leases
    /\ \E f : IsRoot(f)
    /\ \E f : IsDepth(f)
    /\ \A f : IsRoot(f) => \A k \in Leases :
           f[k] \in Leases /\ SameTerms(grants[k], grants[f[k]])
    /\ \A f : IsDepth(f) => \A k \in Leases : f[k] = grants[k].renew_count

\* Root and Depth solve their equations.
LEMMA ChainsDefined ==
    ASSUME ChainInv
    PROVE  IsRoot(Root) /\ IsDepth(Depth)
<1>1. Root = CHOOSE f : IsRoot(f)
  BY DEF Root, IsRoot
<1>2. Depth = CHOOSE f : IsDepth(f)
  BY DEF Depth, IsDepth
<1>3. QED
  BY <1>1, <1>2 DEF ChainInv

\* What a new grant does to the set of leases.
LEMMA LeasesGrow ==
    ASSUME AuthorityTypeOK, NEW g \in Ticket \cup Lease, grants' = Append(grants, g)
    PROVE  /\ Len(grants) + 1 \notin Leases /\ 0 \notin Leases
           /\ \A k \in Leases : grants'[k] = grants[k]
           /\ grants'[Len(grants) + 1] = g
           /\ Leases' = IF g.type = "Lease" THEN Leases \cup {Len(grants) + 1} ELSE Leases
<1>1. /\ Len(grants) \in Nat /\ DOMAIN grants = 1 .. Len(grants)
      /\ grants' \in Seq(Ticket \cup Lease) /\ Len(grants') = Len(grants) + 1
      /\ \A k \in 1 .. Len(grants) : grants'[k] = grants[k]
      /\ grants'[Len(grants) + 1] = g
  BY LenProperties, AppendProperties DEF AuthorityTypeOK
<1>2. DOMAIN grants' = 1 .. Len(grants) + 1
  BY <1>1, LenProperties
<1>3. Len(grants) + 1 \notin Leases /\ 0 \notin Leases
  BY <1>1 DEF Leases
<1>4. ASSUME NEW k
      PROVE  k \in Leases' <=>
               k \in Leases \/ (g.type = "Lease" /\ k = Len(grants) + 1)
  <2>1. k \in DOMAIN grants' <=> k \in DOMAIN grants \/ k = Len(grants) + 1
    BY <1>1, <1>2
  <2>2. QED
    BY <1>1, <1>2, <2>1 DEF Leases
<1>5. QED
  BY <1>1, <1>3, <1>4 DEF Leases

\* A ticket has no part in the chains.
LEMMA TicketApart ==
    ASSUME AuthorityTypeOK, ChainInv, NEW g \in Ticket \cup Lease, g.type # "Lease",
           grants' = Append(grants, g)
    PROVE  ChainInv'
<1>1. Leases' = Leases /\ \A k \in Leases : grants'[k] = grants[k]
  BY LeasesGrow
<1>2. ASSUME NEW f PROVE IsRoot(f)' <=> IsRoot(f)
  BY <1>1 DEF IsRoot
<1>3. ASSUME NEW f PROVE IsDepth(f)' <=> IsDepth(f)
  BY <1>1 DEF IsDepth
<1>4. (\E f : IsRoot(f))' /\ (\E f : IsDepth(f))'
  BY <1>2, <1>3 DEF ChainInv
<1>5. ASSUME NEW f, IsRoot(f)', NEW k \in Leases
      PROVE  f[k] \in Leases' /\ SameTerms(grants'[k], grants'[f[k]])
  <2>1. IsRoot(f)
    BY <1>2, <1>5
  <2>2. QED
    BY <1>1, <2>1 DEF ChainInv
<1>6. ASSUME NEW f, IsDepth(f)', NEW k \in Leases
      PROVE  f[k] = grants'[k].renew_count
  <2>1. IsDepth(f)
    BY <1>3, <1>6
  <2>2. f[k] = grants[k].renew_count
    BY <2>1 DEF ChainInv
  <2>3. QED
    BY <1>1, <2>2
<1>7. \A k \in Leases : grants'[k].parent = 0 \/ grants'[k].parent \in Leases
  BY <1>1 DEF ChainInv
<1>8. QED
  BY <1>1, <1>4, <1>5, <1>6, <1>7 DEF ChainInv

\* A lease that continues its chain extends the roots and the depths by its own.
LEMMA ChainsExtended ==
    ASSUME AuthorityTypeOK, ChainInv, NEW g \in Ticket \cup Lease, g.type = "Lease",
           Continues(g), grants' = Append(grants, g)
    PROVE  (\E f : IsRoot(f))' /\ (\E f : IsDepth(f))'
<1> DEFINE n == Len(grants) + 1
<1>1. /\ n \notin Leases /\ 0 \notin Leases
      /\ \A k \in Leases : grants'[k] = grants[k]
      /\ grants'[n] = g /\ Leases' = Leases \cup {n}
  BY LeasesGrow
<1>2. /\ g.parent = 0 \/ g.parent \in Leases
      /\ \A k \in Leases : grants[k].parent = 0 \/ grants[k].parent \in Leases
  BY DEF Continues, ChainInv
<1> HIDE DEF n
<1>3. (\E f : IsRoot(f))'
  <2>1. PICK f : IsRoot(f)
    BY DEF ChainInv
  <2>2. PICK h :
          h = [k \in Leases' |->
                 IF k = n THEN IF g.parent = 0 THEN n ELSE f[g.parent] ELSE f[k]]
    OBVIOUS
  <2>3. h = [k \in Leases' |->
               IF grants'[k].parent = 0 THEN k ELSE h[grants'[k].parent]]
    <3>1. ASSUME NEW k \in Leases'
          PROVE  h[k] = IF grants'[k].parent = 0 THEN k ELSE h[grants'[k].parent]
      <4>1. CASE k = n
        BY <1>1, <1>2, <2>2, <4>1
      <4>2. CASE k # n
        <5>1. k \in Leases /\ h[k] = f[k]
          BY <1>1, <2>2, <4>2
        <5>2. f[k] = IF grants[k].parent = 0 THEN k ELSE f[grants[k].parent]
          BY <2>1, <5>1 DEF IsRoot
        <5>3. QED
          BY <1>1, <1>2, <2>2, <5>1, <5>2
      <4>3. QED
        BY <4>1, <4>2
    <3>2. QED
      BY <2>2, <3>1
  <2>4. IsRoot(h)'
    BY <2>3 DEF IsRoot
  <2>5. QED
    BY <2>4
<1>4. (\E f : IsDepth(f))'
  <2>1. PICK f : IsDepth(f)
    BY DEF ChainInv
  <2>2. PICK h :
          h = [k \in Leases' |->
                 IF k = n THEN IF g.parent = 0 THEN 0 ELSE f[g.parent] + 1 ELSE f[k]]
    OBVIOUS
  <2>3. h = [k \in Leases' |->
               IF grants'[k].parent = 0 THEN 0 ELSE h[grants'[k].parent] + 1]
    <3>1. ASSUME NEW k \in Leases'
          PROVE  h[k] = IF grants'[k].parent = 0 THEN 0 ELSE h[grants'[k].parent] + 1
      <4>1. CASE k = n
        BY <1>1, <1>2, <2>2, <4>1
      <4>2. CASE k # n
        <5>1. k \in Leases /\ h[k] = f[k]
          BY <1>1, <2>2, <4>2
        <5>2. f[k] = IF grants[k].parent = 0 THEN 0 ELSE f[grants[k].parent] + 1
          BY <2>1, <5>1 DEF IsDepth
        <5>3. QED
          BY <1>1, <1>2, <2>2, <5>1, <5>2
      <4>3. QED
        BY <4>1, <4>2
    <3>2. QED
      BY <2>2, <3>1
  <2>4. IsDepth(h)'
    BY <2>3 DEF IsDepth
  <2>5. QED
    BY <2>4
<1>5. QED
  BY <1>3, <1>4

\* Its root is the root of its parent, and its depth one more.
LEMMA ChainContinued ==
    ASSUME AuthorityTypeOK, ChainInv, NEW g \in Ticket \cup Lease, g.type = "Lease",
           Continues(g), grants' = Append(grants, g)
    PROVE  ChainInv'
<1> DEFINE n == Len(grants) + 1
<1>1. /\ n \notin Leases /\ 0 \notin Leases
      /\ \A k \in Leases : grants'[k] = grants[k]
      /\ grants'[n] = g /\ Leases' = Leases \cup {n}
  BY LeasesGrow
<1>2. /\ \A k \in Leases : grants[k].parent = 0 \/ grants[k].parent \in Leases
      /\ \/ g.parent = 0 /\ g.renew_count = 0
         \/ /\ g.parent \in Leases
            /\ SameTerms(g, grants[g.parent])
            /\ g.renew_count = grants[g.parent].renew_count + 1
  BY DEF Continues, ChainInv
<1> HIDE DEF n
<1>3. ASSUME NEW h, IsRoot(h)', NEW k \in Leases'
      PROVE  h[k] \in Leases' /\ SameTerms(grants'[k], grants'[h[k]])
  <2> DEFINE f == [l \in Leases |-> h[l]]
  <2>1. \A l \in Leases' :
          h[l] = IF grants'[l].parent = 0 THEN l ELSE h[grants'[l].parent]
    BY <1>3 DEF IsRoot
  <2>2. IsRoot(f)
    <3>1. ASSUME NEW l \in Leases
          PROVE  f[l] = IF grants[l].parent = 0 THEN l ELSE f[grants[l].parent]
      BY <1>1, <1>2, <2>1
    <3>2. QED
      BY <3>1 DEF IsRoot
  <2>3. \A l \in Leases : h[l] \in Leases /\ SameTerms(grants[l], grants[h[l]])
    BY <2>2 DEF ChainInv
  <2> HIDE DEF f
  <2>4. CASE k \in Leases
    BY <1>1, <2>3, <2>4
  <2>5. CASE k = n
    <3>1. k = n /\ n \in Leases' /\ grants'[n] = g
      BY <1>1, <2>5
    <3>2. CASE g.parent = 0
      <4>1. h[n] = n
        BY <2>1, <3>1, <3>2
      <4>2. QED
        BY <3>1, <4>1 DEF SameTerms
    <3>3. CASE g.parent # 0
      <4>1. h[n] = h[g.parent]
        BY <2>1, <3>1, <3>3
      <4>2. /\ h[g.parent] \in Leases
            /\ SameTerms(g, grants[g.parent])
            /\ SameTerms(grants[g.parent], grants[h[g.parent]])
        BY <1>2, <2>3, <3>3
      <4>3. SameTerms(g, grants[h[g.parent]])
        BY <4>2 DEF SameTerms
      <4>4. QED
        BY <1>1, <3>1, <4>1, <4>2, <4>3
    <3>4. QED
      BY <3>2, <3>3
  <2>6. QED
    BY <1>1, <2>4, <2>5
<1>4. ASSUME NEW h, IsDepth(h)', NEW k \in Leases'
      PROVE  h[k] = grants'[k].renew_count
  <2> DEFINE f == [l \in Leases |-> h[l]]
  <2>1. \A l \in Leases' :
          h[l] = IF grants'[l].parent = 0 THEN 0 ELSE h[grants'[l].parent] + 1
    BY <1>4 DEF IsDepth
  <2>2. IsDepth(f)
    <3>1. ASSUME NEW l \in Leases
          PROVE  f[l] = IF grants[l].parent = 0 THEN 0 ELSE f[grants[l].parent] + 1
      BY <1>1, <1>2, <2>1
    <3>2. QED
      BY <3>1 DEF IsDepth
  <2>3. \A l \in Leases : h[l] = grants[l].renew_count
    BY <2>2 DEF ChainInv
  <2> HIDE DEF f
  <2>4. CASE k \in Leases
    BY <1>1, <2>3, <2>4
  <2>5. CASE k = n
    <3>1. h[n] = IF g.parent = 0 THEN 0 ELSE h[g.parent] + 1
      BY <1>1, <2>1
    <3>2. QED
      BY <1>1, <1>2, <2>3, <2>5, <3>1
  <2>6. QED
    BY <1>1, <2>4, <2>5
<1>5. \A k \in Leases' : grants'[k].parent = 0 \/ grants'[k].parent \in Leases'
  BY <1>1, <1>2
<1>6. (\E f : IsRoot(f))' /\ (\E f : IsDepth(f))'
  BY ChainsExtended
<1>7. QED
  BY <1>3, <1>4, <1>5, <1>6 DEF ChainInv

\* ChainInv is inductive.
LEMMA ChainInvNext ==
    ASSUME TypeOK, AuthorityTypeOK, ChainInv, [AuthorityNext]_authorityVars
    PROVE  ChainInv'
<1>1. CASE \/ IssueInvite \/ IssueLease
           \/ \E k \in DOMAIN grants : RenewLease(k)
  <2>1. PICK g \in Ticket \cup Lease : Continues(g) /\ grants' = Append(grants, g)
    BY <1>1, GrantAdded
  <2>2. QED
    BY <2>1, TicketApart, ChainContinued
<1>2. CASE grants' = grants
  <2>1. Leases' = Leases
    BY <1>2 DEF Leases
  <2>2. QED
    BY <1>2, <2>1 DEF ChainInv, IsRoot, IsDepth, SameTerms
<1>3. QED
  BY <1>1, <1>2
     DEF AuthorityNext, InitiatorFromInvite, InitiatorFromLease, ResponderFromInvite,
         ResponderFromLease, From, SessionStep, authorityVars

\* Every lease goes back to a first one of the same terms, and counts the steps.
THEOREM ChainsHold == AuthoritySpec => []ChainInv
<1>1. AuthorityInit => ChainInv
  <2> SUFFICES ASSUME AuthorityInit PROVE ChainInv
    OBVIOUS
  <2>1. Leases = {}
    BY EmptySeq, LenProperties DEF AuthorityInit, Leases
  <2> DEFINE e == [k \in {} |-> 0]
  <2>2. IsRoot(e) /\ IsDepth(e)
    BY <2>1 DEF IsRoot, IsDepth
  <2>3. QED
    BY <2>1, <2>2 DEF ChainInv
<1>2. TypeOK /\ AuthorityTypeOK /\ ChainInv /\ [AuthorityNext]_authorityVars => ChainInv'
  BY ChainInvNext
<1>3. QED
  BY <1>1, <1>2, GrantedSessionsAreSessions, TypeCorrect, AuthorityTypeCorrect, PTL
     DEF AuthoritySpec

\* A session from a lease is the one the first lease of the chain was issued
\* for, however often renew was called, and renew_count is the number of calls.
THEOREM LeasesAlwaysRooted == AuthoritySpec => []LeasesRooted
<1>1. ASSUME GrantInv, ChainInv PROVE LeasesRooted
  <2> SUFFICES ASSUME NEW p \in Sessions, Granted(p), GrantFor(p).type = "Lease"
               PROVE  LET first == grants[Root[grantOf[p]]]
                      IN  /\ SetupOf(p).sid = first.sid
                          /\ SetupOf(p).me = first.peer
                          /\ SetupOf(p).peer = first.issuer
                          /\ GrantFor(p).renew_count = Depth[grantOf[p]]
    BY DEF LeasesRooted
  <2>1. grantOf[p] \in 1 .. Len(grants) /\ GrantFor(p) \in Lease
    BY <1>1, GrantType DEF GrantInv, Ticket
  <2>2. grantOf[p] \in Leases
    BY <1>1, <2>1, LenProperties DEF GrantInv, AuthorityTypeOK, Leases, GrantFor
  <2>3. /\ SameTerms(GrantFor(p), grants[Root[grantOf[p]]])
        /\ GrantFor(p).renew_count = Depth[grantOf[p]]
    BY <1>1, <2>2, ChainsDefined DEF ChainInv, GrantFor
  <2>4. /\ SetupOf(p).sid = GrantFor(p).sid /\ SetupOf(p).me = GrantFor(p).peer
        /\ SetupOf(p).peer = GrantFor(p).issuer
    <3>1. CASE p \in Initiators
      BY <1>1, <3>1 DEF GrantInv, InitiatorGranted, MadeFrom, SetupOf
    <3>2. CASE p \in Responders
      <4>1. p \notin Initiators
        BY <3>2, SessionAssumption
      <4>2. GrantFor(p).peer # NoPeer
        BY <2>1, NullAssumption DEF Lease
      <4>3. QED
        BY <1>1, <3>2, <4>1, <4>2 DEF GrantInv, ResponderGranted, MadeFrom, SetupOf
    <3>3. QED
      BY <3>1, <3>2 DEF Sessions
  <2>5. QED
    BY <2>3, <2>4 DEF SameTerms
<1>2. QED
  BY <1>1, GrantsHold, ChainsHold, PTL
=============================================================================
