----------------------------- MODULE Authority -----------------------------
(***************************************************************************)
(* Invite tickets (invite.rs), session leases (lease.rs), and the sessions *)
(* that are created from them.                                             *)
(*                                                                         *)
(* An identity signs a grant (a ticket or a lease) that names a session id *)
(* and a time window; whoever holds the grant may create a session from    *)
(* it, bound to the identity that issued it.  A lease may be renewed: the  *)
(* new lease names its parent.  Grants are files: everybody may hold any   *)
(* of them, for ever, and use them any number of times.  The issuer itself *)
(* creates its session without a grant, as any session of PsiSession.      *)
(***************************************************************************)
EXTENDS PsiSession

CONSTANTS
    HomeOf,       \* the machine on which an identity issues its grants
    InviteTerms,  \* the tickets that identities may issue
    LeaseTerms,   \* the leases that identities may issue
    RenewTtls,    \* the durations a lease may be renewed for
    MaxGrants     \* bound of the number of grants

VARIABLES
    grants,   \* every ticket and lease issued so far, in the order of issue
    grantOf   \* the grant a session object was created from, or 0

authorityVars == <<initiator, responder, msgs, clock, grants, grantOf>>

-----------------------------------------------------------------------------
Sessions == Initiators \cup Responders

\* AllowedMode: one mode, or any.
AllowedMode == {{"Intersection"}, {"Cardinality"}, Modes}

InviteTerm ==
    [sid : SessionIds, issuer : Identities, peer : Identities \cup {NoPeer},
     modes : AllowedMode, ttl : Nat]

LeaseTerm ==
    [sid : SessionIds, issuer : Identities, peer : Identities, ttl : Nat]

Ticket ==
    [type : {"Ticket"}, sid : SessionIds, issuer : Identities,
     peer : Identities \cup {NoPeer}, modes : AllowedMode,
     issued : Nat, expires : Nat]

\* A grant is named by its place in grants, as a lease_id names a lease; the
\* parent of a lease that is no renewal is 0.
Lease ==
    [type : {"Lease"}, sid : SessionIds, issuer : Identities,
     peer : Identities, issued : Nat, expires : Nat,
     renew_count : Nat, parent : Nat]

ASSUME TermsAssumption ==
    /\ HomeOf \in [Identities -> Hosts]
    /\ InviteTerms \subseteq InviteTerm
    /\ LeaseTerms \subseteq LeaseTerm
    /\ RenewTtls \subseteq Nat
    /\ MaxGrants \in Nat

-----------------------------------------------------------------------------
(***************************************************************************)
(* Issuing and renewing.                                                   *)
(***************************************************************************)
IssueTime(identity) == clock[HomeOf[identity]]

\* Mutant: the duration is taken from the time instead of added.
ExpiryBackwards(now, ttl) == now - ttl

Expiry(now, ttl) == now + ttl

InviteOf(t, now) ==
    [type |-> "Ticket", sid |-> t.sid, issuer |-> t.issuer, peer |-> t.peer,
     modes |-> t.modes, issued |-> now, expires |-> Expiry(now, t.ttl)]

LeaseOf(t, now) ==
    [type |-> "Lease", sid |-> t.sid, issuer |-> t.issuer, peer |-> t.peer,
     issued |-> now, expires |-> Expiry(now, t.ttl),
     renew_count |-> 0, parent |-> 0]

\* Mutant: the new lease takes over the parent of the one it renews.
RenewalOfSibling(k, now, ttl) ==
    [grants[k] EXCEPT !.issued = now, !.expires = Expiry(now, ttl),
                      !.renew_count = @ + 1]

\* The window of the old lease is not looked at, it may have expired.
RenewalOf(k, now, ttl) ==
    [grants[k] EXCEPT !.issued = now, !.expires = Expiry(now, ttl),
                      !.renew_count = @ + 1, !.parent = k]

Grant(g) ==
    /\ Len(grants) < MaxGrants
    /\ grants' = Append(grants, g)
    /\ UNCHANGED <<initiator, responder, msgs, clock, grantOf>>

IssueInvite ==
    \E t \in InviteTerms : Grant(InviteOf(t, IssueTime(t.issuer)))

IssueLease ==
    \E t \in LeaseTerms : Grant(LeaseOf(t, IssueTime(t.issuer)))

\* Only the issuer of the old lease can sign the new one.
RenewLease(k) ==
    /\ grants[k].type = "Lease"
    /\ \E ttl \in RenewTtls :
         Grant(RenewalOf(k, IssueTime(grants[k].issuer), ttl))

-----------------------------------------------------------------------------
(***************************************************************************)
(* Sessions from grants.                                                   *)
(***************************************************************************)
\* Mutant: an expired grant is good.
InWindowForEver(g, now) == g.issued <= now

\* check_validity_window of tickets and leases: both ends are inside.
InWindow(g, now) == g.issued <= now /\ now <= g.expires

\* verify_for_peer of a ticket, which may be for whoever holds it.
Invites(t, identity) == t.peer \in {identity, NoPeer}

\* verify_for_session of a ticket; its session id is compared with itself.
Permits(t, mode) == mode \in t.modes

\* verify_for_peer of a lease.
LeasedTo(l, identity) == l.peer = identity

\* Mutant: the binding is whatever the application passes.
MadeFromAnyIssuer(setup, g) == setup.sid = g.sid /\ setup.peer # NoPeer

\* The session takes its id from the grant and is bound to the issuer.
MadeFrom(setup, g) == setup.sid = g.sid /\ setup.peer = g.issuer

From(p, k) ==
    /\ InWindow(grants[k], Clock(p))
    /\ grantOf' = [grantOf EXCEPT ![p] = k]
    /\ UNCHANGED grants

\* The peer of the ticket is not compared with the local identity.
InitiatorFromInvite(i, k) ==
    /\ grants[k].type = "Ticket"
    /\ From(i, k)
    /\ CreateInitiator(i)
    /\ MadeFrom(initiator'[i].setup, grants[k])
    /\ Permits(grants[k], initiator'[i].setup.mode)

InitiatorFromLease(i, k) ==
    /\ grants[k].type = "Lease"
    /\ From(i, k)
    /\ CreateInitiator(i)
    /\ MadeFrom(initiator'[i].setup, grants[k])
    /\ LeasedTo(grants[k], initiator'[i].setup.me)

ResponderFromInvite(r, k) ==
    /\ grants[k].type = "Ticket"
    /\ From(r, k)
    /\ CreateResponder(r)
    /\ MadeFrom(responder'[r].setup, grants[k])
    /\ Permits(grants[k], responder'[r].setup.mode)
    /\ Invites(grants[k], responder'[r].setup.me)

ResponderFromLease(r, k) ==
    /\ grants[k].type = "Lease"
    /\ From(r, k)
    /\ CreateResponder(r)
    /\ MadeFrom(responder'[r].setup, grants[k])
    /\ LeasedTo(grants[k], responder'[r].setup.me)

-----------------------------------------------------------------------------
AuthorityInit ==
    /\ Init
    /\ grants = <<>>
    /\ grantOf = [p \in Sessions |-> 0]

SessionStep == Next /\ UNCHANGED <<grants, grantOf>>

AuthorityNext ==
    \/ IssueInvite
    \/ IssueLease
    \/ \E k \in DOMAIN grants :
         \/ RenewLease(k)
         \/ \E i \in Initiators :
              InitiatorFromInvite(i, k) \/ InitiatorFromLease(i, k)
         \/ \E r \in Responders :
              ResponderFromInvite(r, k) \/ ResponderFromLease(r, k)
    \/ SessionStep

AuthoritySpec == AuthorityInit /\ [][AuthorityNext]_authorityVars

-----------------------------------------------------------------------------
(***************************************************************************)
(* Properties.                                                             *)
(***************************************************************************)
GrantFor(p) == grants[grantOf[p]]
Granted(p)  == grantOf[p] # 0
SetupOf(p)  == IF p \in Initiators THEN initiator[p].setup ELSE responder[p].setup

\* Grants have the shape of their Rust types, and a session was created from
\* a grant that exists.
AuthorityTypeOK ==
    /\ grants \in Seq(Ticket \cup Lease)
    /\ grantOf \in [Sessions -> Nat]
    /\ \A p \in Sessions : grantOf[p] <= Len(grants)

\* A session that was created from a grant completes only under the grant's
\* session id and with sessions that signed as the identity that issued the
\* grant, or the renewed one; a partner that was created from a grant of its
\* own got the signature of that grant's issuer from this session.
GrantedSessionsMeet ==
    SignedCallsOnly =>
        /\ \A i \in Initiators : Granted(i) /\ Complete(initiator[i]) =>
             \E r \in RespondersOf(GrantFor(i).sid), j \in InitiatorsOf(GrantFor(i).sid) :
                /\ MetResponder(i, r, j, GrantFor(i).issuer)
                /\ Granted(r) => OfferSigned(j, GrantFor(r).issuer)
        /\ \A r \in Responders : Granted(r) /\ Complete(responder[r]) =>
             \E i, j \in InitiatorsOf(GrantFor(r).sid) :
                /\ MetInitiator(r, i, j, GrantFor(r).issuer)
                /\ Granted(i) => ReplySigned(r, GrantFor(i).issuer)

\* The grant is checked once, when the session is created.  An initiator that
\* was created from it still completes no later than its own TTL and the
\* responder's after the grant has expired, on its own clock, whatever the
\* clocks of the issuer and the responder show and however they are stepped.
GrantNotOutlived ==
    [][\A i \in Initiators :
          /\ Granted(i)
          /\ initiator[i].state = "AwaitingReply"
          /\ initiator'[i].state = "Complete" /\ initiator'[i].rnonce # NoNonce
          => Clock(i) < GrantFor(i).expires + initiator[i].setup.ttl
                           + responder[initiator'[i].rnonce].setup.ttl
      ]_authorityVars

Leases == {k \in DOMAIN grants : grants[k].type = "Lease"}

\* The lease a chain of renewals began with, and the number of renewals.
Root[k \in Leases] ==
    IF grants[k].parent = 0 THEN k ELSE Root[grants[k].parent]

Depth[k \in Leases] ==
    IF grants[k].parent = 0 THEN 0 ELSE Depth[grants[k].parent] + 1

\* However often a lease was renewed before a session is created from it, the
\* session has the id, the identity and the peer that the first lease of the
\* chain was issued for, and renew_count counts the renewals.
LeasesRooted ==
    \A p \in Sessions : Granted(p) /\ GrantFor(p).type = "Lease" =>
        LET first == grants[Root[grantOf[p]]]
        IN  /\ SetupOf(p).sid = first.sid
            /\ SetupOf(p).me = first.peer
            /\ SetupOf(p).peer = first.issuer
            /\ GrantFor(p).renew_count = Depth[grantOf[p]]
=============================================================================
