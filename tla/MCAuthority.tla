---------------------------- MODULE MCAuthority ----------------------------
(***************************************************************************)
(* Instances of Authority for TLC.                                         *)
(***************************************************************************)
EXTENDS Authority

CONSTANTS i1, r1, alice, bob, carol

MCIdsOf == [F \in SUBSET Facts |-> IF F = {} THEN <<>> ELSE <<1>>]

MCHostOf == [p \in Initiators \cup Responders |->
                IF p \in Initiators THEN "a" ELSE "b"]

MCHomeOf == [p \in Identities |-> IF p = bob THEN "b" ELSE "a"]

Party(me, peer, mode) ==
    [sid |-> "s", facts |-> {1}, mode |-> mode, fresh |-> TRUE, ttl |-> 1,
     signed |-> TRUE, me |-> me, peer |-> peer]

Unbound(fresh) ==
    [sid |-> "s", facts |-> {1}, mode |-> "Intersection", fresh |-> fresh, ttl |-> 1,
     signed |-> FALSE, me |-> NoPeer, peer |-> NoPeer]

Invite(issuer, peer, modes) ==
    [sid |-> "s", issuer |-> issuer, peer |-> peer, modes |-> modes, ttl |-> 0]

LeaseFor(issuer, peer) == [sid |-> "s", issuer |-> issuer, peer |-> peer, ttl |-> 0]

\* alice meets bob by his ticket or lease: what clocks and renewals do.
TimedInitiators == {Party(alice, bob, "Intersection")}
TimedResponders == {Party(bob, alice, "Intersection")}
TimedInvites    == {Invite(bob, alice, Modes)}
TimedLeases     == {LeaseFor(bob, alice)}

\* alice and carol meet bob, who may be waiting for either, beside sessions
\* that are not bound, of both versions, and may sign as anybody.
MeetingInitiators ==
    {Party(alice, bob, "Intersection"), Party(carol, bob, "Cardinality"),
     Unbound(TRUE), Unbound(FALSE)}
MeetingResponders ==
    {Party(bob, alice, "Intersection"), Party(bob, carol, "Intersection"),
     Unbound(TRUE), Unbound(FALSE)}
MeetingInvites ==
    {Invite(bob, alice, Modes), Invite(alice, NoPeer, {"Intersection"})}
MeetingLeases == {LeaseFor(bob, alice), LeaseFor(carol, bob)}

MCInitiatorSetups == TimedInitiators \cup MeetingInitiators
MCResponderSetups == TimedResponders \cup MeetingResponders
MCInvites == TimedInvites \cup MeetingInvites
MCLeases  == TimedLeases \cup MeetingLeases

\* Bound: the clocks move only where alice meets bob and nobody signs as carol.
StillOrTimed ==
    \/ \A h \in Hosts : clock[h] = 0
    \/ /\ \A i \in Initiators :
            Created(initiator[i]) => initiator[i].setup \in TimedInitiators
       /\ \A r \in Responders :
            Created(responder[r]) => responder[r].setup \in TimedResponders
       /\ \A k \in DOMAIN grants : grants[k].issuer = bob /\ grants[k].peer = alice
       /\ \A m \in msgs : m.signer # carol
=============================================================================
