---------------------------- MODULE MCPsiSession ----------------------------
(***************************************************************************)
(* Instances of PsiSession for TLC.                                        *)
(***************************************************************************)
EXTENDS PsiSessionIdeal, TLC

CONSTANTS i1, i2, r1, r2, alice, bob, carol

MCInitiators2 == {i1, i2}
MCResponders2 == {r1, r2}
MCInitiators1 == {i1}
MCResponders1 == {r1}

MCIdsOf ==
    [F \in SUBSET Facts |->
        CHOOSE s \in [1 .. Cardinality(F) -> F] :
            \A k, l \in 1 .. Cardinality(F) : k < l => s[k] < s[l]]

MCOneHost  == [p \in Initiators \cup Responders |-> "host"]
MCTwoHosts == [p \in Initiators \cup Responders |->
                  IF p \in Initiators THEN "a" ELSE "b"]

Plain(sid, facts, mode, fresh, ttl) ==
    [sid |-> sid, facts |-> facts, mode |-> mode, fresh |-> fresh, ttl |-> ttl,
     signed |-> FALSE, me |-> NoPeer, peer |-> NoPeer]

BoundTo(facts, me, peer) ==
    [sid |-> "s", facts |-> facts, mode |-> "Intersection", fresh |-> TRUE,
     ttl |-> 2, signed |-> TRUE, me |-> me, peer |-> peer]

\* v2 sessions that retry under one id, with sets of different sizes.
FreshInitiators ==
    {Plain("s", {1, 2}, "Intersection", TRUE, 1), Plain("s", {2}, "Cardinality", TRUE, 1)}
FreshResponders ==
    {Plain("s", {2, 3}, "Intersection", TRUE, 1), Plain("s", {1}, "Intersection", TRUE, 2)}

\* v1 and v2 sessions under one id, and another id.
MixedInitiators ==
    {Plain("s", {1, 2}, "Intersection", TRUE, 1), Plain("s", {2, 3}, "Intersection", FALSE, 1)}
MixedResponders ==
    {Plain("s", {2, 3}, "Intersection", TRUE, 1), Plain("s", {1, 2}, "Cardinality", FALSE, 1),
     Plain("t", {2}, "Intersection", FALSE, 1)}

\* Bound sessions beside unbound v1 and v2 ones, all of which may sign.
BoundInitiators ==
    {Plain("s", {1, 2}, "Intersection", TRUE, 1), Plain("s", {2}, "Intersection", FALSE, 1),
     BoundTo({1, 2}, alice, bob)}
BoundResponders ==
    {Plain("s", {2, 3}, "Intersection", TRUE, 1), Plain("s", {1}, "Intersection", FALSE, 1),
     BoundTo({2, 3}, bob, alice), BoundTo({1}, alice, bob)}

MixedOrBoundInitiators == MixedInitiators \cup BoundInitiators
MixedOrBoundResponders == MixedResponders \cup BoundResponders

Setups(sessions, of) == {sessions[p].setup : p \in {q \in of : Created(sessions[q])}}

\* Bound: with more than one identity, or a bound session, a second responder
\* is not created and every session is for "s".
OneResponderIfBound ==
    \/ /\ Setups(initiator, Initiators) \subseteq MixedInitiators
       /\ Setups(responder, Responders) \subseteq MixedResponders
       /\ \A m \in msgs : m.signer \in {alice, NoSigner}
    \/ /\ Setups(initiator, Initiators) \subseteq BoundInitiators
       /\ Setups(responder, Responders) \subseteq BoundResponders
       /\ Cardinality({r \in Responders : Created(responder[r])}) <= 1

\* One pair of each kind, for what must eventually happen.
PairInitiators ==
    {Plain("s", {1, 2}, "Intersection", TRUE, 2), Plain("s", {1, 2}, "Cardinality", FALSE, 2),
     BoundTo({1, 2}, alice, bob)}
PairResponders ==
    {Plain("s", {2, 3}, "Intersection", TRUE, 2), Plain("s", {2, 3}, "Intersection", FALSE, 2),
     BoundTo({2, 3}, bob, alice)}

Symm == Permutations(Initiators) \cup Permutations(Responders)
=============================================================================
