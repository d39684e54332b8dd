-------------------------- MODULE PsiSessionIdeal --------------------------
(***************************************************************************)
(* The sessions of PsiSession implement PsiIdeal where every session uses  *)
(* freshness: the partner of a session is the owner of the nonce it holds. *)
(***************************************************************************)
EXTENDS PsiSessionInv

FreshOnly == \A s \in InitiatorSetups \cup ResponderSetups : s.fresh

ASSUME AbsentAssumption ==
    /\ Absent \notin PsiResult
    /\ Absent \notin [sid : SessionIds, facts : SUBSET Facts, mode : Modes]

Parties == Initiators \cup Responders

Session(p) == IF p \in Initiators THEN initiator[p] ELSE responder[p]

InputOf(s) == [sid |-> s.setup.sid, facts |-> s.setup.facts, mode |-> s.setup.mode]

PartnerNonce(p) == IF p \in Initiators THEN initiator[p].rnonce ELSE responder[p].inonce

inputBar == [p \in Parties |-> IF Created(Session(p)) THEN InputOf(Session(p)) ELSE Absent]

partnerBar ==
    [p \in Parties |->
        IF Created(Session(p)) /\ PartnerNonce(p) # NoNonce THEN PartnerNonce(p) ELSE Absent]

outputBar == [p \in Parties |-> IF Complete(Session(p)) THEN Session(p).result ELSE Absent]

Ideal == INSTANCE PsiIdeal
         WITH None <- Absent, input <- inputBar, partner <- partnerBar, output <- outputBar

\* Every step of the fresh session objects is a step of the ideal intersection
\* or leaves it as it is: each call of session.rs that completes a session
\* returns what PsiIdeal allows then, once, and with one partner.
Implements == Ideal!Spec
=============================================================================
