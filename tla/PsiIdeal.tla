------------------------------ MODULE PsiIdeal ------------------------------
(***************************************************************************)
(* What a private set intersection promises, with no messages: a responder *)
(* answers at most one initiator of its session id, an initiator learns    *)
(* the exact intersection with one responder that answered it, and then    *)
(* that responder may learn it too.                                        *)
(***************************************************************************)
EXTENDS Naturals, FiniteSets

CONSTANTS
    Facts, Modes, SessionIds, Initiators, Responders,
    None    \* no input, no partner or no output yet

VARIABLES
    input,    \* what each party entered with
    partner,  \* whom a responder answered, or an initiator learned from
    output    \* the result each party returned

vars == <<input, partner, output>>

Parties == Initiators \cup Responders

Input == [sid : SessionIds, facts : SUBSET Facts, mode : Modes]

Intersection(p, q) ==
    LET common == input[p].facts \cap input[q].facts
    IN  [mode  |-> input[p].mode,
         count |-> Cardinality(common),
         ids   |-> IF input[p].mode = "Intersection" THEN common ELSE {}]

Init ==
    /\ input   = [p \in Parties |-> None]
    /\ partner = [p \in Parties |-> None]
    /\ output  = [p \in Parties |-> None]

Enter(p) ==
    /\ input[p] = None
    /\ \E v \in Input : input' = [input EXCEPT ![p] = v]
    /\ UNCHANGED <<partner, output>>

Answer(r, i) ==
    /\ input[r] # None /\ input[i] # None
    /\ input[r].sid = input[i].sid
    /\ partner[r] = None
    /\ partner' = [partner EXCEPT ![r] = i]
    /\ UNCHANGED <<input, output>>

Learn(i, r) ==
    /\ partner[r] = i
    /\ partner[i] = None /\ output[i] = None
    /\ partner' = [partner EXCEPT ![i] = r]
    /\ output' = [output EXCEPT ![i] = Intersection(i, r)]
    /\ UNCHANGED input

LearnBack(r, i) ==
    /\ partner[r] = i /\ partner[i] = r
    /\ output[i] # None /\ output[r] = None
    /\ output' = [output EXCEPT ![r] = Intersection(r, i)]
    /\ UNCHANGED <<input, partner>>

Next ==
    \/ \E p \in Parties : Enter(p)
    \/ \E i \in Initiators, r \in Responders :
         Answer(r, i) \/ Learn(i, r) \/ LearnBack(r, i)

Spec == Init /\ [][Next]_vars
=============================================================================
