------------------------------ MODULE Masking ------------------------------
(***************************************************************************)
(* The arithmetic of BlindOverlap's private set intersection.              *)
(*                                                                         *)
(* A fact is hashed to a point and a party masks a point by a scalar       *)
(* multiplication with its secret (x25519).  The curve itself is external: *)
(* what the protocol relies on is that distinct facts hash to distinct     *)
(* points, that masking commutes, and that masking with one secret is      *)
(* injective.  A point is therefore a fact together with how often each    *)
(* secret has been applied to it.                                          *)
(***************************************************************************)
EXTENDS Naturals, Sequences, FiniteSets

CONSTANTS
    Facts,      \* the fact identifiers that occur
    Secrets     \* the secrets (scalars) that occur

Element == [fact : Facts, by : [Secrets -> Nat]]

HashToPublicKey(f) == [fact |-> f, by |-> [s \in Secrets |-> 0]]

DiffieHellman(s, e) ==
    [fact |-> e.fact, by |-> [e.by EXCEPT ![s] = e.by[s] + 1]]

\* The singly masked elements of a party's own facts, in the order of ids.
MaskIds(s, ids) ==
    [k \in 1 .. Len(ids) |-> DiffieHellman(s, HashToPublicKey(ids[k]))]

\* The peer's elements masked once more, position by position.
MaskAll(s, es) == [k \in 1 .. Len(es) |-> DiffieHellman(s, es[k])]

Modes == {"Intersection", "Cardinality"}

\* Mutant: the two lists are compared place by place.
HitsInStep(ours, theirs) ==
    {k \in 1 .. Len(ours) : k <= Len(theirs) /\ ours[k] = theirs[k]}

\* The positions of ours whose element also occurs in theirs.
Hits(ours, theirs) ==
    {k \in 1 .. Len(ours) : \E l \in 1 .. Len(theirs) : ours[k] = theirs[l]}

\* A hit is turned back into a fact by its position in the caller's own ids.
ComputeIntersection(ours, theirs, ids, mode) ==
    [mode  |-> mode,
     count |-> Cardinality(Hits(ours, theirs)),
     ids   |-> IF mode = "Intersection"
               THEN {ids[k] : k \in Hits(ours, theirs) \cap (1 .. Len(ids))}
               ELSE {}]

\* What the answer ought to be: the reference that ComputeIntersection meets.
TrueIntersection(mine, other, mode) ==
    [mode  |-> mode,
     count |-> Cardinality(mine \cap other),
     ids   |-> IF mode = "Intersection" THEN mine \cap other ELSE {}]

PsiResult == [mode : Modes, count : Nat, ids : SUBSET Facts]
=============================================================================
