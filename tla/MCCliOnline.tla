---------------------------- MODULE MCCliOnline ----------------------------
(***************************************************************************)
(* Instances of CliOnline for TLC.                                         *)
(***************************************************************************)
EXTENDS CliOnline, TLC

CONSTANTS a1, a2, b1, zero, alice

Runs == Permutations({a1, a2})

MCDummyOf == [k \in 1 .. 1 |-> 9]

MCIdsOf ==
    [F \in SUBSET Facts |->
        CHOOSE s \in [1 .. Cardinality(F) -> F] :
            \A k, l \in 1 .. Cardinality(F) : k < l => s[k] < s[l]]
=============================================================================
