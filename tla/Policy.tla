------------------------------- MODULE Policy -------------------------------
(***************************************************************************)
(* Policy profiles (policy.rs): what a session must offer before it is     *)
(* started.                                                                *)
(*                                                                         *)
(* A profile is a JSON file, here a function from the keys it holds.  A    *)
(* key that is missing, or misspelt, has its default when it is read.      *)
(***************************************************************************)
EXTENDS Naturals

CONSTANTS
    NoLimit,   \* Option::None of a limit or of a padding
    Names      \* the names of profiles

ASSUME ProfileAssumption == NoLimit \notin Nat /\ {"permissive", "strict"} \subseteq Names

Flags == {"require_trusted_peer", "require_lease", "require_invite",
          "allow_cardinality_only"}
Limits == {"min_pad_to", "max_ttl_secs"}
Keys == Flags \cup Limits \cup {"name"}

KeyType(k) ==
    IF k \in Flags THEN BOOLEAN
    ELSE IF k \in Limits THEN Nat \cup {NoLimit} ELSE Names

IsProfile(p) == DOMAIN p = Keys /\ \A k \in Keys : p[k] \in KeyType(k)

SessionParams ==
    [has_trusted_peer : BOOLEAN, pad_to : Nat \cup {NoLimit}, ttl_secs : Nat,
     has_lease : BOOLEAN, has_invite : BOOLEAN, is_intersection_mode : BOOLEAN]

\* PolicyProfile::new: nothing is required.
Permissive ==
    [k \in Keys |-> IF k \in Flags THEN FALSE
                    ELSE IF k \in Limits THEN NoLimit ELSE "permissive"]

Strict ==
    [Permissive EXCEPT !.name = "strict", !.require_trusted_peer = TRUE,
                       !.min_pad_to = 64, !.max_ttl_secs = 300,
                       !.require_invite = TRUE]

\* The name has no default: a file with none is not read.
Readable(file) == "name" \in DOMAIN file

\* Mutant: what a file does not say is taken from the strict profile.
FromJsonStrict(file) == [k \in Keys |-> IF k \in DOMAIN file THEN file[k] ELSE Strict[k]]

FromJson(file) == [k \in Keys |-> IF k \in DOMAIN file THEN file[k] ELSE Permissive[k]]

Offered(params) == IF params.pad_to = NoLimit THEN 0 ELSE params.pad_to

\* What the parameters violate, by the key of the constraint.
Violated(profile, params) ==
    {k \in Keys :
        \/ /\ k = "require_trusted_peer"
           /\ profile[k] /\ ~params.has_trusted_peer
        \/ /\ k = "min_pad_to" /\ profile[k] # NoLimit
           /\ Offered(params) < profile[k]
        \/ /\ k = "max_ttl_secs" /\ profile[k] # NoLimit
           /\ params.ttl_secs > profile[k]
        \/ k = "require_lease" /\ profile[k] /\ ~params.has_lease
        \/ k = "require_invite" /\ profile[k] /\ ~params.has_invite
        \/ /\ k = "allow_cardinality_only"
           /\ profile[k] /\ params.is_intersection_mode}

CheckOrder ==
    <<"require_trusted_peer", "min_pad_to", "max_ttl_secs", "require_lease",
      "require_invite", "allow_cardinality_only">>

Place(k) == CHOOSE n \in DOMAIN CheckOrder : CheckOrder[n] = k

\* PolicyProfile::check: Ok, or the first constraint that is violated.
Check(profile, params) ==
    LET violated == Violated(profile, params)
    IN  IF violated = {} THEN "Ok"
        ELSE CHOOSE k \in violated : \A l \in violated : Place(k) <= Place(l)
=============================================================================
