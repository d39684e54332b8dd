----------------------------- MODULE MCCliLocal -----------------------------
(***************************************************************************)
(* Instances of CliLocal for TLC.                                          *)
(***************************************************************************)
EXTENDS CliLocal, TLC

\* Two texts spell fact 1; one text is no JSON.
MCFactOf == [one |-> 1, uno |-> 1, two |-> 2, three |-> 3, bad |-> NoFact]

\* One breaks off, one has more lines than facts, one is too large.
MCInputs ==
    {<<"two", "bad", "one">>, <<"uno", "two", "one">>, <<"two", "three">>,
     <<"three", "one", "two">>}

MCIdsOf ==
    [F \in SUBSET Facts |->
        CHOOSE s \in [1 .. Cardinality(F) -> F] :
            \A k, l \in 1 .. Cardinality(F) : k < l => s[k] < s[l]]

Named(file) == [name |-> "p"] @@ file

MCProfileFiles ==
    {Named([max_ttl_secs |-> 1, require_lease |-> TRUE]),
     Named([require_trusted_peer |-> TRUE, min_pad_to |-> 1,
            allow_cardinality_only |-> TRUE]),
     [require_invite |-> TRUE]}

Param(peer, pad, ttl, lease, invite) ==
    [has_trusted_peer |-> peer, pad_to |-> pad, ttl_secs |-> ttl,
     has_lease |-> lease, has_invite |-> invite, is_intersection_mode |-> TRUE]

MCParams ==
    {Param(FALSE, NoLimit, 1, FALSE, FALSE), Param(TRUE, 1, 2, FALSE, TRUE),
     Param(TRUE, 64, 300, FALSE, TRUE), Param(TRUE, 64, 1, TRUE, TRUE)}
=============================================================================
