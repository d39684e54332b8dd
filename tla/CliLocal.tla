------------------------------ MODULE CliLocal ------------------------------
(***************************************************************************)
(* The commands of main.rs that work on the files of one machine, without  *)
(* a session: encode, intersect, receipt-sign and the policy commands.     *)
(*                                                                         *)
(* The id files are the redirected output of encode.  The result of        *)
(* intersect is written line by line, so that its process may leave any    *)
(* number of leading lines; a line that is cut in the middle is a comment  *)
(* or makes the file unreadable, and adds nothing to that.  Blank lines    *)
(* and the comments of users are left out.                                 *)
(***************************************************************************)
EXTENDS Masking, Policy

CONSTANTS
    Texts, FactOf,      \* JSON texts, and the fact of each
    NoFact,             \* a text that is not JSON has none
    Inputs,             \* what the input files of encode hold
    SecretA, SecretB,   \* PsiParty::new draws one for each party
    IdsOf,              \* FactSet::ids
    MaxSetSize,         \* MAX_SET_SIZE
    ProfileFiles,       \* policy profiles as people write them
    Params,             \* arguments of policy-check
    Absent

VARIABLES
    ids,      \* the id files: their lines, and the texts they were made of
    result,   \* the output file of intersect, likewise
    receipt,  \* the receipt that was signed last
    policy    \* the policy file

vars == <<ids, result, receipt, policy>>

ASSUME InputAssumption ==
    /\ FactOf \in [Texts -> Facts \cup {NoFact}] /\ NoFact \notin Facts
    /\ Inputs \subseteq Seq(Texts)

ASSUME PartyAssumption ==
    {SecretA, SecretB} \subseteq Secrets /\ SecretA # SecretB

ASSUME IdsAssumption ==
    /\ IsFiniteSet(Facts) /\ MaxSetSize \in Nat
    /\ \A F \in SUBSET Facts :
         /\ IdsOf[F] \in Seq(F)
         /\ \A f \in F : \E k \in 1 .. Len(IdsOf[F]) : IdsOf[F][k] = f
         /\ \A k, l \in 1 .. Len(IdsOf[F]) : IdsOf[F][k] = IdsOf[F][l] => k = l

ASSUME PolicyAssumption ==
    /\ \A file \in ProfileFiles :
         DOMAIN file \subseteq Keys /\ \A k \in DOMAIN file : file[k] \in KeyType(k)
    /\ Params \subseteq SessionParams

-----------------------------------------------------------------------------
\* The arguments of intersect.
IdFiles == {"set_a", "set_b"}

\* fact_id_from_str: the hash of the canonical form; spellings of one value
\* (spaces, the order of keys, 1 and 1.0) are one fact.
FactIdFromStr(text) == FactOf[text]

\* Mutant: a line that is no JSON is encoded all the same.
EncodedAll(texts) == [k \in 1 .. Len(texts) |-> FactIdFromStr(texts[k])]

\* Every line is printed as it is read; the first that is no JSON ends the
\* command.
Encoded(texts) ==
    [k \in {n \in 1 .. Len(texts) : \A l \in 1 .. n : FactIdFromStr(texts[l]) # NoFact}
        |-> FactIdFromStr(texts[k])]

FromIds(s) == {s[k] : k \in DOMAIN s}

\* load_fact_set
LoadFactSet(f) == FromIds(ids[f].lines)

\* PsiProtocol::intersect
Intersection(A, B, mode) ==
    ComputeIntersection(MaskAll(SecretB, MaskIds(SecretA, IdsOf[A])),
                        MaskAll(SecretA, MaskIds(SecretB, IdsOf[B])),
                        IdsOf[A], mode)

Line(key, value) == [key |-> key, value |-> value]

\* The lines of the result; a root is the set it commits to.
Lines(A, B, r) ==
    IF r.mode = "Cardinality" THEN <<Line("cardinality", r.count)>>
    ELSE <<Line("intersection_root", r.ids), Line("set_root_a", A),
           Line("set_root_b", B), Line("count", r.count)>>
         \o [k \in 1 .. Len(IdsOf[r.ids]) |-> Line("id", IdsOf[r.ids][k])]

Value(file, key) == {file.lines[k].value : k \in {n \in DOMAIN file.lines :
                                                    file.lines[n].key = key}}

\* load_fact_ids: comments are skipped.
ResultIds(file) == Value(file, "id")

\* The line of a cardinality is neither a comment nor an id.
Loadable(file) == Value(file, "cardinality") = {}

-----------------------------------------------------------------------------
Encode(f) ==
    /\ \E texts \in Inputs : ids' = [ids EXCEPT ![f] = [lines |-> Encoded(texts), of |-> texts]]
    /\ UNCHANGED <<result, receipt, policy>>

\* The output file is created when the result is known: an error leaves the
\* one that was there.
Intersect ==
    /\ \A f \in IdFiles : ids[f] # Absent
    /\ LET A == LoadFactSet("set_a")
           B == LoadFactSet("set_b")
       IN  /\ Cardinality(A) <= MaxSetSize /\ Cardinality(B) <= MaxSetSize
           /\ \E mode \in Modes :
                LET lines == Lines(A, B, Intersection(A, B, mode))
                IN  \E n \in 0 .. Len(lines) :
                      result' = [lines |-> SubSeq(lines, 1, n),
                                 of |-> <<ids.set_a.of, ids.set_b.of>>]
    /\ UNCHANGED <<ids, receipt, policy>>

\* The roots a user sees: in the result, or with card or encode --with-root.
RootsShown(f, key) ==
    (IF result = Absent THEN {} ELSE Value(result, key))
        \cup (IF ids[f] = Absent THEN {} ELSE {LoadFactSet(f)})

\* Mutant: the number is counted from the ids, which a cardinality has not.
CommitmentCounted(mode, F, count) == [mode |-> mode, ids |-> F, count |-> Cardinality(F)]

\* PsiResult::commitment: of a set or of a number.
Commitment(mode, F, count) == [mode |-> mode, ids |-> F, count |-> count]

\* receipt-sign: a result that is no file is the empty intersection; a
\* cardinality is a number that the user types.
ReceiptSign ==
    /\ \E root_a \in RootsShown("set_a", "set_root_a"),
          root_b \in RootsShown("set_b", "set_root_b") :
         \/ receipt' = [root_a |-> root_a, root_b |-> root_b,
                        commitment |-> Commitment("Intersection", {}, 0)]
         \/ /\ result # Absent /\ Loadable(result)
            /\ receipt' = [root_a |-> root_a, root_b |-> root_b,
                           commitment |-> Commitment("Intersection", ResultIds(result), 0)]
         \/ /\ result # Absent
            /\ \E count \in Value(result, "count") \cup Value(result, "cardinality") :
                 receipt' = [root_a |-> root_a, root_b |-> root_b,
                             commitment |-> Commitment("Cardinality", {}, count)]
    /\ UNCHANGED <<ids, result, policy>>

\* A profile is written by hand, or is what policy-show printed.
WritePolicy ==
    /\ policy' \in ProfileFiles \cup {Permissive, Strict}
    /\ UNCHANGED <<ids, result, receipt>>

\* policy-check reads only.  --intersection-mode is a switch that is on by
\* default, and nothing turns it off.
PolicyCheck(params) ==
    Check(FromJson(policy), [params EXCEPT !.is_intersection_mode = TRUE])

Init ==
    /\ ids = [f \in IdFiles |-> Absent]
    /\ result = Absent /\ receipt = Absent /\ policy = Absent

Next ==
    \/ \E f \in IdFiles : Encode(f)
    \/ Intersect
    \/ ReceiptSign
    \/ WritePolicy

Spec == Init /\ [][Next]_vars

-----------------------------------------------------------------------------
(***************************************************************************)
(* Properties.                                                             *)
(***************************************************************************)
\* Every id file holds ids, every result facts, every receipt a commitment to
\* facts or to a number, and every policy file with a name reads as a profile.
TypeOK ==
    /\ \A f \in IdFiles : ids[f] # Absent => FromIds(ids[f].lines) \subseteq Facts
    /\ result # Absent => ResultIds(result) \subseteq Facts
    /\ receipt # Absent =>
         receipt.commitment \in [mode : Modes, ids : SUBSET Facts, count : Nat]
    /\ policy # Absent /\ Readable(policy) => IsProfile(FromJson(policy))

\* The facts an input spells, in whatever spelling, and whether all of it does.
Spelled(texts)  == {FactOf[texts[k]] : k \in 1 .. Len(texts)} \ {NoFact}
Complete(texts) == \A k \in 1 .. Len(texts) : FactOf[texts[k]] # NoFact

InBoth(of)       == Spelled(of[1]) \cap Spelled(of[2])
BothComplete(of) == Complete(of[1]) /\ Complete(of[2])

\* Its process came to the last line.
Whole(file) ==
    \/ Value(file, "cardinality") # {}
    \/ \E n \in Value(file, "count") : Len(file.lines) = 4 + n

\* However encode and intersect end, a result names no fact that is not spelled
\* in both inputs; if both were encoded to the end, the number it gives is the
\* number of their common facts, and a result that came to its last line names
\* them all (cmd_encode, cmd_intersect, FactSet::from_ids, find_intersection).
ResultExact ==
    result # Absent =>
        /\ ResultIds(result) \subseteq InBoth(result.of)
        /\ BothComplete(result.of) =>
             /\ \A n \in Value(result, "count") \cup Value(result, "cardinality") :
                  n = Cardinality(InBoth(result.of))
             /\ Whole(result) /\ Loadable(result) => ResultIds(result) = InBoth(result.of)

Vouches(r, file) ==
    LET c == r.commitment
    IN  /\ file # Absent
        /\ r.root_a = FromIds(Encoded(file.of[1]))
        /\ r.root_b = FromIds(Encoded(file.of[2]))
        =>  /\ c.ids \subseteq r.root_a \cap r.root_b
            /\ BothComplete(file.of) =>
                 IF c.mode = "Cardinality" THEN c.count = Cardinality(InBoth(file.of))
                 ELSE Whole(file) => c.ids \in {{}, InBoth(file.of)}

\* A receipt that is signed, over the roots of the very sets the result at hand
\* was computed from, commits to common facts only, and to all of them unless an
\* encoding or the result was broken off; its cardinality is never that of
\* another pair.  None is what a mistyped --result commits to; over other roots
\* receipt-sign signs what it is given (cmd_receipt_sign).
ReceiptVouches == [][receipt' # receipt => Vouches(receipt', result)]_vars

\* q offers all that p offers.
AtLeast(q, p) ==
    /\ p.has_trusted_peer => q.has_trusted_peer
    /\ p.has_lease => q.has_lease
    /\ p.has_invite => q.has_invite
    /\ Offered(q) >= Offered(p)
    /\ q.ttl_secs <= p.ttl_secs
    /\ q.is_intersection_mode => p.is_intersection_mode

Without(file, k) == [l \in DOMAIN file \ {k} |-> file[l]]

\* Whatever keys a policy file has: parameters that offer no less than some that
\* pass do pass, and a refusal names a key the file holds, without which the
\* check would come to a later constraint or pass (PolicyProfile::check, "the
\* first violation found").
PolicyReasoned ==
    policy # Absent /\ Readable(policy) =>
        \A p \in Params :
            LET verdict == PolicyCheck(p)
            IN  IF verdict = "Ok"
                THEN \A q \in Params : AtLeast(q, p) => PolicyCheck(q) = "Ok"
                ELSE /\ verdict \in DOMAIN policy
                     /\ LET next == Check(FromJson(Without(policy, verdict)),
                                          [p EXCEPT !.is_intersection_mode = TRUE])
                        IN  next = "Ok" \/ Place(next) > Place(verdict)
=============================================================================
