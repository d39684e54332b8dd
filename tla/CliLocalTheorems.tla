-------------------------- MODULE CliLocalTheorems --------------------------
(***************************************************************************)
(* Theorems about CliLocal and Policy, for any inputs, facts, profiles and *)
(* parameters.                                                             *)
(***************************************************************************)
EXTENDS CliLocal, MaskingTheorems

-----------------------------------------------------------------------------
(***************************************************************************)
(* Policies.                                                               *)
(***************************************************************************)
Constraints == {"require_trusted_peer", "min_pad_to", "max_ttl_secs",
                "require_lease", "require_invite", "allow_cardinality_only"}

\* The constraints are checked one after the other.
LEMMA Places ==
    /\ Place("require_trusted_peer") = 1
    /\ Place("min_pad_to") = 2
    /\ Place("max_ttl_secs") = 3
    /\ Place("require_lease") = 4
    /\ Place("require_invite") = 5
    /\ Place("allow_cardinality_only") = 6
<1>1. DOMAIN CheckOrder = 1 .. 6
  BY DEF CheckOrder
<1>2. \A n \in 1 .. 6 : n = 1 \/ n = 2 \/ n = 3 \/ n = 4 \/ n = 5 \/ n = 6
  OBVIOUS
<1>3. /\ CheckOrder[1] = "require_trusted_peer"
      /\ CheckOrder[2] = "min_pad_to"
      /\ CheckOrder[3] = "max_ttl_secs"
      /\ CheckOrder[4] = "require_lease"
      /\ CheckOrder[5] = "require_invite"
      /\ CheckOrder[6] = "allow_cardinality_only"
  BY DEF CheckOrder
<1>4. \A n, m \in 1 .. 6 : CheckOrder[n] = CheckOrder[m] => n = m
  BY <1>2, <1>3
<1>5. ASSUME NEW n \in 1 .. 6
      PROVE  Place(CheckOrder[n]) = n
  BY <1>1, <1>4 DEF Place
<1>6. QED
  BY <1>3, <1>5

\* Constraints have different places.
LEMMA PlacesDiffer ==
    /\ \A k \in Constraints : Place(k) \in 1 .. 6
    /\ \A k, l \in Constraints : Place(k) = Place(l) => k = l
BY Places DEF Constraints

\* Only constraints are violated.
LEMMA ViolatedConstraints ==
    ASSUME NEW profile, NEW params
    PROVE  Violated(profile, params) \subseteq Constraints
BY DEF Violated, Constraints

\* A set of constraints that is not empty has a first one.
LEMMA FirstConstraint ==
    ASSUME NEW S \in SUBSET Constraints, S # {}
    PROVE  \E k \in S : \A l \in S : Place(k) <= Place(l)
<1>1. CASE "require_trusted_peer" \in S
  BY <1>1, Places, PlacesDiffer
<1>2. CASE "require_trusted_peer" \notin S /\ "min_pad_to" \in S
  BY <1>2, Places DEF Constraints
<1>3. CASE /\ "require_trusted_peer" \notin S /\ "min_pad_to" \notin S
           /\ "max_ttl_secs" \in S
  BY <1>3, Places DEF Constraints
<1>4. CASE /\ "require_trusted_peer" \notin S /\ "min_pad_to" \notin S
           /\ "max_ttl_secs" \notin S /\ "require_lease" \in S
  BY <1>4, Places DEF Constraints
<1>5. CASE /\ "require_trusted_peer" \notin S /\ "min_pad_to" \notin S
           /\ "max_ttl_secs" \notin S /\ "require_lease" \notin S
           /\ "require_invite" \in S
  BY <1>5, Places DEF Constraints
<1>6. CASE /\ "require_trusted_peer" \notin S /\ "min_pad_to" \notin S
           /\ "max_ttl_secs" \notin S /\ "require_lease" \notin S
           /\ "require_invite" \notin S
  <2>1. S = {"allow_cardinality_only"}
    BY <1>6 DEF Constraints
  <2>2. QED
    BY <2>1, Places
<1>7. QED
  BY <1>1, <1>2, <1>3, <1>4, <1>5, <1>6

\* PolicyProfile::check passes when nothing is violated, and otherwise names
\* the first violation.
LEMMA CheckIsFirst ==
    ASSUME NEW profile, NEW params
    PROVE  LET violated == Violated(profile, params)
               verdict == Check(profile, params)
           IN  /\ verdict = "Ok" <=> violated = {}
               /\ verdict # "Ok" =>
                    /\ verdict \in violated
                    /\ \A l \in violated : Place(verdict) <= Place(l)
<1> DEFINE violated == Violated(profile, params)
           verdict == Check(profile, params)
<1>1. violated \subseteq Constraints
  BY ViolatedConstraints
<1>2. CASE violated = {}
  BY <1>2 DEF Check
<1>3. CASE violated # {}
  <2>1. \E k \in violated : \A l \in violated : Place(k) <= Place(l)
    BY <1>1, <1>3, FirstConstraint
  <2>2. verdict = CHOOSE k \in violated : \A l \in violated : Place(k) <= Place(l)
    BY <1>3 DEF Check
  <2>3. /\ verdict \in violated
        /\ \A l \in violated : Place(verdict) <= Place(l)
    BY <2>1, <2>2
  <2>4. "Ok" \notin Constraints
    BY DEF Constraints
  <2>5. QED
    BY <1>1, <1>3, <2>3, <2>4
<1>4. QED
  BY <1>2, <1>3

AsChecked(params) == [params EXCEPT !.is_intersection_mode = TRUE]

\* Parameters that offer no less violate no more.
LEMMA MoreViolatesLess ==
    ASSUME NEW profile, IsProfile(profile),
           NEW p \in SessionParams, NEW q \in SessionParams, AtLeast(q, p)
    PROVE  Violated(profile, AsChecked(q)) \subseteq Violated(profile, AsChecked(p))
<1>1. /\ Offered(AsChecked(q)) = Offered(q) /\ Offered(AsChecked(p)) = Offered(p)
      /\ Offered(p) \in Nat /\ Offered(q) \in Nat
  BY DEF Offered, AsChecked, SessionParams
<1>2. /\ profile.min_pad_to = NoLimit \/ profile.min_pad_to \in Nat
      /\ profile.max_ttl_secs = NoLimit \/ profile.max_ttl_secs \in Nat
  BY DEF IsProfile, Keys, KeyType, Flags, Limits
<1>3. /\ AsChecked(q).is_intersection_mode = TRUE
      /\ AsChecked(p).is_intersection_mode = TRUE
      /\ AsChecked(p).ttl_secs = p.ttl_secs /\ AsChecked(q).ttl_secs = q.ttl_secs
      /\ AsChecked(p).has_trusted_peer = p.has_trusted_peer
      /\ AsChecked(q).has_trusted_peer = q.has_trusted_peer
      /\ AsChecked(p).has_lease = p.has_lease
      /\ AsChecked(q).has_lease = q.has_lease
      /\ AsChecked(p).has_invite = p.has_invite
      /\ AsChecked(q).has_invite = q.has_invite
      /\ p.ttl_secs \in Nat /\ q.ttl_secs \in Nat
  BY DEF AsChecked, SessionParams
<1>4. ASSUME NEW k \in Violated(profile, AsChecked(q))
      PROVE  k \in Violated(profile, AsChecked(p))
  <2>1. CASE k = "min_pad_to"
    BY <1>1, <1>2, <1>4, <2>1 DEF Violated, AtLeast
  <2>2. CASE k = "max_ttl_secs"
    BY <1>2, <1>3, <1>4, <2>2 DEF Violated, AtLeast
  <2>3. CASE k # "min_pad_to" /\ k # "max_ttl_secs"
    BY <1>3, <1>4, <2>3 DEF Violated, AtLeast
  <2>4. QED
    BY <2>1, <2>2, <2>3
<1>5. QED
  BY <1>4

\* A key the file has not is not violated.
LEMMA OnlyKeysOfTheFile ==
    ASSUME NEW file, NEW params, NEW k \in Violated(FromJson(file), params)
    PROVE  k \in DOMAIN file
<1>1. k \in Constraints /\ k \in Keys
  BY ViolatedConstraints DEF Violated
<1>2. k \notin DOMAIN file => FromJson(file)[k] = Permissive[k]
  BY <1>1 DEF FromJson
<1>3. /\ k \in Flags => Permissive[k] = FALSE
      /\ k \in Limits => Permissive[k] = NoLimit
  BY <1>1 DEF Permissive, Flags, Limits
<1>4. QED
  BY <1>1, <1>2, <1>3 DEF Violated, Flags, Limits, Constraints

\* A constraint depends on its own key only.
LEMMA ConstraintsAreIndependent ==
    ASSUME NEW profile, NEW other, NEW params,
           NEW k \in Violated(profile, params), other[k] = profile[k]
    PROVE  k \in Violated(other, params)
BY DEF Violated

\* Without a key, its constraint is gone and nothing is added.
LEMMA WithoutDrops ==
    ASSUME NEW file, NEW k, NEW params
    PROVE  Violated(FromJson(Without(file, k)), params)
             \subseteq Violated(FromJson(file), params) \ {k}
<1> SUFFICES ASSUME NEW l \in Violated(FromJson(Without(file, k)), params)
             PROVE  l \in Violated(FromJson(file), params) /\ l # k
  OBVIOUS
<1>1. l \in DOMAIN Without(file, k)
  BY OnlyKeysOfTheFile
<1>2. l \in DOMAIN file /\ l # k /\ Without(file, k)[l] = file[l]
  BY <1>1 DEF Without
<1>3. l \in Keys
  BY DEF Violated
<1>4. FromJson(file)[l] = FromJson(Without(file, k))[l]
  BY <1>1, <1>2, <1>3 DEF FromJson
<1>5. QED
  BY <1>2, <1>4, ConstraintsAreIndependent

\* The types of the keys, one kind at a time.
LEMMA KeyTypes ==
    ASSUME NEW k
    PROVE  /\ k \in Flags => KeyType(k) = BOOLEAN
           /\ k \in Limits => KeyType(k) = Nat \cup {NoLimit}
           /\ k \notin Flags /\ k \notin Limits => KeyType(k) = Names
<1>1. k \in Limits => k \notin Flags
  BY DEF Limits, Flags
<1>2. QED
  BY <1>1 DEF KeyType

\* A policy file that has a name reads as a profile.
LEMMA FilesReadAsProfiles ==
    ASSUME NEW file \in ProfileFiles \cup {Permissive, Strict}
    PROVE  IsProfile(FromJson(file))
<1>1. ASSUME NEW k \in Keys
      PROVE  Permissive[k] \in KeyType(k)
  <2>1. /\ k \in Flags => Permissive[k] = FALSE
        /\ k \notin Flags /\ k \in Limits => Permissive[k] = NoLimit
        /\ k \notin Flags /\ k \notin Limits => Permissive[k] = "permissive"
    BY DEF Permissive
  <2>2. QED
    <3>1. CASE k \in Flags
      BY <2>1, <3>1, KeyTypes
    <3>2. CASE k \notin Flags /\ k \in Limits
      BY <2>1, <3>2, KeyTypes
    <3>3. CASE k \notin Flags /\ k \notin Limits
      BY <2>1, <3>3, KeyTypes, ProfileAssumption
    <3>4. QED
      BY <3>1, <3>2, <3>3
<1>2. ASSUME NEW k \in Keys
      PROVE  Strict[k] \in KeyType(k)
  <2>1. /\ Strict.name = "strict"
        /\ Strict.min_pad_to = 64
        /\ Strict.max_ttl_secs = 300
        /\ Strict.require_trusted_peer = TRUE
        /\ Strict.require_invite = TRUE
        /\ \A l \in {"require_lease", "allow_cardinality_only"} :
             Strict[l] = Permissive[l]
    BY DEF Strict, Permissive, Keys, Flags, Limits
  <2>2. CASE k = "name"
    <3>1. k \notin Flags /\ k \notin Limits
      BY <2>2 DEF Flags, Limits
    <3>2. QED
      BY <2>1, <2>2, <3>1, KeyTypes, ProfileAssumption
  <2>3. CASE k = "min_pad_to" \/ k = "max_ttl_secs"
    BY <2>1, <2>3 DEF KeyType, Flags, Limits
  <2>4. CASE k = "require_trusted_peer" \/ k = "require_invite"
    BY <2>1, <2>4 DEF KeyType, Flags
  <2>5. CASE k = "require_lease" \/ k = "allow_cardinality_only"
    BY <1>1, <2>1, <2>5
  <2>6. QED
    BY <2>2, <2>3, <2>4, <2>5 DEF Keys, Flags, Limits
<1>3. DOMAIN Strict = Keys /\ DOMAIN Permissive = Keys
  BY DEF Strict, Permissive
<1>4. \A k \in DOMAIN file : file[k] \in KeyType(k)
  BY <1>1, <1>2, <1>3, PolicyAssumption
<1>5. QED
  BY <1>1, <1>4 DEF IsProfile, FromJson

-----------------------------------------------------------------------------
(***************************************************************************)
(* Id files and results.                                                   *)
(***************************************************************************)
\* An id file holds ids of facts that its input spells, and all of them if the
\* input is read to the end.
LEMMA EncodedFacts ==
    ASSUME NEW texts \in Inputs
    PROVE  /\ FromIds(Encoded(texts)) \subseteq Spelled(texts)
           /\ Complete(texts) => FromIds(Encoded(texts)) = Spelled(texts)
           /\ Spelled(texts) \subseteq Facts
<1> DEFINE Read == {n \in 1 .. Len(texts) :
                      \A l \in 1 .. n : FactIdFromStr(texts[l]) # NoFact}
<1>1. texts \in Seq(Texts) /\ Len(texts) \in Nat
  BY InputAssumption, LenProperties
<1>2. \A k \in 1 .. Len(texts) : texts[k] \in Texts
  BY <1>1, ElementOfSeq
<1>3. FromIds(Encoded(texts)) = {FactOf[texts[k]] : k \in Read}
  BY DEF FromIds, Encoded, FactIdFromStr
<1>4. \A k \in Read : k \in 1 .. Len(texts) /\ FactOf[texts[k]] # NoFact
  BY <1>1 DEF FactIdFromStr
<1>5. Complete(texts) => Read = 1 .. Len(texts)
  BY <1>1 DEF Complete, FactIdFromStr
<1>6. Complete(texts) => Spelled(texts) = {FactOf[texts[k]] : k \in 1 .. Len(texts)}
  BY DEF Complete, Spelled
<1>7. Spelled(texts) \subseteq Facts
  BY <1>2, InputAssumption DEF Spelled
<1> HIDE DEF Read
<1>8. FromIds(Encoded(texts)) \subseteq Spelled(texts)
  BY <1>3, <1>4 DEF Spelled
<1>9. QED
  BY <1>3, <1>5, <1>6, <1>7, <1>8

\* FactSet::ids lists a set, each fact once.
LEMMA IdsEnumerate ==
    ASSUME NEW F \in SUBSET Facts
    PROVE  Enumerates(IdsOf[F], F)
BY IdsAssumption DEF Enumerates

\* The list is as long as the set is large.
LEMMA IdsCount ==
    ASSUME NEW F \in SUBSET Facts
    PROVE  /\ IdsOf[F] \in Seq(F)
           /\ Len(IdsOf[F]) = Cardinality(F)
           /\ {IdsOf[F][k] : k \in 1 .. Len(IdsOf[F])} = F
<1>1. Enumerates(IdsOf[F], F)
  BY IdsEnumerate
<1>2. IdsOf[F] \in Seq(F)
  BY <1>1 DEF Enumerates
<1>3. QED
  BY <1>1, <1>2, EnumerationCount

\* PsiProtocol::intersect is exact.
LEMMA IntersectionExact ==
    ASSUME NEW A \in SUBSET Facts, NEW B \in SUBSET Facts, NEW mode
    PROVE  Intersection(A, B, mode) = TrueIntersection(A, B, mode)
<1>1. Enumerates(IdsOf[A], A) /\ Enumerates(IdsOf[B], B)
  BY IdsEnumerate
<1>2. SecretA \in Secrets /\ SecretB \in Secrets /\ IsFiniteSet(Facts)
  BY PartyAssumption, IdsAssumption
<1>3. QED
  BY <1>1, <1>2, ComputeIntersectionExact DEF Intersection

\* What intersect prints.
LEMMA LinesByMode ==
    ASSUME NEW A, NEW B, NEW r
    PROVE  Lines(A, B, r) =
             IF r.mode = "Cardinality" THEN <<Line("cardinality", r.count)>>
             ELSE <<Line("intersection_root", r.ids), Line("set_root_a", A),
                    Line("set_root_b", B), Line("count", r.count)>>
                  \o [k \in 1 .. Len(IdsOf[r.ids]) |-> Line("id", IdsOf[r.ids][k])]
BY Zenon DEF Lines

\* One line in the mode of the number.
LEMMA LinesOfCardinality ==
    ASSUME NEW A \in SUBSET Facts, NEW B \in SUBSET Facts
    PROVE  Lines(A, B, Intersection(A, B, "Cardinality"))
             = <<Line("cardinality", Cardinality(A \cap B))>>
<1> DEFINE r == Intersection(A, B, "Cardinality")
<1>1. r.mode = "Cardinality" /\ r.count = Cardinality(A \cap B)
  <2>1. r = TrueIntersection(A, B, "Cardinality")
    BY IntersectionExact, Zenon
  <2>2. QED
    BY <2>1 DEF TrueIntersection
<1> HIDE DEF r
<1>2. Lines(A, B, r) = <<Line("cardinality", r.count)>>
  BY <1>1, LinesByMode, Zenon
<1>3. QED
  BY <1>1, <1>2, Zenon DEF r

\* Four lines and n more.
Joined(lines, S, a, b, c, d, n, e) ==
    /\ lines \in Seq(S) /\ Len(lines) = 4 + n
    /\ lines[1] = a /\ lines[2] = b /\ lines[3] = c /\ lines[4] = d
    /\ \A k \in 5 .. 4 + n : lines[k] = e[k - 4]

\* A sequence that is put together so.
LEMMA FourAndMore ==
    ASSUME NEW S, NEW a \in S, NEW b \in S, NEW c \in S, NEW d \in S,
           NEW n \in Nat, NEW e, \A k \in 1 .. n : e[k] \in S
    PROVE  Joined(<<a, b, c, d>> \o [k \in 1 .. n |-> e[k]], S, a, b, c, d, n, e)
<1> DEFINE h == <<a, b, c, d>>
           t == [k \in 1 .. n |-> e[k]]
<1>1. h \in Seq(S) /\ Len(h) = 4
  OBVIOUS
<1>2. h[1] = a /\ h[2] = b /\ h[3] = c /\ h[4] = d
  OBVIOUS
<1>3. t \in Seq(S) /\ Len(t) = n /\ \A k \in 1 .. n : t[k] = e[k]
  OBVIOUS
<1> HIDE DEF h, t
<1>4. /\ h \o t \in Seq(S) /\ Len(h \o t) = 4 + n
      /\ \A k \in 1 .. 4 + n : (h \o t)[k] = IF k <= 4 THEN h[k] ELSE t[k - 4]
  <2>1. /\ h \o t \in Seq(S) /\ Len(h \o t) = Len(h) + Len(t)
        /\ \A k \in 1 .. Len(h) + Len(t) :
             (h \o t)[k] = IF k <= Len(h) THEN h[k] ELSE t[k - Len(h)]
    BY <1>1, <1>3, ConcatProperties, Zenon
  <2>2. QED
    BY <1>1, <1>3, <2>1
<1>5. \A k \in 5 .. 4 + n : (h \o t)[k] = e[k - 4]
  <2>1. \A k \in 5 .. 4 + n : k \in 1 .. 4 + n /\ ~(k <= 4) /\ k - 4 \in 1 .. n
    OBVIOUS
  <2>2. QED
    BY <1>3, <1>4, <2>1
<1>6. 1 \in 1 .. 4 + n /\ 2 \in 1 .. 4 + n /\ 3 \in 1 .. 4 + n /\ 4 \in 1 .. 4 + n
  OBVIOUS
<1>7. QED
  BY <1>2, <1>4, <1>5, <1>6 DEF Joined, h, t

\* A header of four lines, and then the ids.
LaidOut(lines, A, B) ==
    LET C == A \cap B
    IN  /\ Len(lines) = 4 + Cardinality(C)
        /\ \E T : lines \in Seq(T)
        /\ lines[1] = Line("intersection_root", C)
        /\ lines[2] = Line("set_root_a", A)
        /\ lines[3] = Line("set_root_b", B)
        /\ lines[4] = Line("count", Cardinality(C))
        /\ \A k \in 5 .. 4 + Cardinality(C) : lines[k] = Line("id", IdsOf[C][k - 4])

\* That is what intersect prints in the mode of the facts.
LEMMA LinesOfIntersection ==
    ASSUME NEW A \in SUBSET Facts, NEW B \in SUBSET Facts
    PROVE  LaidOut(Lines(A, B, Intersection(A, B, "Intersection")), A, B)
<1> DEFINE C == A \cap B
           lines == Lines(A, B, Intersection(A, B, "Intersection"))
           n == Cardinality(C)
           e == [k \in 1 .. n |-> Line("id", IdsOf[C][k])]
           a == Line("intersection_root", C)
           b == Line("set_root_a", A)
           c == Line("set_root_b", B)
           d == Line("count", n)
           S == {a, b, c, d} \cup {e[k] : k \in 1 .. n}
<1>1. Len(IdsOf[C]) = n /\ n \in Nat
  BY IdsCount, LenProperties
<1> DEFINE r == Intersection(A, B, "Intersection")
<1>2. Lines(A, B, r) = <<a, b, c, d>> \o [k \in 1 .. n |-> e[k]]
  <2>1. r.mode = "Intersection" /\ r.count = n /\ r.ids = C
    <3>1. r = TrueIntersection(A, B, "Intersection")
      BY IntersectionExact, Zenon
    <3>2. QED
      BY <3>1 DEF TrueIntersection
  <2> HIDE DEF r, C, n
  <2>2. Lines(A, B, r)
          = <<Line("intersection_root", r.ids), Line("set_root_a", A),
              Line("set_root_b", B), Line("count", r.count)>>
            \o [k \in 1 .. Len(IdsOf[r.ids]) |-> Line("id", IdsOf[r.ids][k])]
    <3>1. r.mode # "Cardinality"
      BY <2>1
    <3>2. QED
      BY <3>1, LinesByMode, Zenon
  <2>3. [k \in 1 .. n |-> e[k]] = [k \in 1 .. n |-> Line("id", IdsOf[C][k])]
    OBVIOUS
  <2>4. QED
    BY <1>1, <2>1, <2>2, <2>3, Zenon
<1>3. \A k \in 5 .. 4 + n : k - 4 \in 1 .. n
  BY <1>1
<1>4. \A k \in 5 .. 4 + n : e[k - 4] = Line("id", IdsOf[C][k - 4])
  BY <1>3
<1>5. a \in S /\ b \in S /\ c \in S /\ d \in S /\ \A k \in 1 .. n : e[k] \in S
  OBVIOUS
<1> HIDE DEF S, a, b, c, d, e, n
<1>6. Joined(lines, S, a, b, c, d, n, e)
  <2> HIDE DEF lines, r
  <2>1. lines = <<a, b, c, d>> \o [k \in 1 .. n |-> e[k]]
    BY <1>2 DEF lines, r
  <2>2. QED
    BY <1>1, <1>5, <2>1, FourAndMore
<1>7. QED
  BY <1>4, <1>6 DEF LaidOut, Joined, a, b, c, d, n

\* A line has its key and its value.
LEMMA LineFields ==
    ASSUME NEW key, NEW value
    PROVE  Line(key, value).key = key /\ Line(key, value).value = value
BY DEF Line

\* A file names common facts only and counts them right, and it names them all
\* when it came to its last line.
Accurate(file, A, B) ==
    /\ ResultIds(file) \subseteq A \cap B
    /\ \A m \in Value(file, "count") \cup Value(file, "cardinality") :
         m = Cardinality(A \cap B)
    /\ Whole(file) /\ Loadable(file) => ResultIds(file) = A \cap B

\* However much of it was written, a result is accurate.
LEMMA PrefixOfResult ==
    ASSUME NEW A \in SUBSET Facts, NEW B \in SUBSET Facts, NEW mode \in Modes,
           NEW n \in 0 .. Len(Lines(A, B, Intersection(A, B, mode))), NEW file,
           file.lines = SubSeq(Lines(A, B, Intersection(A, B, mode)), 1, n)
    PROVE  Accurate(file, A, B)
<1> DEFINE C == A \cap B
           lines == Lines(A, B, Intersection(A, B, mode))
<1>1. IdsOf[C] \in Seq(C) /\ Len(IdsOf[C]) = Cardinality(C) /\ Cardinality(C) \in Nat
  BY IdsCount, LenProperties
<1>2. ASSUME NEW T, lines \in Seq(T)
      PROVE  /\ DOMAIN file.lines = 1 .. n /\ Len(file.lines) = n
             /\ Len(lines) \in Nat
             /\ \A k \in 1 .. n : file.lines[k] = lines[k]
  <2> HIDE DEF lines
  <2>1. lines \in Seq(T) /\ n \in 0 .. Len(lines) /\ Len(lines) \in Nat
    BY <1>2, LenProperties DEF lines
  <2>2. file.lines = SubSeq(lines, 1, n)
    BY DEF lines
  <2>3. QED
    BY <2>1, <2>2, SubSeqProperties
<1>3. CASE mode = "Cardinality"
  <2> HIDE DEF C
  <2>1. lines = <<Line("cardinality", Cardinality(C))>>
    BY <1>3, LinesOfCardinality DEF C
  <2> HIDE DEF lines
  <2>2. lines \in Seq({Line("cardinality", Cardinality(C))})
    BY <2>1
  <2>3. /\ DOMAIN file.lines = 1 .. n /\ n \in 0 .. 1
        /\ \A k \in 1 .. n : file.lines[k] = Line("cardinality", Cardinality(C))
    BY <1>2, <2>1, <2>2 DEF lines
  <2>4. ASSUME NEW k \in DOMAIN file.lines
        PROVE  /\ file.lines[k].key = "cardinality"
               /\ file.lines[k].value = Cardinality(C)
    <3>1. file.lines[k] = Line("cardinality", Cardinality(C))
      BY <2>3
    <3>2. QED
      BY <3>1 DEF Line
  <2>5. /\ Value(file, "id") = {} /\ Value(file, "count") = {}
        /\ \A m \in Value(file, "cardinality") : m = Cardinality(C)
    BY <2>4 DEF Value
  <2>6. ~(Whole(file) /\ Loadable(file))
    BY <2>5 DEF Whole, Loadable
  <2>7. QED
    BY <2>5, <2>6 DEF Accurate, ResultIds, C
<1>4. CASE mode = "Intersection"
  <2> HIDE DEF C
  <2>1. /\ Len(lines) = 4 + Cardinality(C)
        /\ lines[1] = Line("intersection_root", C)
        /\ lines[2] = Line("set_root_a", A)
        /\ lines[3] = Line("set_root_b", B)
        /\ lines[4] = Line("count", Cardinality(C))
        /\ \A k \in 5 .. 4 + Cardinality(C) :
             lines[k] = Line("id", IdsOf[C][k - 4])
        /\ \E T : lines \in Seq(T)
    <3>1. lines = Lines(A, B, Intersection(A, B, "Intersection"))
      BY <1>4, Zenon
    <3>2. C = A \cap B
      BY DEF C
    <3> HIDE DEF lines
    <3>3. LaidOut(lines, A, B)
      BY <3>1, LinesOfIntersection
    <3>4. QED
      BY <3>2, <3>3 DEF LaidOut
  <2> HIDE DEF lines
  <2>2. /\ DOMAIN file.lines = 1 .. n /\ Len(file.lines) = n
        /\ n \in 0 .. 4 + Cardinality(C)
        /\ \A k \in 1 .. n : file.lines[k] = lines[k]
    BY <1>2, <2>1 DEF lines
  <2>3. \A k \in 1 .. n :
          \/ k \in 5 .. 4 + Cardinality(C) /\ file.lines[k] = Line("id", IdsOf[C][k - 4])
          \/ k = 4 /\ file.lines[k] = Line("count", Cardinality(C))
          \/ /\ k \in 1 .. 3
             /\ file.lines[k].key \in {"intersection_root", "set_root_a", "set_root_b"}
    <3>1. \A k \in 1 .. n : k = 1 \/ k = 2 \/ k = 3 \/ k = 4
                              \/ k \in 5 .. 4 + Cardinality(C)
      BY <1>1, <2>2
    <3>2. /\ lines[1].key = "intersection_root" /\ lines[2].key = "set_root_a"
          /\ lines[3].key = "set_root_b"
      BY <2>1, LineFields
    <3>3. ASSUME NEW k \in 1 .. n
          PROVE  \/ k \in 5 .. 4 + Cardinality(C)
                    /\ file.lines[k] = Line("id", IdsOf[C][k - 4])
                 \/ k = 4 /\ file.lines[k] = Line("count", Cardinality(C))
                 \/ k \in 1 .. 3
                    /\ file.lines[k].key \in
                         {"intersection_root", "set_root_a", "set_root_b"}
      <4>1. file.lines[k] = lines[k]
        BY <2>2
      <4>2. CASE k \in 5 .. 4 + Cardinality(C)
        BY <2>1, <4>1, <4>2
      <4>3. CASE k = 4
        BY <2>1, <4>1, <4>3
      <4>4. CASE k = 1 \/ k = 2 \/ k = 3
        BY <3>2, <4>1, <4>4
      <4>5. QED
        BY <3>1, <4>2, <4>3, <4>4
    <3>4. QED
      BY <3>3
  <2>4. /\ \A k \in 1 .. n : file.lines[k].key = "id" =>
             /\ k \in 5 .. 4 + Cardinality(C)
             /\ file.lines[k].value = IdsOf[C][k - 4]
        /\ \A k \in 1 .. n : file.lines[k].key = "count" =>
             k = 4 /\ file.lines[k].value = Cardinality(C)
        /\ \A k \in 1 .. n : file.lines[k].key # "cardinality"
    BY <2>3, LineFields
  <2>5. \A k \in 5 .. n : /\ file.lines[k].key = "id"
                          /\ file.lines[k].value = IdsOf[C][k - 4]
    <3>1. \A k \in 5 .. n : k \in 1 .. n /\ k # 4 /\ k \notin 1 .. 3
      OBVIOUS
    <3>2. QED
      BY <2>3, <3>1, LineFields
  <2>6. \A k \in 5 .. 4 + Cardinality(C) : IdsOf[C][k - 4] \in C
    <3>1. \A k \in 5 .. 4 + Cardinality(C) : k - 4 \in 1 .. Len(IdsOf[C])
      BY <1>1
    <3>2. QED
      BY <1>1, <3>1, ElementOfSeq
  <2>7. ResultIds(file) \subseteq C
    BY <2>2, <2>4, <2>6 DEF ResultIds, Value
  <2>8. /\ \A m \in Value(file, "count") : m = Cardinality(C)
        /\ Value(file, "cardinality") = {}
    BY <2>2, <2>4 DEF Value
  <2>9. ASSUME Whole(file) PROVE C \subseteq ResultIds(file)
    <3>1. n = 4 + Cardinality(C)
      BY <2>2, <2>8, <2>9 DEF Whole
    <3>2. ASSUME NEW f \in C PROVE f \in ResultIds(file)
      <4>1. PICK k \in 1 .. Len(IdsOf[C]) : IdsOf[C][k] = f
        BY IdsEnumerate DEF Enumerates, C
      <4>2. k + 4 \in 5 .. n /\ k + 4 \in 1 .. n /\ (k + 4) - 4 = k
        BY <1>1, <3>1
      <4>3. file.lines[k + 4].key = "id" /\ file.lines[k + 4].value = f
        BY <2>5, <4>1, <4>2
      <4>4. QED
        BY <2>2, <4>2, <4>3 DEF ResultIds, Value
    <3>3. QED
      BY <3>2
  <2>10. QED
    BY <2>7, <2>8, <2>9 DEF Accurate, C
<1>5. QED
  BY <1>3, <1>4 DEF Modes

-----------------------------------------------------------------------------
(***************************************************************************)
(* The inductive invariant: every file is what a command made of its       *)
(* inputs.                                                                 *)
(***************************************************************************)
Encoding(file) ==
    \E texts \in Inputs : file = [lines |-> Encoded(texts), of |-> texts]

Intersected(ta, tb, mode) ==
    LET A == FromIds(Encoded(ta))
        B == FromIds(Encoded(tb))
    IN  Lines(A, B, Intersection(A, B, mode))

Intersecting(file) ==
    \E ta \in Inputs, tb \in Inputs, mode \in Modes :
        \E n \in 0 .. Len(Intersected(ta, tb, mode)) :
            file = [lines |-> SubSeq(Intersected(ta, tb, mode), 1, n), of |-> <<ta, tb>>]

IdsMade == \A f \in IdFiles : ids[f] # Absent => Encoding(ids[f])

ResultMade == result # Absent => Intersecting(result)

ReceiptMade ==
    receipt # Absent =>
        receipt.commitment \in [mode : Modes, ids : SUBSET Facts, count : Nat]

PolicyMade == policy # Absent => policy \in ProfileFiles \cup {Permissive, Strict}

IInv ==
    /\ ids = [f \in IdFiles |-> ids[f]]
    /\ IdsMade /\ ResultMade /\ ReceiptMade /\ PolicyMade

\* What the facts of an input that intersect is given are.
LEMMA EncodedIsFacts ==
    ASSUME NEW texts \in Inputs
    PROVE  FromIds(Encoded(texts)) \in SUBSET Facts
BY EncodedFacts

\* A result names facts that both its id files hold, counts those, and names
\* them all when it is whole.
LEMMA ResultFacts ==
    ASSUME NEW file, Intersecting(file)
    PROVE  LET A == FromIds(Encoded(file.of[1]))
               B == FromIds(Encoded(file.of[2]))
           IN  /\ file.of[1] \in Inputs /\ file.of[2] \in Inputs
               /\ Accurate(file, A, B)
<1>1. PICK ta \in Inputs, tb \in Inputs, mode \in Modes :
        \E n \in 0 .. Len(Intersected(ta, tb, mode)) :
            file = [lines |-> SubSeq(Intersected(ta, tb, mode), 1, n), of |-> <<ta, tb>>]
  BY DEF Intersecting
<1>2. PICK n \in 0 .. Len(Intersected(ta, tb, mode)) :
        file = [lines |-> SubSeq(Intersected(ta, tb, mode), 1, n), of |-> <<ta, tb>>]
  BY <1>1
<1> DEFINE A == FromIds(Encoded(ta))
           B == FromIds(Encoded(tb))
<1>3. file.of[1] = ta /\ file.of[2] = tb
  BY <1>2
<1>4. A \in SUBSET Facts /\ B \in SUBSET Facts
  BY EncodedIsFacts
<1>5. Intersected(ta, tb, mode) = Lines(A, B, Intersection(A, B, mode))
  BY Zenon DEF Intersected
<1>6. /\ file.lines = SubSeq(Lines(A, B, Intersection(A, B, mode)), 1, n)
      /\ n \in 0 .. Len(Lines(A, B, Intersection(A, B, mode)))
  <2>1. file.lines = SubSeq(Intersected(ta, tb, mode), 1, n)
    BY <1>2
  <2>2. QED
    BY <1>5, <2>1, Zenon
<1> HIDE DEF A, B
<1>7. Accurate(file, A, B)
  BY <1>4, <1>6, PrefixOfResult, Zenon
<1>8. QED
  BY <1>3, <1>7, Zenon DEF A, B

\* Sets of facts are finite.
LEMMA CountsAreNumbers ==
    ASSUME NEW C \in SUBSET Facts
    PROVE  Cardinality(C) \in Nat
BY IdsCount, LenProperties

\* The commitment of a receipt that is signed over a result.
LEMMA SignedCommitment ==
    ASSUME IInv, ReceiptSign
    PROVE  LET c == receipt'.commitment
           IN  \/ c = Commitment("Intersection", {}, 0)
               \/ /\ result # Absent /\ Loadable(result)
                  /\ c = Commitment("Intersection", ResultIds(result), 0)
               \/ /\ result # Absent
                  /\ \E m \in Value(result, "count") \cup Value(result, "cardinality") :
                       c = Commitment("Cardinality", {}, m)
<1>1. PICK root_a, root_b :
        \/ receipt' = [root_a |-> root_a, root_b |-> root_b,
                       commitment |-> Commitment("Intersection", {}, 0)]
        \/ /\ result # Absent /\ Loadable(result)
           /\ receipt' = [root_a |-> root_a, root_b |-> root_b,
                          commitment |-> Commitment("Intersection", ResultIds(result), 0)]
        \/ /\ result # Absent
           /\ \E m \in Value(result, "count") \cup Value(result, "cardinality") :
                receipt' = [root_a |-> root_a, root_b |-> root_b,
                            commitment |-> Commitment("Cardinality", {}, m)]
  BY Zenon DEF ReceiptSign
<1>2. QED
  BY <1>1

\* The invariant holds initially.
LEMMA InitMade == ASSUME Init PROVE IInv
BY DEF Init, IInv, IdsMade, ResultMade, ReceiptMade, PolicyMade

\* Every command keeps it.
LEMMA EncodeMakes ==
    ASSUME IInv, NEW f \in IdFiles, Encode(f)
    PROVE  IInv'
<1>1. PICK texts \in Inputs :
        ids' = [ids EXCEPT ![f] = [lines |-> Encoded(texts), of |-> texts]]
  BY DEF Encode
<1>2. UNCHANGED <<result, receipt, policy>>
  BY DEF Encode
<1>3. ids' = [g \in IdFiles |-> ids'[g]]
  BY <1>1 DEF IInv
<1>4. ids'[f] = [lines |-> Encoded(texts), of |-> texts]
      /\ \A g \in IdFiles \ {f} : ids'[g] = ids[g]
  BY <1>1 DEF IInv
<1>5. Encoding(ids'[f])
  BY <1>4 DEF Encoding
<1>6. IdsMade'
  BY <1>4, <1>5 DEF IInv, IdsMade, Encoding
<1>7. QED
  BY <1>2, <1>3, <1>6 DEF IInv, ResultMade, Intersecting, ReceiptMade, PolicyMade

\* A result is made of the two id files that are there.
LEMMA IntersectMakes ==
    ASSUME IInv, Intersect
    PROVE  IInv'
<1>1. /\ ids.set_a # Absent /\ ids.set_b # Absent
      /\ UNCHANGED <<ids, receipt, policy>>
  BY DEF Intersect, IdFiles
<1>2. PICK ta \in Inputs : ids.set_a = [lines |-> Encoded(ta), of |-> ta]
  BY <1>1 DEF IInv, IdsMade, Encoding, IdFiles
<1>3. PICK tb \in Inputs : ids.set_b = [lines |-> Encoded(tb), of |-> tb]
  BY <1>1 DEF IInv, IdsMade, Encoding, IdFiles
<1>4. /\ LoadFactSet("set_a") = FromIds(Encoded(ta)) /\ ids.set_a.of = ta
      /\ LoadFactSet("set_b") = FromIds(Encoded(tb)) /\ ids.set_b.of = tb
  BY <1>2, <1>3 DEF LoadFactSet
<1>5. PICK mode \in Modes :
        LET lines == Lines(LoadFactSet("set_a"), LoadFactSet("set_b"),
                           Intersection(LoadFactSet("set_a"), LoadFactSet("set_b"), mode))
        IN  \E n \in 0 .. Len(lines) :
              result' = [lines |-> SubSeq(lines, 1, n),
                         of |-> <<ids.set_a.of, ids.set_b.of>>]
  BY Zenon DEF Intersect
<1>6. \E n \in 0 .. Len(Intersected(ta, tb, mode)) :
        result' = [lines |-> SubSeq(Intersected(ta, tb, mode), 1, n), of |-> <<ta, tb>>]
  BY <1>4, <1>5 DEF Intersected
<1>7. Intersecting(result')
  BY <1>6 DEF Intersecting
<1>8. QED
  BY <1>1, <1>7 DEF IInv, IdsMade, Encoding, ResultMade, Intersecting, ReceiptMade, PolicyMade

\* A receipt commits to facts or to a number.
LEMMA ReceiptSignMakes ==
    ASSUME IInv, ReceiptSign
    PROVE  IInv'
<1>1. UNCHANGED <<ids, result, policy>>
  BY DEF ReceiptSign
<1>2. result # Absent =>
        /\ ResultIds(result) \in SUBSET Facts
        /\ \A m \in Value(result, "count") \cup Value(result, "cardinality") : m \in Nat
  <2> SUFFICES ASSUME result # Absent
               PROVE  /\ ResultIds(result) \in SUBSET Facts
                      /\ \A m \in Value(result, "count") \cup Value(result, "cardinality") :
                           m \in Nat
    OBVIOUS
  <2> DEFINE A == FromIds(Encoded(result.of[1]))
             B == FromIds(Encoded(result.of[2]))
  <2>1. Intersecting(result)
    BY DEF IInv, ResultMade
  <2>2. /\ result.of[1] \in Inputs /\ result.of[2] \in Inputs
        /\ Accurate(result, A, B)
    BY <2>1, ResultFacts, Zenon
  <2>3. A \cap B \in SUBSET Facts
    BY <2>2, EncodedIsFacts
  <2> HIDE DEF A, B
  <2>4. QED
    BY <2>2, <2>3, CountsAreNumbers DEF Accurate
<1>3. receipt'.commitment \in [mode : Modes, ids : SUBSET Facts, count : Nat]
  <2> DEFINE c == receipt'.commitment
             Type == [mode : Modes, ids : SUBSET Facts, count : Nat]
  <2>1. ASSUME NEW mode \in Modes, NEW F \in SUBSET Facts, NEW m \in Nat
        PROVE  Commitment(mode, F, m) \in Type
    BY DEF Commitment
  <2>2. "Intersection" \in Modes /\ "Cardinality" \in Modes
    BY DEF Modes
  <2> HIDE DEF c, Type
  <2>3. ASSUME c = Commitment("Intersection", {}, 0)
        PROVE  c \in Type
    BY <2>1, <2>2, <2>3
  <2>4. ASSUME /\ result # Absent
               /\ c = Commitment("Intersection", ResultIds(result), 0)
        PROVE  c \in Type
    BY <1>2, <2>1, <2>2, <2>4
  <2>5. ASSUME /\ result # Absent
               /\ \E m \in Value(result, "count") \cup Value(result, "cardinality") :
                    c = Commitment("Cardinality", {}, m)
        PROVE  c \in Type
    BY <1>2, <2>1, <2>2, <2>5
  <2>6. \/ c = Commitment("Intersection", {}, 0)
        \/ /\ result # Absent
           /\ c = Commitment("Intersection", ResultIds(result), 0)
        \/ /\ result # Absent
           /\ \E m \in Value(result, "count") \cup Value(result, "cardinality") :
                c = Commitment("Cardinality", {}, m)
    BY SignedCommitment, Zenon DEF c
  <2>7. QED
    BY <2>3, <2>4, <2>5, <2>6 DEF c, Type
<1>4. QED
  BY <1>1, <1>3 DEF IInv, IdsMade, Encoding, ResultMade, Intersecting, ReceiptMade, PolicyMade

\* Only policy files are written as policies.
LEMMA WritePolicyMakes ==
    ASSUME IInv, WritePolicy
    PROVE  IInv'
BY DEF WritePolicy, IInv, IdsMade, Encoding, ResultMade, Intersecting, ReceiptMade, PolicyMade

\* A step that changes nothing.
LEMMA StutterMakes ==
    ASSUME IInv, UNCHANGED vars
    PROVE  IInv'
BY DEF vars, IInv, IdsMade, Encoding, ResultMade, Intersecting, ReceiptMade, PolicyMade

\* Every file is what a command made of its inputs.
THEOREM Made == Spec => []IInv
<1>1. IInv /\ [Next]_vars => IInv'
  BY EncodeMakes, IntersectMakes, ReceiptSignMakes, WritePolicyMakes, StutterMakes DEF Next
<1>2. QED
  BY <1>1, InitMade, PTL DEF Spec

-----------------------------------------------------------------------------
(***************************************************************************)
(* The properties of CliLocal.                                             *)
(***************************************************************************)
\* Id files hold ids, results facts, receipts commitments, and policy files
\* read as profiles.
THEOREM TypeCorrect == Spec => []TypeOK
<1>1. IInv => TypeOK
  <2> SUFFICES ASSUME IInv PROVE TypeOK
    OBVIOUS
  <2>1. ASSUME NEW f \in IdFiles, ids[f] # Absent
        PROVE  FromIds(ids[f].lines) \subseteq Facts
    <3>1. PICK texts \in Inputs : ids[f] = [lines |-> Encoded(texts), of |-> texts]
      BY <2>1 DEF IInv, IdsMade, Encoding
    <3>2. ids[f].lines = Encoded(texts)
      BY <3>1
    <3>3. QED
      BY <3>2, EncodedIsFacts
  <2>2. ASSUME result # Absent PROVE ResultIds(result) \subseteq Facts
    <3>1. Intersecting(result)
      BY <2>2 DEF IInv, ResultMade
    <3> DEFINE A == FromIds(Encoded(result.of[1]))
               B == FromIds(Encoded(result.of[2]))
    <3>2. result.of[1] \in Inputs /\ Accurate(result, A, B)
      BY <3>1, ResultFacts, Zenon
    <3>3. A \subseteq Facts
      BY <3>2, EncodedIsFacts
    <3> HIDE DEF A, B
    <3>4. QED
      BY <3>2, <3>3 DEF Accurate
  <2>3. policy # Absent => IsProfile(FromJson(policy))
    BY FilesReadAsProfiles DEF IInv, PolicyMade
  <2>4. QED
    BY <2>1, <2>2, <2>3 DEF TypeOK, IInv, ReceiptMade
<1>2. QED
  BY <1>1, Made, PTL

\* What a result says of the facts its two inputs spell.
LEMMA ResultSpells ==
    ASSUME IInv, result # Absent
    PROVE  /\ FromIds(Encoded(result.of[1])) \cap FromIds(Encoded(result.of[2]))
                \subseteq InBoth(result.of)
           /\ BothComplete(result.of) =>
                FromIds(Encoded(result.of[1])) \cap FromIds(Encoded(result.of[2]))
                  = InBoth(result.of)
           /\ Accurate(result, FromIds(Encoded(result.of[1])),
                       FromIds(Encoded(result.of[2])))
<1>1. Intersecting(result)
  BY DEF IInv, ResultMade
<1>2. /\ result.of[1] \in Inputs /\ result.of[2] \in Inputs
      /\ Accurate(result, FromIds(Encoded(result.of[1])),
                  FromIds(Encoded(result.of[2])))
  BY <1>1, ResultFacts, Zenon
<1>3. /\ FromIds(Encoded(result.of[1])) \subseteq Spelled(result.of[1])
      /\ FromIds(Encoded(result.of[2])) \subseteq Spelled(result.of[2])
      /\ Complete(result.of[1]) =>
           FromIds(Encoded(result.of[1])) = Spelled(result.of[1])
      /\ Complete(result.of[2]) =>
           FromIds(Encoded(result.of[2])) = Spelled(result.of[2])
  BY <1>2, EncodedFacts
<1>4. QED
  BY <1>2, <1>3 DEF InBoth, BothComplete

\* However encode and intersect end, a result tells the truth about its inputs.
THEOREM ResultIsExact == Spec => []ResultExact
<1>1. IInv => ResultExact
  <2> SUFFICES ASSUME IInv, result # Absent
               PROVE  /\ ResultIds(result) \subseteq InBoth(result.of)
                      /\ BothComplete(result.of) =>
                           /\ \A n \in Value(result, "count")
                                       \cup Value(result, "cardinality") :
                                n = Cardinality(InBoth(result.of))
                           /\ Whole(result) /\ Loadable(result) =>
                                ResultIds(result) = InBoth(result.of)
    BY DEF ResultExact
  <2> DEFINE A == FromIds(Encoded(result.of[1]))
             B == FromIds(Encoded(result.of[2]))
  <2>1. /\ A \cap B \subseteq InBoth(result.of)
        /\ BothComplete(result.of) => A \cap B = InBoth(result.of)
        /\ Accurate(result, A, B)
    BY ResultSpells
  <2> HIDE DEF A, B
  <2>2. QED
    BY <2>1 DEF Accurate
<1>2. QED
  BY <1>1, Made, PTL

\* A receipt over the roots of the sets a result was computed from vouches for
\* what is true of them.
THEOREM ReceiptsVouch == Spec => ReceiptVouches
<1>1. ASSUME IInv, Next, receipt' # receipt
      PROVE  Vouches(receipt', result)
  <2>1. ReceiptSign
    BY <1>1 DEF Next, Encode, Intersect, WritePolicy
  <2> DEFINE c == receipt'.commitment
             A == FromIds(Encoded(result.of[1]))
             B == FromIds(Encoded(result.of[2]))
  <2> SUFFICES ASSUME result # Absent
               PROVE  /\ c.ids \subseteq A \cap B
                      /\ BothComplete(result.of) =>
                           IF c.mode = "Cardinality"
                           THEN c.count = Cardinality(InBoth(result.of))
                           ELSE Whole(result) => c.ids \in {{}, InBoth(result.of)}
    BY DEF Vouches
  <2>2. /\ BothComplete(result.of) => A \cap B = InBoth(result.of)
        /\ Accurate(result, A, B)
    BY <1>1, ResultSpells
  <2>3. \/ c = Commitment("Intersection", {}, 0)
        \/ /\ Loadable(result)
           /\ c = Commitment("Intersection", ResultIds(result), 0)
        \/ \E m \in Value(result, "count") \cup Value(result, "cardinality") :
             c = Commitment("Cardinality", {}, m)
    BY <1>1, <2>1, SignedCommitment, Zenon
  <2> HIDE DEF c, A, B
  <2>4. ASSUME c = Commitment("Intersection", {}, 0)
        PROVE  c.mode = "Intersection" /\ c.ids = {}
    BY <2>4 DEF Commitment
  <2>5. ASSUME Loadable(result), c = Commitment("Intersection", ResultIds(result), 0)
        PROVE  c.mode = "Intersection" /\ c.ids = ResultIds(result)
    BY <2>5 DEF Commitment
  <2>6. ASSUME NEW m \in Value(result, "count") \cup Value(result, "cardinality"),
               c = Commitment("Cardinality", {}, m)
        PROVE  c.mode = "Cardinality" /\ c.ids = {} /\ c.count = m
    BY <2>6 DEF Commitment
  <2>7. QED
    BY <2>2, <2>3, <2>4, <2>5, <2>6 DEF Accurate
<1>2. IInv /\ [Next]_vars => [receipt' # receipt => Vouches(receipt', result)]_vars
  BY <1>1
<1>3. QED
  BY <1>2, Made, PTL DEF Spec, ReceiptVouches

\* Parameters that offer no less pass, and a refusal names the key to blame.
THEOREM PoliciesReasoned == Spec => []PolicyReasoned
<1>1. IInv => PolicyReasoned
  <2> SUFFICES ASSUME IInv, policy # Absent, Readable(policy), NEW p \in Params
               PROVE  LET verdict == PolicyCheck(p)
                      IN  IF verdict = "Ok"
                          THEN \A q \in Params : AtLeast(q, p) => PolicyCheck(q) = "Ok"
                          ELSE /\ verdict \in DOMAIN policy
                               /\ LET next == Check(FromJson(Without(policy, verdict)),
                                           [p EXCEPT !.is_intersection_mode = TRUE])
                                  IN  next = "Ok" \/ Place(next) > Place(verdict)
    BY DEF PolicyReasoned
  <2> DEFINE profile == FromJson(policy)
             verdict == PolicyCheck(p)
             next == Check(FromJson(Without(policy, verdict)), AsChecked(p))
  <2>1. IsProfile(profile) /\ p \in SessionParams /\ Params \subseteq SessionParams
    BY FilesReadAsProfiles, PolicyAssumption DEF IInv, PolicyMade
  <2>2. \A q \in Params : PolicyCheck(q) = Check(profile, AsChecked(q))
    BY Zenon DEF PolicyCheck, AsChecked
  <2>3. ASSUME verdict = "Ok", NEW q \in Params, AtLeast(q, p)
        PROVE  PolicyCheck(q) = "Ok"
    <3>1. Violated(profile, AsChecked(p)) = {}
      BY <2>2, <2>3, CheckIsFirst, Zenon
    <3>2. Violated(profile, AsChecked(q)) = {}
      BY <2>1, <2>3, <3>1, MoreViolatesLess
    <3>3. QED
      BY <2>2, <3>2, CheckIsFirst, Zenon
  <2>4. ASSUME verdict # "Ok"
        PROVE  /\ verdict \in DOMAIN policy
               /\ next = "Ok" \/ Place(next) > Place(verdict)
    <3>1. /\ verdict \in Violated(profile, AsChecked(p))
          /\ \A l \in Violated(profile, AsChecked(p)) : Place(verdict) <= Place(l)
      <4>1. verdict = Check(profile, AsChecked(p))
        BY <2>2, Zenon
      <4> HIDE DEF verdict, profile
      <4>2. QED
        BY <2>4, <4>1, CheckIsFirst
    <3>2. verdict \in DOMAIN policy
      BY <3>1, OnlyKeysOfTheFile, Zenon
    <3>3. next # "Ok" =>
            next \in Violated(FromJson(Without(policy, verdict)), AsChecked(p))
      BY CheckIsFirst, Zenon
    <3>4. next # "Ok" => next \in Violated(profile, AsChecked(p)) /\ next # verdict
      BY <3>3, WithoutDrops
    <3> HIDE DEF verdict, next, profile
    <3>5. next # "Ok" => /\ next \in Constraints /\ verdict \in Constraints
                         /\ next # verdict /\ Place(verdict) <= Place(next)
      BY <3>1, <3>4, ViolatedConstraints
    <3>6. QED
      BY <3>2, <3>5, PlacesDiffer
  <2>5. next = Check(FromJson(Without(policy, verdict)),
                     [p EXCEPT !.is_intersection_mode = TRUE])
    BY Zenon DEF AsChecked
  <2>6. QED
    BY <2>3, <2>4, <2>5, Zenon
<1>2. QED
  BY <1>1, Made, PTL
=============================================================================
