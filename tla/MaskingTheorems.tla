-------------------------- MODULE MaskingTheorems --------------------------
(***************************************************************************)
(* Facts about the masking arithmetic: masking by two parties commutes,    *)
(* distinguishes facts, and so the position-wise comparison of session.rs  *)
(* computes the intersection exactly.                                      *)
(***************************************************************************)
EXTENDS Masking, SequenceTheorems, FunctionTheorems,
        FiniteSetTheorems, TLAPS

\* ids lists the members of F, each once: FactSet::ids.
Enumerates(ids, F) ==
    /\ ids \in Seq(F)
    /\ \A f \in F : \E k \in 1 .. Len(ids) : ids[k] = f
    /\ \A k, l \in 1 .. Len(ids) : ids[k] = ids[l] => k = l

\* A list of a set that has each member once is as long as the set is large.
LEMMA EnumerationCount ==
    ASSUME NEW F, NEW ids, Enumerates(ids, F)
    PROVE  /\ Len(ids) = Cardinality(F) /\ Len(ids) \in Nat
           /\ {ids[k] : k \in 1 .. Len(ids)} = F
<1>1. ids \in Seq(F) /\ Len(ids) \in Nat /\ ids \in [1 .. Len(ids) -> F]
  BY LenProperties DEF Enumerates
<1>2. /\ \A f \in F : \E k \in 1 .. Len(ids) : ids[k] = f
      /\ \A k, l \in 1 .. Len(ids) : ids[k] = ids[l] => k = l
  BY DEF Enumerates
<1>3. ids \in Bijection(1 .. Len(ids), F)
  BY <1>1, <1>2, Fun_IsBij
<1>4. IsFiniteSet(1 .. Len(ids)) /\ Cardinality(1 .. Len(ids)) = Len(ids)
  BY <1>1, FS_Interval
<1>5. Cardinality(1 .. Len(ids)) = Cardinality(F)
  BY <1>3, <1>4, FS_Bijection DEF ExistsBijection
<1>6. {ids[k] : k \in 1 .. Len(ids)} = F
  BY <1>1, <1>2
<1>7. QED
  BY <1>1, <1>4, <1>5, <1>6

\* The hash of a fact is a point.
LEMMA HashType ==
    ASSUME NEW f \in Facts
    PROVE  HashToPublicKey(f) \in Element
BY DEF HashToPublicKey, Element

\* A masked point is a point.
LEMMA DiffieHellmanType ==
    ASSUME NEW s \in Secrets, NEW e \in Element
    PROVE  DiffieHellman(s, e) \in Element
BY DEF DiffieHellman, Element

\* The masked ids are a sequence of points as long as the ids.
LEMMA MaskIdsType ==
    ASSUME NEW s \in Secrets, NEW ids \in Seq(Facts)
    PROVE  /\ MaskIds(s, ids) \in Seq(Element)
           /\ Len(MaskIds(s, ids)) = Len(ids)
           /\ \A k \in 1 .. Len(ids) :
                MaskIds(s, ids)[k] = DiffieHellman(s, HashToPublicKey(ids[k]))
<1>1. \A k \in 1 .. Len(ids) : DiffieHellman(s, HashToPublicKey(ids[k])) \in Element
  BY HashType, DiffieHellmanType
<1>2. QED
  BY <1>1 DEF MaskIds

\* Masking a sequence of points again gives one of the same length.
LEMMA MaskAllType ==
    ASSUME NEW s \in Secrets, NEW es \in Seq(Element)
    PROVE  /\ MaskAll(s, es) \in Seq(Element)
           /\ Len(MaskAll(s, es)) = Len(es)
           /\ \A k \in 1 .. Len(es) : MaskAll(s, es)[k] = DiffieHellman(s, es[k])
<1>1. \A k \in 1 .. Len(es) : DiffieHellman(s, es[k]) \in Element
  BY DiffieHellmanType
<1>2. QED
  BY <1>1 DEF MaskAll

\* compute_intersection returns a PsiResult.
LEMMA ResultType ==
    ASSUME NEW ours \in Seq(Element), NEW theirs \in Seq(Element),
           NEW ids \in Seq(Facts), NEW mode \in Modes
    PROVE  ComputeIntersection(ours, theirs, ids, mode) \in PsiResult
<1>1. Cardinality(Hits(ours, theirs)) \in Nat
  <2>1. IsFiniteSet(1 .. Len(ours))
    BY LenProperties, FS_Interval
  <2>2. Hits(ours, theirs) \subseteq 1 .. Len(ours)
    BY DEF Hits
  <2>3. QED
    BY <2>1, <2>2, FS_Subset, FS_CardinalityType
<1>2. {ids[k] : k \in Hits(ours, theirs) \cap (1 .. Len(ids))} \in SUBSET Facts
  BY ElementOfSeq
<1>3. QED
  BY <1>1, <1>2 DEF ComputeIntersection, PsiResult

\* Masking keeps the fact, and two parties' masks may be applied in any order.
LEMMA MaskCommutes ==
    ASSUME NEW x \in Secrets, NEW y \in Secrets, NEW e \in Element
    PROVE  /\ DiffieHellman(x, DiffieHellman(y, e)) = DiffieHellman(y, DiffieHellman(x, e))
           /\ DiffieHellman(x, e).fact = e.fact
BY DEF DiffieHellman, Element

\* Two facts masked by both parties, in either order, agree only if equal.
LEMMA DoubleMaskInjective ==
    ASSUME NEW x \in Secrets, NEW y \in Secrets,
           NEW f \in Facts, NEW g \in Facts
    PROVE  DiffieHellman(y, DiffieHellman(x, HashToPublicKey(f)))
             = DiffieHellman(x, DiffieHellman(y, HashToPublicKey(g)))
           <=> f = g
<1> DEFINE Twice(a, b, h) == DiffieHellman(a, DiffieHellman(b, HashToPublicKey(h)))
<1>1. Twice(y, x, g) = Twice(x, y, g)
  BY HashType, MaskCommutes
<1>2. Twice(y, x, f).fact = f /\ Twice(x, y, g).fact = g
  BY HashType, DiffieHellmanType, MaskCommutes DEF HashToPublicKey
<1>3. QED
  BY <1>1, <1>2

\* The positions where the two doubly masked lists meet are exactly those of
\* the common facts.
LEMMA HitsAreCommonFacts ==
    ASSUME NEW x \in Secrets, NEW y \in Secrets,
           NEW A \in SUBSET Facts, NEW B \in SUBSET Facts,
           NEW a, Enumerates(a, A), NEW b, Enumerates(b, B)
    PROVE  \A k : k \in Hits(MaskAll(y, MaskIds(x, a)), MaskAll(x, MaskIds(y, b)))
                 <=> k \in 1 .. Len(a) /\ a[k] \in B
<1> DEFINE ours == MaskAll(y, MaskIds(x, a))
           theirs == MaskAll(x, MaskIds(y, b))
<1>1. a \in Seq(Facts) /\ b \in Seq(Facts)
  BY SeqMonotonic DEF Enumerates
<1>2. /\ Len(ours) = Len(a)
      /\ \A k \in 1 .. Len(a) :
           ours[k] = DiffieHellman(y, DiffieHellman(x, HashToPublicKey(a[k])))
  BY <1>1, MaskIdsType, MaskAllType
<1>3. /\ Len(theirs) = Len(b)
      /\ \A l \in 1 .. Len(b) :
           theirs[l] = DiffieHellman(x, DiffieHellman(y, HashToPublicKey(b[l])))
  BY <1>1, MaskIdsType, MaskAllType
<1>4. \A k \in 1 .. Len(a), l \in 1 .. Len(b) : ours[k] = theirs[l] <=> a[k] = b[l]
  BY <1>1, <1>2, <1>3, ElementOfSeq, DoubleMaskInjective
<1>5. \A l \in 1 .. Len(b) : b[l] \in B
  BY ElementOfSeq DEF Enumerates
<1>6. \A f \in B : \E l \in 1 .. Len(b) : b[l] = f
  BY DEF Enumerates
<1> HIDE DEF ours, theirs
<1>7. \A k : k \in Hits(ours, theirs) <=> k \in 1 .. Len(a) /\ a[k] \in B
  BY <1>2, <1>3, <1>4, <1>5, <1>6 DEF Hits
<1>8. QED
  BY <1>7 DEF ours, theirs

\* compute_intersection is exact: for two parties that both masked both lists,
\* in either order of masking, it returns the common facts, or their number.
THEOREM ComputeIntersectionExact ==
    ASSUME NEW x \in Secrets, NEW y \in Secrets, IsFiniteSet(Facts),
           NEW A \in SUBSET Facts, NEW B \in SUBSET Facts,
           NEW a, Enumerates(a, A), NEW b, Enumerates(b, B), NEW mode
    PROVE  ComputeIntersection(MaskAll(y, MaskIds(x, a)),
                               MaskAll(x, MaskIds(y, b)), a, mode)
             = TrueIntersection(A, B, mode)
<1> DEFINE H == {k \in 1 .. Len(a) : a[k] \in B}
           g == [k \in H |-> a[k]]
<1>1. Hits(MaskAll(y, MaskIds(x, a)), MaskAll(x, MaskIds(y, b))) = H
  <2>1. \A k : k \in Hits(MaskAll(y, MaskIds(x, a)), MaskAll(x, MaskIds(y, b)))
               <=> k \in 1 .. Len(a) /\ a[k] \in B
    BY HitsAreCommonFacts
  <2>2. QED
    BY <2>1
<1>2. Len(a) \in Nat /\ \A k \in 1 .. Len(a) : a[k] \in A
  BY LenProperties, ElementOfSeq DEF Enumerates
<1>3. {a[k] : k \in H} = A \cap B
  <2>1. ASSUME NEW f \in A \cap B PROVE \E k \in H : a[k] = f
    BY DEF Enumerates
  <2>2. ASSUME NEW k \in H PROVE a[k] \in A \cap B
    BY <1>2
  <2>3. QED
    BY <2>1, <2>2
<1>4. g \in Bijection(H, A \cap B)
  <2>1. g \in [H -> A \cap B]
    BY <1>3
  <2>2. \A k, l \in H : g[k] = g[l] => k = l
    BY DEF Enumerates
  <2>3. \A f \in A \cap B : \E k \in H : g[k] = f
    BY <1>3
  <2>4. QED
    BY <2>1, <2>2, <2>3, Fun_IsBij
<1>5. IsFiniteSet(H)
  <2>1. IsFiniteSet(1 .. Len(a))
    BY <1>2, FS_Interval
  <2>2. H \subseteq 1 .. Len(a)
    OBVIOUS
  <2>3. QED
    BY <2>1, <2>2, FS_Subset
<1>6. Cardinality(H) = Cardinality(A \cap B)
  <2>1. ExistsBijection(H, A \cap B)
    BY <1>4 DEF ExistsBijection
  <2>2. QED
    BY <1>5, <2>1, FS_Bijection
<1>7. H \cap (1 .. Len(a)) = H
  OBVIOUS
<1>8. QED
  BY <1>1, <1>3, <1>6, <1>7 DEF ComputeIntersection, TrueIntersection
=============================================================================
