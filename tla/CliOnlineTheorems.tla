-------------------------- MODULE CliOnlineTheorems --------------------------
(***************************************************************************)
(* Theorems about the online commands, for any number of runs of them, any *)
(* inputs, paddings and files.                                             *)
(***************************************************************************)
EXTENDS CliOnline, MaskingTheorems

\* FactSet::ids lists a set of facts, each once.
LEMMA IdsEnumerate ==
    ASSUME NEW F \in SUBSET Facts
    PROVE  /\ IdsOf[F] \in Seq(Facts)
           /\ Len(IdsOf[F]) = Cardinality(F) /\ Cardinality(F) \in Nat
           /\ \A k \in 1 .. Len(IdsOf[F]) : IdsOf[F][k] \in F
<1>1. Enumerates(IdsOf[F], F)
  BY IdsAssumption DEF Enumerates
<1>2. IdsOf[F] \in Seq(F)
  BY <1>1 DEF Enumerates
<1>3. QED
  BY <1>1, <1>2, SeqMonotonic, ElementOfSeq, EnumerationCount

LEMMA SecretTypes == Offers \cup Replies \cup {Zero} \subseteq Secrets
BY CliAssumption

\* The three kinds of message are told apart by their type.
LEMMA MessageKinds ==
    ASSUME NEW m \in Message
    PROVE  /\ m.type = "Offer"  => m \in Offer
           /\ m.type = "Reply"  => m \in Reply
           /\ m.type = "Reveal" => m \in Reveal
BY DEF Message, Offer, Reply, Reveal

-----------------------------------------------------------------------------
(***************************************************************************)
(* Sequences of points.                                                    *)
(***************************************************************************)
\* pad_masked_elements keeps the elements and adds dummies behind them.
LEMMA PadType ==
    ASSUME NEW es \in Seq(Element), NEW n \in Pads
    PROVE  /\ Pad(es, n) \in Seq(Element)
           /\ Len(Pad(es, n)) = Len(es) + n /\ Len(Pad(es, n)) >= Len(es)
           /\ SubSeq(Pad(es, n), 1, Len(es)) = es
<1> DEFINE ds == [k \in 1 .. n |-> HashToPublicKey(DummyOf[k])]
<1>1. n \in Nat /\ Len(es) \in Nat /\ \A k \in 1 .. n : DummyOf[k] \in Facts
  BY CliAssumption, LenProperties
<1>2. \A k \in 1 .. n : HashToPublicKey(DummyOf[k]) \in Element
  BY <1>1, HashType
<1>3. ds \in Seq(Element) /\ Len(ds) = n
  BY <1>1, <1>2
<1>4. Pad(es, n) = es \o ds
  BY DEF Pad
<1> HIDE DEF ds
<1>6. /\ Pad(es, n) \in Seq(Element) /\ Len(Pad(es, n)) = Len(es) + n
      /\ \A k \in 1 .. Len(es) + n :
           Pad(es, n)[k] = IF k <= Len(es) THEN es[k] ELSE ds[k - Len(es)]
  <2>1. /\ es \o ds \in Seq(Element) /\ Len(es \o ds) = Len(es) + Len(ds)
        /\ \A k \in 1 .. Len(es) + Len(ds) :
             (es \o ds)[k] = IF k <= Len(es) THEN es[k] ELSE ds[k - Len(es)]
    BY <1>3, ConcatProperties
  <2>2. QED
    BY <1>3, <1>4, <2>1
<1>7. SubSeq(Pad(es, n), 1, Len(es)) = es
  <2> DEFINE sub == SubSeq(Pad(es, n), 1, Len(es))
  <2>1. \A k \in 1 .. Len(es) : Pad(es, n)[k] = es[k] /\ es[k] \in Element
    BY <1>1, <1>6, ElementOfSeq
  <2>2. /\ sub \in Seq(Element) /\ Len(sub) = Len(es)
        /\ \A k \in 1 .. Len(es) : sub[k] = es[k]
    BY <1>1, <2>1, SubSeqProperties
  <2> HIDE DEF sub
  <2>3. sub = es
    BY <2>2, SeqEqual
  <2>4. QED
    BY <2>3 DEF sub
<1>8. QED
  BY <1>1, <1>6, <1>7

\* A session masks the ids of its input one by one.
LEMMA MaskedInput ==
    ASSUME NEW s \in Secrets, NEW F \in Inputs
    PROVE  /\ F \in SUBSET Facts
           /\ MaskIds(s, IdsOf[F]) \in Seq(Element)
           /\ Len(MaskIds(s, IdsOf[F])) = Cardinality(F)
<1>1. F \in SUBSET Facts
  BY CliAssumption
<1>2. IdsOf[F] \in Seq(Facts) /\ Len(IdsOf[F]) = Cardinality(F)
  BY <1>1, IdsEnumerate
<1>3. QED
  BY <1>1, <1>2, MaskIdsType

-----------------------------------------------------------------------------
(***************************************************************************)
(* The inductive invariant.                                                *)
(***************************************************************************)
IInv == TypeOK /\ StatesMatchMessages

\* What a run of online-offer or online-reply does: it writes a message and
\* then, unless it ends, the state file of that message.
Written ==
    \E m \in Message, s \in StateFile :
        /\ Write(m, s)
        /\ StateOf(s, m)
        /\ UNCHANGED <<output, clock>>

LEMMA OfferWrites ==
    ASSUME TypeOK, NEW o \in Offers, OnlineOffer(o)
    PROVE  Written
<1>1. PICK sid \in SessionIds, F \in Inputs, mode \in Modes, ttl \in Ttls,
           n \in Pads, signer \in Signer :
         Write([type |-> "Offer", run |-> o, sid |-> sid,
                elems |-> Pad(MaskIds(o, IdsOf[F]), n),
                inonce |-> o, expires |-> clock + ttl, signer |-> signer],
               [of |-> "Offer", sid |-> sid, facts |-> F, mode |-> mode,
                secret |-> SavedSecret(o), nonce |-> o, theirs |-> 0])
  BY DEF OnlineOffer
<1> DEFINE elems == MaskIds(o, IdsOf[F])
           padded == Pad(elems, n)
           m == [type |-> "Offer", run |-> o, sid |-> sid, elems |-> padded,
                 inonce |-> o, expires |-> clock + ttl, signer |-> signer]
           s == [of |-> "Offer", sid |-> sid, facts |-> F, mode |-> mode,
                 secret |-> Zero, nonce |-> o, theirs |-> 0]
<1>2. /\ elems \in Seq(Element) /\ Len(elems) = Cardinality(F)
      /\ F \in SUBSET Facts
  BY MaskedInput, SecretTypes
<1> HIDE DEF elems
<1>3. /\ padded \in Seq(Element) /\ Len(padded) >= Cardinality(F)
      /\ SubSeq(padded, 1, Cardinality(F)) = elems
  BY <1>2, PadType
<1> HIDE DEF padded
<1>4. m \in Message
  <2>1. clock + ttl \in Nat
    BY CliAssumption DEF TypeOK
  <2>2. m \in Offer
    BY <1>3, <2>1 DEF Offer
  <2>3. QED
    BY <2>2 DEF Message
<1>5. s \in StateFile
  BY <1>2, SecretTypes DEF StateFile
<1>6. StateOf(s, m)
  BY <1>3 DEF StateOf, elems
<1>7. Write(m, s)
  BY <1>1 DEF SavedSecret, padded, elems
<1>8. UNCHANGED <<output, clock>>
  BY DEF OnlineOffer
<1> HIDE DEF m, s
<1>9. QED
  BY <1>4, <1>5, <1>6, <1>7, <1>8 DEF Written

LEMMA ReplyWrites ==
    ASSUME IInv, NEW r \in Replies, OnlineReply(r)
    PROVE  Written
<1>1. PICK offer \in msgs, F \in Inputs, mode \in Modes, ttl \in Ttls,
           n \in Pads, signer \in Signer :
         /\ offer.type = "Offer"
         /\ Write([type |-> "Reply", run |-> r, sid |-> offer.sid,
                   elems |-> Pad(MaskIds(r, IdsOf[F]), n),
                   doubly |-> MaskAll(r, offer.elems), inonce |-> offer.inonce,
                   rnonce |-> IF Fresh(offer) THEN r ELSE None,
                   expires |-> IF Fresh(offer) THEN clock + ttl ELSE None,
                   signer |-> signer],
                  [of |-> "Reply", sid |-> offer.sid, facts |-> F, mode |-> mode,
                   secret |-> SavedSecret(r), nonce |-> r,
                   theirs |-> Len(MaskAll(r, offer.elems))])
  BY DEF OnlineReply
<1> DEFINE elems == MaskIds(r, IdsOf[F])
           padded == Pad(elems, n)
           doubly == MaskAll(r, offer.elems)
           rnonce == IF Fresh(offer) THEN r ELSE None
           expires == IF Fresh(offer) THEN clock + ttl ELSE None
           m == [type |-> "Reply", run |-> r, sid |-> offer.sid, elems |-> padded,
                 doubly |-> doubly, inonce |-> offer.inonce, rnonce |-> rnonce,
                 expires |-> expires, signer |-> signer]
           s == [of |-> "Reply", sid |-> offer.sid, facts |-> F, mode |-> mode,
                 secret |-> Zero, nonce |-> r, theirs |-> Len(doubly)]
<1>2. /\ elems \in Seq(Element) /\ Len(elems) = Cardinality(F)
      /\ F \in SUBSET Facts
  BY MaskedInput, SecretTypes
<1> HIDE DEF elems
<1>3. /\ padded \in Seq(Element) /\ Len(padded) >= Cardinality(F)
      /\ SubSeq(padded, 1, Cardinality(F)) = elems
  BY <1>2, PadType
<1> HIDE DEF padded
<1>4. offer \in Offer
  BY <1>1, MessageKinds DEF IInv, TypeOK
<1>5. /\ offer.sid \in SessionIds /\ offer.elems \in Seq(Element)
      /\ offer.inonce \in Offers \cup {None}
  BY <1>4 DEF Offer
<1>6. doubly \in Seq(Element) /\ Len(doubly) \in Nat
  BY <1>5, MaskAllType, SecretTypes, LenProperties
<1>7. rnonce \in {r, None} /\ expires \in Nat \cup {None}
  BY CliAssumption DEF IInv, TypeOK
<1> HIDE DEF doubly, rnonce, expires
<1>8. m \in Message
  <2>1. m \in Reply
    BY <1>3, <1>5, <1>6, <1>7 DEF Reply
  <2>2. QED
    BY <2>1 DEF Message
<1>9. s \in StateFile
  BY <1>2, <1>5, <1>6, SecretTypes DEF StateFile
<1>10. StateOf(s, m)
  BY <1>3, <1>7 DEF StateOf, elems
<1>11. Write(m, s)
  BY <1>1 DEF SavedSecret, padded, elems, doubly, rnonce, expires
<1>12. UNCHANGED <<output, clock>>
  BY DEF OnlineReply
<1> HIDE DEF m, s
<1>13. QED
  BY <1>8, <1>9, <1>10, <1>11, <1>12 DEF Written

\* A write keeps the invariant, whether the state file is written or not.
LEMMA WrittenNext ==
    ASSUME IInv, Written
    PROVE  IInv'
<1>1. PICK m \in Message, s \in StateFile :
        /\ Write(m, s)
        /\ StateOf(s, m)
        /\ UNCHANGED <<output, clock>>
  BY DEF Written
<1>2. /\ msgs' = msgs \cup {m}
      /\ states' \subseteq states \cup {s}
      /\ output' = output /\ clock' = clock
  BY <1>1 DEF Write
<1>3. TypeOK'
  BY <1>2 DEF IInv, TypeOK
<1>4. \A t \in states' : \E x \in msgs' : StateOf(t, x)
  BY <1>1, <1>2 DEF IInv, StatesMatchMessages
<1>5. StatesMatchMessages'
  BY <1>4 DEF StatesMatchMessages
<1>6. QED
  BY <1>3, <1>5 DEF IInv

\* wire-encode adds a message and no state file.
LEMMA EncodeNext ==
    ASSUME IInv, NEW o \in Offers, WireEncode(o)
    PROVE  IInv'
<1>1. PICK sid \in SessionIds, F \in Inputs, n \in Pads :
        msgs' = msgs \cup
            {[type |-> "Offer", run |-> o, sid |-> sid,
              elems |-> Pad(MaskIds(o, IdsOf[F]), n),
              inonce |-> None, expires |-> None, signer |-> NoSigner]}
  BY DEF WireEncode
<1> DEFINE padded == Pad(MaskIds(o, IdsOf[F]), n)
           m == [type |-> "Offer", run |-> o, sid |-> sid, elems |-> padded,
                 inonce |-> None, expires |-> None, signer |-> NoSigner]
<1>2. padded \in Seq(Element)
  BY MaskedInput, PadType, SecretTypes
<1>3. msgs' = msgs \cup {m}
  BY <1>1
<1> HIDE DEF padded
<1>4. m \in Message
  BY <1>2 DEF Message, Offer, Signer
<1> HIDE DEF m
<1>5. states' = states /\ output' = output /\ clock' = clock
  BY DEF WireEncode
<1>6. TypeOK'
  BY <1>3, <1>4, <1>5 DEF IInv, TypeOK
<1>7. StatesMatchMessages'
  BY <1>3, <1>5 DEF IInv, StatesMatchMessages
<1>8. QED
  BY <1>6, <1>7 DEF IInv

-----------------------------------------------------------------------------
(***************************************************************************)
(* online-complete and online-reveal.                                      *)
(***************************************************************************)
\* The offer of zero points that online-reveal makes up.
ZeroPoints(n) == [k \in 1 .. n |-> HashToPublicKey(ZeroFact)]

LEMMA ZeroPointsType ==
    ASSUME NEW n \in Nat
    PROVE  ZeroPoints(n) \in Seq(Element)
<1>1. HashToPublicKey(ZeroFact) \in Element
  BY HashType, CliAssumption
<1>2. QED
  BY <1>1 DEF ZeroPoints

\* An output of either command is of the form main.rs prints.
LEMMA ReturnsType ==
    ASSUME IInv, NEW s \in states, NEW m \in msgs, NEW peer \in Peer,
           NEW result \in PsiResult \cup {CountMismatch}, Returns(s, m, peer, result)
    PROVE  output' \in Output
<1>1. s \in StateFile /\ m \in Message
  BY DEF IInv, TypeOK
<1>2. output' = [state |-> s, msg |-> m, peer |-> peer, result |-> result]
  BY DEF Returns
<1>3. QED
  BY <1>1, <1>2 DEF Output

LEMMA CompleteNext ==
    ASSUME IInv, NEW s \in states, NEW m \in msgs, NEW peer \in Peer,
           OnlineComplete(s, m, peer)
    PROVE  IInv'
<1> DEFINE ids == IdsOf[s.facts]
           theirs == MaskAll(s.secret, m.elems)
           found == ComputeIntersection(m.doubly, theirs, ids, s.mode)
<1>1. s \in StateFile /\ m \in Reply
  BY MessageKinds DEF OnlineComplete, IInv, TypeOK
<1>2. /\ m.elems \in Seq(Element) /\ m.doubly \in Seq(Element)
      /\ s.facts \in SUBSET Facts /\ s.mode \in Modes /\ s.sid \in SessionIds
      /\ s.secret \in Secrets
  BY <1>1 DEF Reply, StateFile
<1>3. theirs \in Seq(Element)
  BY <1>2, MaskAllType
<1> HIDE DEF theirs
<1>4. found \in PsiResult
  BY <1>2, <1>3, IdsEnumerate, ResultType
<1> HIDE DEF found
<1>5. \E result \in PsiResult \cup {CountMismatch} : Returns(s, m, peer, result)
  BY <1>4 DEF OnlineComplete, found, theirs
<1>6. output' \in Output
  BY <1>5, ReturnsType
<1>7. \E new \in SUBSET Reveal : msgs' = msgs \cup new
  <2>1. CASE UNCHANGED msgs
    <3>1. {} \in SUBSET Reveal /\ msgs' = msgs \cup {}
      BY <2>1
    <3>2. QED
      BY ONLY <3>1
  <2>2. ASSUME NEW signer \in Signer,
               msgs' = msgs \cup {[type |-> "Reveal", sid |-> s.sid,
                                   doubly |-> theirs, signer |-> signer]}
        PROVE  \E new \in SUBSET Reveal : msgs' = msgs \cup new
    <3>1. [type |-> "Reveal", sid |-> s.sid, doubly |-> theirs, signer |-> signer] \in Reveal
      BY <1>2, <1>3 DEF Reveal
    <3>2. QED
      BY <2>2, <3>1
  <2>3. QED
    BY <2>1, <2>2 DEF OnlineComplete, theirs
<1>8. PICK new \in SUBSET Reveal : msgs' = msgs \cup new
  BY <1>7
<1>9. states' = states /\ clock' = clock
  BY DEF OnlineComplete
<1>10. TypeOK'
  BY <1>6, <1>8, <1>9 DEF IInv, TypeOK, Message
<1>11. StatesMatchMessages'
  BY <1>8, <1>9 DEF IInv, StatesMatchMessages
<1>12. QED
  BY <1>10, <1>11 DEF IInv

LEMMA RevealNext ==
    ASSUME IInv, NEW s \in states, NEW m \in msgs, NEW peer \in Peer,
           OnlineReveal(s, m, peer)
    PROVE  IInv'
<1> DEFINE ids == IdsOf[s.facts]
           theirs == MaskAll(s.secret, ZeroPoints(s.theirs))
           found == ComputeIntersection(m.doubly, theirs, ids, s.mode)
<1>1. s \in StateFile /\ m \in Reveal
  BY MessageKinds DEF OnlineReveal, IInv, TypeOK
<1>2. /\ m.doubly \in Seq(Element) /\ s.theirs \in Nat /\ s.secret \in Secrets
      /\ s.facts \in SUBSET Facts /\ s.mode \in Modes
  BY <1>1 DEF Reveal, StateFile
<1>3. theirs \in Seq(Element)
  BY <1>2, ZeroPointsType, MaskAllType
<1> HIDE DEF theirs
<1>4. found \in PsiResult
  BY <1>2, <1>3, IdsEnumerate, ResultType
<1> HIDE DEF found
<1>5. \E result \in PsiResult \cup {CountMismatch} : Returns(s, m, peer, result)
  BY <1>4 DEF OnlineReveal, ZeroPoints, found, theirs
<1>6. output' \in Output
  BY <1>5, ReturnsType
<1>7. msgs' = msgs /\ states' = states /\ clock' = clock
  BY DEF OnlineReveal
<1>8. TypeOK'
  BY <1>6, <1>7 DEF IInv, TypeOK
<1>9. StatesMatchMessages'
  BY <1>7 DEF IInv, StatesMatchMessages
<1>10. QED
  BY <1>8, <1>9 DEF IInv

-----------------------------------------------------------------------------
(***************************************************************************)
(* The invariant, and what follows from it.                                *)
(***************************************************************************)
LEMMA InitIInv ==
    ASSUME Init
    PROVE  IInv
<1>1. TypeOK
  BY CliAssumption DEF Init, TypeOK
<1>2. StatesMatchMessages
  BY DEF Init, StatesMatchMessages
<1>3. QED
  BY <1>1, <1>2 DEF IInv

LEMMA NextIInv ==
    ASSUME IInv, [Next]_vars
    PROVE  IInv'
<1>1. ASSUME NEW o \in Offers, OnlineOffer(o)
      PROVE  IInv'
  BY <1>1, OfferWrites, WrittenNext DEF IInv
<1>2. ASSUME NEW r \in Replies, OnlineReply(r)
      PROVE  IInv'
  BY <1>2, ReplyWrites, WrittenNext
<1>3. ASSUME NEW s \in states, NEW m \in msgs, NEW peer \in Peer,
             OnlineComplete(s, m, peer)
      PROVE  IInv'
  BY <1>3, CompleteNext
<1>4. ASSUME NEW s \in states, NEW m \in msgs, NEW peer \in Peer,
             OnlineReveal(s, m, peer)
      PROVE  IInv'
  BY <1>4, RevealNext
<1>5. ASSUME NEW o \in Offers, WireEncode(o)
      PROVE  IInv'
  BY <1>5, EncodeNext
<1>6. ASSUME Tick \/ UNCHANGED vars
      PROVE  IInv'
  <2>1. msgs' = msgs /\ states' = states /\ output' = output
    BY <1>6 DEF Tick, vars
  <2>2. clock' \in 0 .. MaxClock
    BY <1>6, CliAssumption DEF Tick, vars, IInv, TypeOK
  <2>3. TypeOK'
    BY <2>1, <2>2 DEF IInv, TypeOK
  <2>4. StatesMatchMessages'
    BY <2>1 DEF IInv, StatesMatchMessages
  <2>5. QED
    BY <2>3, <2>4 DEF IInv
<1>7. QED
  BY <1>1, <1>2, <1>3, <1>4, <1>5, <1>6 DEF Next

LEMMA InvariantHolds == Spec => []IInv
<1>1. Init => IInv
  BY InitIInv
<1>2. IInv /\ [Next]_vars => IInv'
  BY NextIInv
<1>3. QED
  BY <1>1, <1>2, PTL DEF Spec

\* Every message file, state file and output of the online commands has the
\* form main.rs gives it, in every order and choice of files.
THEOREM TypeCorrect == Spec => []TypeOK
<1>1. IInv => TypeOK
  BY DEF IInv
<1>2. QED
  BY <1>1, InvariantHolds, PTL

\* A state file is always of a message that is there to be sent, whenever the
\* process of online-offer or online-reply ends (the order of their two writes).
THEOREM StatesAlwaysMatch == Spec => []StatesMatchMessages
<1>1. IInv => StatesMatchMessages
  BY DEF IInv
<1>2. QED
  BY <1>1, InvariantHolds, PTL
=============================================================================
