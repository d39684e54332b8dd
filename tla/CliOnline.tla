------------------------------ MODULE CliOnline ------------------------------
(***************************************************************************)
(* The commands online-offer, online-reply, online-complete and            *)
(* online-reveal of main.rs, and wire-encode, which writes an offer too.   *)
(*                                                                         *)
(* Each command is a process of its own: what one of them knows of another *)
(* is in the files it is given, a message and a state file.  Every file is *)
(* kept, and a user may give any of them to any command, again or never.   *)
(* A session object lives within one command, so that a command is one     *)
(* step here, but for the two files that offer and reply write: the        *)
(* process may end between them.                                           *)
(***************************************************************************)
EXTENDS Masking

CONSTANTS
    Offers, Replies,  \* the runs of online-offer or wire-encode, and those of
                      \* online-reply: each its secret and its nonce
    Zero,             \* the secret of thirty-two zero bytes
    ZeroFact,         \* stands for the point of thirty-two zero bytes
    Users,            \* long-term identities
    SessionIds, Inputs, Ttls,  \* arguments: --session, --input, --ttl-secs
    Pads, DummyOf,    \* --pad-to, as elements to add; the dummy facts
    IdsOf,            \* FactSet::ids
    MaxClock,         \* bound of the clock
    None,             \* the nonce and the deadline of a v1 message
    NoPeer, NoSigner, NoOutput, CountMismatch

VARIABLES
    msgs,     \* the message files
    states,   \* the state files
    output,   \* what the last complete or reveal has returned
    clock     \* current_unix_time

vars == <<msgs, states, output, clock>>

Peer   == Users \cup {NoPeer}
Signer == Users \cup {NoSigner}

\* run is no field of a message: it remembers which run masked the elements.
Offer ==
    [type : {"Offer"}, run : Offers, sid : SessionIds, elems : Seq(Element),
     inonce : Offers \cup {None}, expires : Nat \cup {None}, signer : Signer]

Reply ==
    [type : {"Reply"}, run : Replies, sid : SessionIds, elems : Seq(Element),
     doubly : Seq(Element), inonce : Offers \cup {None},
     rnonce : Replies \cup {None}, expires : Nat \cup {None}, signer : Signer]

\* The session that sends a reveal is a v1 session: no nonce and no deadline.
Reveal ==
    [type : {"Reveal"}, sid : SessionIds, doubly : Seq(Element), signer : Signer]

Message == Offer \cup Reply \cup Reveal

\* InitiatorState and ResponderState; nonce is written and never read, and of
\* the initiator's elements only the number is read.
StateFile ==
    [of : {"Offer", "Reply"}, sid : SessionIds, facts : SUBSET Facts,
     mode : Modes, secret : Secrets, nonce : Offers \cup Replies, theirs : Nat]

Output ==
    [state : StateFile, msg : Message, peer : Peer,
     result : PsiResult \cup {CountMismatch}]

ASSUME CliAssumption ==
    /\ Offers \cup Replies \cup {Zero} \subseteq Secrets
    /\ Offers \cap Replies = {} /\ Zero \notin Offers \cup Replies
    /\ Inputs \subseteq SUBSET Facts
    /\ ZeroFact \in Facts /\ \A F \in Inputs : ZeroFact \notin F
    /\ Ttls \subseteq Nat /\ MaxClock \in Nat /\ Pads \subseteq Nat
    /\ \A n \in Pads : \A k \in 1 .. n : DummyOf[k] \in Facts \ {ZeroFact}
    /\ None \notin Offers \cup Replies
    /\ NoPeer \notin Users /\ NoSigner \notin Users

\* FactSet::ids lists each fact of a set once.
ASSUME IdsAssumption ==
    \A F \in SUBSET Facts :
        /\ IdsOf[F] \in Seq(F)
        /\ \A f \in F : \E k \in 1 .. Len(IdsOf[F]) : IdsOf[F][k] = f
        /\ \A k, l \in 1 .. Len(IdsOf[F]) : IdsOf[F][k] = IdsOf[F][l] => k = l

-----------------------------------------------------------------------------
\* Mutant: the dummies are hashed from where they stand, not from dummy facts.
PadByPosition(es, n) == es \o [k \in 1 .. n |-> HashToPublicKey(Len(es) + k + 9)]

\* pad_masked_elements: the dummies come last, the same from the same secret.
Pad(es, n) == es \o [k \in 1 .. n |-> HashToPublicKey(DummyOf[k])]

\* --expect-peer: decode_signed_from_peer; without it, signed or not.
Accepted(m, peer) == peer # NoPeer => m.signer = peer

\* has_freshness
Fresh(m) == m.inonce # None

\* SessionDeadline::validate, of an offer that has a deadline; the clock only
\* goes forward here.
Valid(m) == Fresh(m) => clock < m.expires

\* The secret of the session is not what is saved.
SavedSecret(o) == Zero

\* Mutant: the state first, then the message.
WriteStateFirst(m, state) ==
    /\ states' = states \cup {state}
    /\ msgs' \in {msgs, msgs \cup {m}}

\* Message first, then state; the process may end in between.
Write(m, state) ==
    /\ msgs' = msgs \cup {m}
    /\ states' \in {states, states \cup {state}}

Unused(run) == \A m \in msgs : m.type \in {"Offer", "Reply"} => m.run # run

OnlineOffer(o) ==
    /\ Unused(o)
    /\ \E sid \in SessionIds, F \in Inputs, mode \in Modes, ttl \in Ttls,
          n \in Pads, signer \in Signer :
         LET elems == MaskIds(o, IdsOf[F])
         IN  Write([type |-> "Offer", run |-> o, sid |-> sid, elems |-> Pad(elems, n),
                    inonce |-> o, expires |-> clock + ttl, signer |-> signer],
                   [of |-> "Offer", sid |-> sid, facts |-> F, mode |-> mode,
                    secret |-> SavedSecret(o), nonce |-> o, theirs |-> 0])
    /\ UNCHANGED <<output, clock>>

\* A v1 offer, unsigned; no state file, so that the secret is lost.
WireEncode(o) ==
    /\ Unused(o)
    /\ \E sid \in SessionIds, F \in Inputs, n \in Pads :
         msgs' = msgs \cup
             {[type |-> "Offer", run |-> o, sid |-> sid,
               elems |-> Pad(MaskIds(o, IdsOf[F]), n),
               inonce |-> None, expires |-> None, signer |-> NoSigner]}
    /\ UNCHANGED <<states, output, clock>>

\* The session of this command is v2: it answers a v2 offer in v2, if its
\* deadline has not passed, and a v1 offer in v1.  The state file holds the
\* session's nonce in either case.
OnlineReply(r) ==
    /\ Unused(r)
    /\ \E m \in msgs, F \in Inputs, mode \in Modes, ttl \in Ttls, n \in Pads,
          signer \in Signer, peer \in Peer :
         /\ m.type = "Offer"
         /\ Accepted(m, peer)
         /\ Valid(m)
         /\ LET elems  == MaskIds(r, IdsOf[F])
                doubly == MaskAll(r, m.elems)
            IN  Write([type |-> "Reply", run |-> r, sid |-> m.sid,
                       elems |-> Pad(elems, n), doubly |-> doubly, inonce |-> m.inonce,
                       rnonce |-> IF Fresh(m) THEN r ELSE None,
                       expires |-> IF Fresh(m) THEN clock + ttl ELSE None,
                       signer |-> signer],
                      [of |-> "Reply", sid |-> m.sid, facts |-> F, mode |-> mode,
                       secret |-> SavedSecret(r), nonce |-> r,
                       theirs |-> Len(doubly)])
    /\ UNCHANGED <<output, clock>>

Returns(s, m, peer, result) ==
    output' = [state |-> s, msg |-> m, peer |-> peer, result |-> result]

\* A v1 session (with_secret) is made of the state: it looks at no nonce and no
\* deadline.  With --with-reveal the reveal is written as well.
OnlineComplete(s, m, peer) ==
    /\ s.of = "Offer" /\ m.type = "Reply"
    /\ Accepted(m, peer)
    /\ m.sid = s.sid
    /\ IF Len(m.doubly) # Len(IdsOf[s.facts])
       THEN Returns(s, m, peer, CountMismatch) /\ UNCHANGED msgs
       ELSE LET theirs == MaskAll(s.secret, m.elems)
            IN  /\ Returns(s, m, peer, ComputeIntersection(m.doubly, theirs,
                                           IdsOf[s.facts], s.mode))
                /\ \/ UNCHANGED msgs
                   \/ \E signer \in Signer :
                        msgs' = msgs \cup
                            {[type |-> "Reveal", sid |-> s.sid,
                              doubly |-> theirs, signer |-> signer]}
    /\ UNCHANGED <<states, clock>>

\* The session is brought to ReplySent with an offer of zero points, of which
\* the state file gives the number.
OnlineReveal(s, m, peer) ==
    /\ s.of = "Reply" /\ m.type = "Reveal"
    /\ Accepted(m, peer)
    /\ m.sid = s.sid
    /\ LET zeros == [k \in 1 .. s.theirs |-> HashToPublicKey(ZeroFact)]
       IN  Returns(s, m, peer,
               IF Len(m.doubly) # Len(IdsOf[s.facts])
               THEN CountMismatch
               ELSE ComputeIntersection(m.doubly, MaskAll(s.secret, zeros),
                        IdsOf[s.facts], s.mode))
    /\ UNCHANGED <<msgs, states, clock>>

Tick ==
    /\ clock < MaxClock
    /\ clock' = clock + 1
    /\ UNCHANGED <<msgs, states, output>>

Init == msgs = {} /\ states = {} /\ output = NoOutput /\ clock = 0

Next ==
    \/ \E o \in Offers : OnlineOffer(o) \/ WireEncode(o)
    \/ \E r \in Replies : OnlineReply(r)
    \/ \E s \in states, m \in msgs, peer \in Peer :
         OnlineComplete(s, m, peer) \/ OnlineReveal(s, m, peer)
    \/ Tick

Spec == Init /\ [][Next]_vars

-----------------------------------------------------------------------------
(***************************************************************************)
(* Properties.                                                             *)
(***************************************************************************)
\* Every file and every output has the form main.rs writes it in.
TypeOK ==
    /\ msgs \subseteq Message
    /\ states \subseteq StateFile
    /\ output \in Output \cup {NoOutput}
    /\ clock \in 0 .. MaxClock

StateOf(s, m) ==
    /\ m.type = s.of /\ m.sid = s.sid /\ m.run = s.nonce
    /\ IF s.of = "Offer" THEN m.inonce = s.nonce
       ELSE m.rnonce \in {s.nonce, None} /\ Len(m.doubly) = s.theirs
    /\ Len(m.elems) >= Cardinality(s.facts)
    /\ SubSeq(m.elems, 1, Cardinality(s.facts)) = MaskIds(s.nonce, IdsOf[s.facts])

\* A state file is of a message that was written, and agrees with it: its facts
\* are those behind the leading elements, and it counts the peer's elements as
\* they were sent.  A process that ends in between leaves no state file that
\* claims an offer or a reply nobody has (cmd_online_offer, cmd_online_reply).
StatesMatchMessages == \A s \in states : \E m \in msgs : StateOf(s, m)

\* The last command was a complete with the reply to the very offer its state
\* file was written for.
CompletedOwn ==
    /\ output # NoOutput
    /\ output.state.of = "Offer"
    /\ output.msg.inonce = output.state.nonce

\* online-complete, given the reply to its own offer, computes the intersection
\* with what the reply was made of (src/README.md:108, "Process reply, compute
\* intersection").
CompletesExactly ==
    CompletedOwn /\ output.result # CountMismatch =>
        \E F \in Inputs :
            /\ Len(output.msg.elems) >= Cardinality(F)
            /\ SubSeq(output.msg.elems, 1, Cardinality(F)) =
                 MaskIds(output.msg.run, IdsOf[F])
            /\ output.result = TrueIntersection(output.state.facts, F, output.state.mode)
=============================================================================
