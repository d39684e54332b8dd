# BlindOverlap in TLA+

A verification project for BlindOverlap, a Rust library and command line for
private set intersection (PSI): two parties find out which facts they share, by
masking hashed facts with secret x25519 scalars, and neither learns the rest.

All paths are relative to the repository; `crates/blindoverlap/src/` is written
`lib/`, `crates/blindoverlap-cli/src/main.rs` is written `main.rs`.

## 1. The system

| Component | State | Operations | Talks to |
|---|---|---|---|
| PSI sessions (`lib/session.rs`) | one initiator or responder object per run: secret, nonce, state, what it received, verified peer | create, offer, reply, reveal, each plain or signed | wire messages, carried by the application |
| Wire messages (`lib/wire.rs`) | none | offer, reply, reveal in v1 and v2, signed envelope, abort | sessions, command line |
| Freshness (`lib/freshness.rs`) | none | nonce, deadline on the system clock, transcript digest | sessions, replay store |
| Replay store (`lib/replay.rs`) | maps of nonces and digests with expiry; a JSON file | check, record, cleanup, clear, open, flush, reload | called by applications only: no session uses it |
| Local protocol (`lib/protocol.rs`) | two parties in one process | mask, mask again, match | command `intersect` |
| Fact sets (`lib/fact_id.rs`) | ordered set of ids and its root | canonical JSON, hash, build | everything |
| Identities (`lib/identity.rs`) | Ed25519 key | sign, verify | envelopes, evidence objects |
| Peer book (`lib/peerbook.rs`) | trusted keys in memory and in a file | add, remove, load, save, reload | command line, `require_peer_trusted` |
| Invites, leases (`lib/invite.rs`, `lib/lease.rs`) | signed tickets with time windows | issue, renew, verify | `from_invite`, `from_lease` |
| Policies (`lib/policy.rs`) | a profile in a JSON file | read, check | command line |
| Evidence (`lib/receipt.rs`, `lib/attest.rs`, `lib/seal.rs`, `lib/abort.rs`) | signed documents in JSON files | build, sign, co-sign, seal, verify | command line |
| Padding (`lib/padding.rs`) | none | append dummies to a list | `online-offer`, `online-reply` |
| Command line (`main.rs`) | state and message files | `online-offer`, `-reply`, `-complete`, `-reveal` and some forty others | files only |

The sessions carry the program's own logic. A run is

    initiator   Created --offer--> AwaitingReply --reply--> Complete
    responder   Created --offer/reply--> ReplySent --reveal--> Complete

and what makes it hard is what surrounds it: an application may retry under the
same session id, so that messages of several runs are about; it delivers them
in any order, twice, to the wrong object or never; v1 sessions compare no nonces
and a v2 session accepts v1 messages; deadlines are stamped by one machine's
clock and judged by another's; some calls that fail have already changed the
session; and a session with a channel binding still has the plain calls. The
hard part of the replay store is its file: rewritten in place with the result
ignored, read back after a restart with another TTL, perhaps shared.

What would make each component correct:

- sessions: a completed session holds the exact intersection with one other
  session, that one agrees, and it is the peer the session is bound to;
  a result is final; a reply is not accepted too late; an undisturbed pair
  finishes.
- replay store: nothing is accepted twice within its TTL, across restarts;
  memory is right even when the file is not; the store does not hoard.
- peer book: the file and memory agree, no command undoes another.
- invites, leases: a session from a grant is with the issuer, under the identity
  that was granted it, also at the end of a chain of renewals, and does not
  outlive the grant by more than the sessions' own TTLs.
- evidence: a document that is accepted says what its signers put their keys to,
  whatever became of the file.
- policies: offering more never fails a check, and a refusal names its reason.
- command line: the online commands compute what one session pair would; a result
  file, however much of it was written, tells the truth about the two inputs, and
  so does a receipt that is signed for it.

Everything in the code that is hard to test is listed with its line under
`hazards` in `PROJECT.json`, with the properties that cover it.

## 2. The modules

    Masking            points, masking, matching                       protocol.rs, session.rs
     |- MaskingTheorems
     `- PsiSession     session objects, messages, clocks               session.rs, wire.rs, freshness.rs
         `- PsiSessionInv          the inductive invariant
             `- PsiSessionIdeal        refinement mapping to PsiIdeal
                 |- PsiSessionTheorems     the proofs of both, and the safety theorems
                 `- MCPsiSession           instances for TLC
    PsiIdeal           the abstract specification: what a PSI promises
    Authority          tickets, leases, sessions from them            invite.rs, lease.rs, session.rs (extends PsiSession)
     |- AuthorityTheorems          (extends PsiSessionTheorems)
     `- MCAuthority                instances for TLC
    ReplayIdeal        the abstract specification: a memory that never stops
    ReplayStore        the store, its file, its processes              replay.rs
     |- ReplayStoreTheorems
     `- MCReplayStore              instances for TLC
    PeerBook           the book, its file, its processes               peerbook.rs
     |- PeerBookTheorems
     `- MCPeerBook                 instances for TLC
    CliOnline          online commands, wire-encode, and files       main.rs, padding.rs (extends Masking)
     |- CliOnlineTheorems
     `- MCCliOnline                instances for TLC
    Policy             profiles and their check                       policy.rs
     `- CliLocal       encode, intersect, receipt-sign, policies      main.rs, protocol.rs, fact_id.rs (extends Masking)
         |- CliLocalTheorems
         `- MCCliLocal                 instances for TLC
    Evidence           attestations, aborts, receipts, records        attest.rs, abort.rs, receipt.rs, seal.rs, main.rs
     |- EvidenceTheorems
     `- MCEvidence                 instances for TLC

**Masking.** A point is a fact with the number of times each secret was applied
to it: this is exactly what the protocol uses of x25519 (hashing is injective,
masking commutes and is injective; the curve is external). The clamping of x25519
in fact maps up to 32 raw ids to one point; that two SHA-256 ids are among such 32
is taken never to happen, as a collision of SHA-256 is. Lists keep their
order, since `compute_intersection` turns a match back into a fact by its
*position* in the caller's ids.

**PsiSession.** `initiator` and `responder` map each session object to `Absent`
or to its fields; `msgs` is the set of all messages ever sent, from which any
object may process any message at any time, which covers loss, delay,
reordering, repetition and delivery to the wrong session; `clock` has one wall
clock per machine, and `SetClock` may step it either way. Secrets and nonces are
drawn at random in the code, so both are named by the object that drew them. The
actions are the calls:

| Action | Code |
|---|---|
| `CreateInitiator`, `CreateResponder` | `with_config`, `with_channel_binding`, `new` |
| `GenerateOffer`, `GenerateOfferSigned` | `generate_offer`, `generate_offer_signed` |
| `ProcessOfferAndReply`, `...Signed`, `RejectOfferSigned` | `process_offer_and_reply`, `..._signed` |
| `ProcessReply`, `...Signed`, `RejectReplySigned` | `process_reply`, `..._signed` |
| `GenerateReveal`, `GenerateRevealSigned` | `generate_reveal`, `generate_reveal_signed` |
| `ProcessReveal`, `ProcessRevealSigned` | `process_reveal`, `process_reveal_signed` |

A call that returns an error and has changed nothing is no step. Those that
fail after a change are: `TakeReply` keeps the responder nonce of a reply whose
element count is wrong, and the `Reject...` actions keep the verified peer of a
message that is then refused. A signed call signs with any identity of
`Identities`: it is an argument, and nothing compares it with the session's channel
binding; a session without a binding has the signed calls too, and the plain ones.
`SignedCallsOnly` says one thing about the applications: TRUE, a *bound* session is
used through its signed calls; FALSE, through any.

**PsiIdeal.** No messages: each party enters an input, a responder answers one
initiator, that initiator learns the exact intersection with one responder that
answered it, and then that responder may learn it too. `PsiSessionIdeal` maps
the session objects to it: the partner of a session is the owner of the nonce
it holds.

**Authority.** `PsiSession` with tickets and leases in front of it. `grants` is the
sequence of all grants ever issued; a grant is a file that anybody may hold and use
again and again, and its place in the sequence stands for the ticket or lease id, the
hash of its signature. `grantOf` remembers the grant of a session. Issuing takes
the time of the issuer's machine, using a grant that of the holder's. Every step of
`PsiSession` is a step here, creation without a grant too, as the issuer creates its
own end with `with_channel_binding`.

| Action | Code |
|---|---|
| `IssueInvite`, `IssueLease` | `InviteTicket::issue`, `SessionLease::issue`, `invite-create`, `lease-issue` |
| `RenewLease` | `SessionLease::renew`, `lease-renew`; for the issuer only, also of expired leases |
| `InitiatorFromInvite`, `ResponderFromInvite` | `from_invite`; the initiator's does not look at the ticket's peer |
| `InitiatorFromLease`, `ResponderFromLease` | `from_lease` |

Parties are honest and pass grants on unchanged, so that signatures always verify.

**ReplayStore.** Each process has at most one open store (`store`), all share
one `file`, which is missing, empty, torn or a map. Nonces and digests are
treated alike in the code and share one limit, so a key is either. `until` and
`held` are history: until when the last acceptance of a key was promised to
count, in all and by the store that is open. The clock only goes forward here.
The calls to `current_unix_time` of one operation are taken as one.

**ReplayIdeal.** What a replay store is for, without file, limit or restart: a time
until which each key is refused, 0 if it is not. A key is accepted only at 0, and
forgotten when its time has come or when the application clears everything.
`rememberedBar` of `ReplayStore` maps the store to it through the *file* alone (the
live entries of the file), not through the histories: opening, dropping,
reloading, cleaning up and flushing are steps that leave it as it is.

**PeerBook.** Each process has at most one open book on the one `file`. `add` and
`remove` change memory, then save, and pass on the error of the save without
taking the change back; `load` parses before it clears, unlike the replay store.
`answered` is the change of a peer that was last answered Ok, unknown after an
error; `own` is what an open book changed since it was loaded; `overlapped` and
`failed` remember whether two books were ever open at a time and whether a
write ever failed, which is what the promises about the file depend on. The
`peerbook-...` commands are open, one call, close.

**CliOnline.** Each `online-...` command is a process that reads some files
and writes some; a session object lives inside one command, so that a command is
one step, except that `online-offer` and `online-reply` write the message first
and the state second, and may end between the two. `online-offer` writes v2 offers,
`wire-encode` (`WireEncode`) v1 offers, unsigned and with no state file;
`online-reply` takes either and answers a v1 offer in v1, though its state file holds
a nonce all the same. The field `run` of a message remembers which run masked its
elements and is in no file. All files are kept and any
may be given to any command. The secret that is saved is `Zero`, as in the code,
and `online-complete` and `online-reveal` build their v1 sessions from it.
Padding appends dummies, equal ones from equal padding secrets.

**CliLocal** and **Policy.** The commands that need no session, on the files of one
machine: an id file per argument of `intersect`, the result, the last receipt and a
policy file. An input is a sequence of JSON texts; several texts may spell one fact,
and some are no JSON. A root is the set it commits to.

| Action | Code |
|---|---|
| `Encode` | `encode`: a line per text, until the first that is no JSON ends the command; what was printed stays in the redirected file |
| `Intersect` | `intersect`: both files are read, the size limit checked, the result computed by both maskings and written line by line; the process may end after any line |
| `ReceiptSign` | `receipt-sign` for roots a user was shown: over the ids of a result, over a count, or, when `--result` names no file, over the empty intersection |
| `WritePolicy` | a profile is written by hand or with `policy-show` |
| `PolicyCheck` (an operator) | `policy-check`, which only reads |

A policy file is a function on the keys it holds; keys that are missing or misspelt
have their defaults when it is read, and a file with no name is not read.

**Evidence.** A document is a record with the fields of its Rust type, `docs` the
set of all files. Anybody may copy a file and replace a field of the copy by that of
another file, a signature included (`Edit`), or a field of an entry of a record by
that of another entry (`EditEntry`); a document that has been accepted is
therefore not assumed to be one that was written. `made` remembers documents as their
makers wrote them, with whose key and from which messages. A signature is the name
of the signer with the fields it covers and what they held, so that it is checked by
comparing those; which fields are covered is read off the code (`AttestationBody`,
`AbortBody`, `ReceiptBody`, `WireReceiptBody`, `RecordBody`), and what a document
claims off its documentation (`AttestationClaim`, ...).

What is signed is bytes, and a set of fields stands for them only where the bytes
tell the fields apart. They do not in `compute_payload` of an abort: the text has no
length and no end and is followed by 8 bytes of time, a mark and, if the mark is 1,
32 bytes of a digest. A text that ends in 8 bytes, a byte 1 and 23 more, signed with
no digest, has the payload of the text without these 32 bytes, signed at another time
with a digest. The constant `Reread` maps an ending of the first kind to the one of
the second kind with the same bytes; `PayloadEnd` is what a signature covers. Nor does
the digest of a record cover its entries: of each it has number, direction and hash
(`Digested`), not type, time, size and content, which `Entry` keeps in `type` and
`shown`. What no property names is left out where no
digest or signature covers it either; versions, which are hashed, are left out since
the commands write one. Session ids are taken from a set in which none is the
beginning of another: a record hashes its id with no end, an attestation up to the
next tag, an abort and a wire-bound receipt up to a NUL.

| Action | Code |
|---|---|
| `AttestSign` | `attest-sign`: `sign_intersection`, `sign_cardinality`, with a saturating expiry |
| `CoSign` | `co_sign`, a library call with no command, which verifies nothing and replaces an earlier co-signature |
| `SessionAbort` | `session-abort`: `AbortReceipt::new` |
| `ReceiptSign`, `WireBoundSign` | `receipt-sign`, `wire-bound-sign`: for v1 messages a random nonce each |
| `SessionExport`, `Seal` | `session-export` with or without an identity; `SealedSessionRecord::seal`, a library call with no command, of any record |
| `Edit`, `EditEntry` | whoever holds a file |
| `AttestVerify`, `AbortVerify`, `ReceiptVerify`, `WireBoundVerify`, `SessionVerify` (operators) | the verifying commands with their options; they only read |

## 3. What is checked

`tlc -config X.cfg M` for the runs of `PROJECT.json`. Every property of a
passing run comes with a mutant: a plausible bug in a definition of the model
under which TLC finds the property violated in the same run. Mutants stand next
to what they change and are used by nothing else.

| Run | Question | Bounds |
|---|---|---|
| `psi_mixed` | What may a completed session believe when v1 and v2 runs are retried under one id, with signed and plain calls mixed? With whom does a bound session complete when sessions of every kind sign as anybody? | one clock that stands still, and either 2 + 2 unbound sessions, 5 setups, one signer, or (`OneResponderIfBound`) 2 initiators and 1 responder, bound and unbound, 7 setups, 2 identities |
| `psi_fresh` | Do sessions that all use freshness implement `PsiIdeal`? | 2 + 2 sessions, 4 setups, unsigned, two machines, 2 times |
| `authority` | With whom and how late does a session from a grant complete? | 1 + 1 sessions, 2 grants in all, 3 identities, tickets and leases among them, sessions of every binding and version on clocks that stand still, or (`StillOrTimed`) one issuer and one holder on two machines with 3 times; durations 0 and 1, TTLs 1 |
| `psi_pair` | Does a compatible pair finish? | 1 + 1 sessions, every combination of 3 + 3 setups, 2 identities, fairness |
| `replay_one` | Does a store that restarts answer as one that never stops, and does one over its limit drop what has expired? | 1 process, 3 keys, limit 1, TTLs 0, 1 and 3, 6 times |
| `replay_faulty` | What does an open store still know when writes fail? | 2 processes, 2 keys, limit 1, TTL 2, 4 times |
| `peer_book` | What is left of the changes a book has answered? | 2 processes, 2 peers, failing writes and crashes |
| `cli_files` | What may a state file claim when processes end between two writes, and offers of v1 and v2 are answered? | 2 runs of `online-offer` or `wire-encode`, 1 reply, sets of 1 and 2, padding by 0 or 1, 2 times |
| `cli_complete` | violation: `README.md:108` | 1 offer, 1 reply, no padding |
| `evidence` | Does a document that is accepted say what its signers signed, with any field of any file or entry changed? | 2 parties, 2 session ids, 2 or 3 arguments of each writing command, one pair of endings with the same bytes, 3 documents made, 4 files, of which all or none are records where there are 4 (`KindsApart`), 2 times, latest time 2 |
| `evidence_export` | violation: `seal.rs:143` | the same, only records |
| `cli_local` | What do results, receipts and policy verdicts mean when commands break off and files change? | 3 facts, 4 inputs with a double spelling, a bad line and one set over the limit of 2; 3 + 2 profiles, 4 sets of parameters |

Why the bounds are enough to meet the cases. Two objects on either side are
what it takes for a message of one run to reach another, for two responders to
answer one offer and for a reveal to reach a responder that answered somebody
else. The sets have sizes 1 and 2 so that element counts both agree and
disagree between runs, and overlap in part, so that a result tells which pair
it belongs to. A TTL of 1 or 2 in 2 to 4 ticks has deadlines that are valid,
just expired and long expired. Two grants are a lease with its renewal, or a ticket
for each end; a duration of 0 leaves one second that is both ends of a window, so
that 3 times lie before, in and after it. In the replay store a limit of 1 with two
and three keys is passed by live and by expired entries; several TTLs make a restart
with another TTL matter, and a TTL of 0 makes an entry that is never live. Two processes and two peers are what it takes for one book
to overwrite another and for a failed write of one peer to harm another. Sessions
and keys are symmetric and nothing distinguishes them, so symmetry is used in the
runs without liveness and action bounds that name them; so are the two parties of
`evidence`. Three made documents are an attestation, its co-signature and a document
to take fields from, or a record, its second seal and another; the fourth file is a
changed copy of them. `KindsApart`, `StillOrTimed` and `OneResponderIfBound` are
CONSTRAINTs: each joins two instances in one run, whose product would be too large and
whose mixtures TLC leaves aside. In `cli_local` one input is a subset of another, two
overlap and one breaks off before its last line, so that sets differ in every way the
properties tell apart.

Deadlock is not checked: sessions are finite in number and a run is over when
all are complete or stuck, which is the program's normal end, and the store's
processes may stop at any time.

**The properties.** `InitiatorExact`: an initiator that completed with a
responder's nonce holds the exact intersection with the owner of that nonce,
which answered it and nobody else. `SoleSessionsExact`: a pair alone under its
id is exact without any nonce, that is in v1 and mixed versions.
`ResponderAgrees`: a responder that answered a fresh offer completes only when
that initiator completed with it, with the same intersection; it needs that no
v1 initiator uses the id, since a v1 reveal names no run. `BoundPeers`: a bound
session used by its signed calls completes only with sessions that *signed* as the
identity it is bound to, and if the partner is bound too, the partner got the signature
it expects. It does not say that the partner is bound: an unbound session may sign as
anybody it has the key of, and then expects nobody. With a v1 partner, to which a bound
session falls back without notice (`session.rs:588` compares nonces only if the message
has them), the offer that was answered may be another initiator's (`MetResponder`).
`RoundTripBounded`: how late on the initiator's own clock.
`GrantedSessionsMeet`, `GrantNotOutlived`: the partner of a granted session signed as
the issuer of the grant, and if the partner has a grant of its own, it got the signature
of that grant's issuer; and an initiator completes no more than the two sessions' TTLs
after its grant has expired.
`LeasesRooted`: a session from a lease is the one the *first* lease of its chain
was issued for, and `renew_count` counts the chain.
`ResultsFinal`: no later message changes a completed session (except the
verified peer, which a rejected signed message does set). `Completion`: a
compatible pair that is not disturbed finishes on both sides, if bound sessions are
given their own identity to sign with (`SignedAsBound`). `NoReplay`: nothing
is accepted twice within its TTL. `AnswersExactly`: nor is anything refused for
longer. `SurvivesRestart`: the store with its file implements `ReplayIdeal`.
`MemoryRemembers`: an open store remembers what it accepted even when its file
does not. `OnlyLiveOverLimit`: whatever a store over its limit holds is live, or
just recorded.
`OwnChangesHold`: an open book follows its own calls whatever happens to the file.
`RemovedStayRemoved`: with books open one at a time an answered removal lasts,
even when later writes fail, since no write that fails leaves more than the old
file. `AddedStayAdded` holds for additions only while no write fails.
`StatesMatchMessages`: a state file is never of a message that was not written.
`AttestationsStand`, `AbortsStand`, `ReceiptsStand`, `RecordsStand`: what is accepted
was signed, by the signer it names, with the claim it holds; a dual-signed
attestation by both, and a wire-bound receipt about messages with the elements it is
compared with. `AbortsStand` promises text, time and transcript as signed unless the
receipt is the other reading of what was signed (`ReadOtherwise`), that is, unless a
text was read as one with a digest or the reverse. `RecordsStand` promises of the
messages their number, order, directions and hashes, and nothing else of an entry.
`ResultExact`: however `encode` and `intersect` end, a
result names only facts both inputs spell, and is exact when nothing was broken off.
`ReceiptVouches`: a receipt over the roots of the result's own sets commits to the
truth about them. `PolicyReasoned`: offering more never turns a pass into a refusal,
and a refusal names a key of the file without which the check would go on.

**Fairness** (`FairSpec`, used by `psi_pair`): weak fairness of an application's
next call on a session it has created, and of the delivery of some processable
message to each session. The library has no scheduler of its own: both are what
an application must do for a run to finish, and `examples/http_psi_demo.rs`
and the tests do. A clock is not fair and may step at any time. In `psi_pair`
it stays below the TTL, since a deadline that expires in transit ends the run for
good: that is the code's intent, not a failure.

**Findings.** In the runs marked violation TLC shows where code and documents
disagree:

1. `cli_complete`: `online-complete` reports an empty intersection whatever the
   sets are, since `online-offer` saved thirty-two zero bytes as the secret
   (`main.rs:1535`); `README.md:108` says it computes the intersection. With
   `SavedSecret` changed to the offer's own secret the run passes.
2. `evidence_export`: `session-export` takes a responder's own nonce for the
   initiator's and the initiator's for the responder's (`main.rs:2288`), since it reads
   the state file of either party as the initiator's; `seal.rs:143` says of the
   field "Initiator nonce (if v2 protocol)".

Smaller disagreements met on the way, which the models contain and no run is spent
on.

- Sessions: `generate_reveal` sends a reveal in cardinality mode too
  (`wire.rs:300`, "Sent only in intersection mode"); a bound session completes with an
  unsigned message given to the plain `process_reply` (`session.rs:316`, "Incoming
  messages must be signed by the expected peer"; the properties say
  `SignedCallsOnly` where it matters); and any session signs with any identity it is
  passed (`session.rs:488`, `676`, `913`), which is never compared with its binding.
- Grants: `InitiatorSession::from_invite` does not compare the local identity with the
  ticket's peer, as `ResponderSession::from_invite` does (`invite.rs:136`, "only
  this peer can use the ticket"); a responder created from a grant has no deadline and
  may answer long after the grant has expired; `renew` accepts any lease of the issuer,
  expired ones too, and `RenewalChainBroken` is never raised.
- Replay store: recording cleans expired entries only above the limit
  (`replay.rs:236`, "TTL cleanup happens on load and record operations"); the expiry of
  an entry is an unchecked sum of 64 bits (`ExpiresAt` wraps at `TimeLimit`, and the
  theorems assume `NoOverflow`).
- Online commands: `online-complete` fails on every padded run (`README.md:124`), since
  the reply has a doubly masked element for each dummy and the session counts facts;
  its session is v1, so that it takes a reply to another offer or an expired one
  (`THREAT_MODEL.md:302-303`).
- Evidence: `attest-verify --verify-co-signature` accepts an attestation that has no
  co-signature; `wire-bound-sign` does not compare its `--session` with the session of
  the messages; one expected root without the other is ignored; a record's digest
  leaves out its nonces, and the type, time, size and content of its entries
  (`seal.rs:556`), so that a sealed record in which they were changed is accepted and
  `session-verify` prints the changed ones (`THREAT_MODEL.md:259`, "Tamper detection |
  Yes | Body digest + seal"); the text of an abort is hashed with no length and no end
  (`abort.rs:318`), so that one signature fits two receipts of different text, time and
  transcript (`abort.rs:10`, "tamper-evident record of WHO aborted and WHY").
- Local commands: `receipt-sign` signs the empty intersection when its `--result` is
  not a file (`main.rs:1219`); `policy-check --intersection-mode` is on by default and
  cannot be turned off (`main.rs:655`), so that a profile with
  `allow_cardinality_only` always refuses.

## 4. What is proved

`tlapm` checks every theorem, for any constants that satisfy the assumptions
named in the modules: any number of sessions, setups, facts, identities and
clocks. The assumptions say that constants have their types; that
objects draw distinct secrets and nonces; that `FactSet::ids` lists each fact
once; and that the null values are none of the values they stand beside.

- `MaskingTheorems`: masking commutes and is injective in the model of points,
  and `ComputeIntersectionExact`: if a caller's list is its ids masked by two
  secrets and the other list is the peer's ids masked by the same two,
  the result is the true intersection.
- `PsiSessionTheorems`: `TypeCorrect`, and `Traced`, the inductive invariant
  `IInv`. The safety properties speak of *completed* sessions only and are not
  inductive: nothing in them says where a message in flight comes from.
  `IInv` adds that: every offer, reply and reveal was made by a session of that
  id, from its own list or the list it was sent; every session's state was
  computed from the messages of such sessions; and for v2 the nonces it holds
  name them. The proof is in two layers. `StepGrows` shows that a step only adds
  messages and only moves sessions forward (setup and nonces fixed once set), so
  that what was traced stays traced (`...Lasts`); then each action is shown
  to trace the one message or state it adds.
  From `IInv` and `ComputeIntersectionExact` follow `InitiatorIsExact`,
  `SoleSessionsAreExact`, `ResponderAlwaysAgrees` and `BoundSessionsMeet`;
  `RoundTripIsBounded` and `ResultsAreFinal` are action properties from `IInv` and
  the step. `FreshSessionsImplementIdeal`: if every setup uses
  freshness, `PsiSession` implements `PsiIdeal`. Creation is `Enter`, the
  reply `Answer`, the completion of the initiator `Learn`, that of the
  responder `LearnBack`, everything else a stutter.
- `AuthorityTheorems`: `GrantedSessionsAreSessions`: `AuthoritySpec` implies `Spec` of
  `PsiSession`, so that every theorem above holds of granted sessions. `GrantsHold`,
  the inductive invariant `GrantInv`: a granted session exists, is bound to its
  grant's issuer under its id, acts under the identity that was granted, and has a
  deadline at most its TTL after the grant's end. With it `BoundPeers` gives
  `GrantedSessionsAlwaysMeet`, and `RoundTripStep` gives `GrantsAreNotOutlived`.
  `LeasesAlwaysRooted` speaks of `Root` and `Depth`, which follow a chain of renewals
  to its end. An induction along the chain is out of the prover's reach, and is
  replaced by one along the behaviour: `ChainsHold`, the invariant `ChainInv`, says
  that the two functions *exist* for the leases issued so far (`IsRoot`, `IsDepth`;
  TLA+ chooses one), and that any such function leads to a lease of the same terms,
  or counts `renew_count`. A new lease has a parent that was there before, so that
  the functions are extended by one place (`ChainsExtended`), and restricted to the
  old leases are functions of the old ones (`ChainContinued`).
- `ReplayStoreTheorems`: `StoreTypeCorrect`; `StoreRemembers`, from the
  invariant that a live acceptance of an open store is in its map and a closed
  store holds none; `SoleStoreRefusesReplays`, for one process whose writes
  succeed, from the invariant that every live acceptance is in the file *and* in
  the open store. With its converse, `OnlyAccepted`, that a live entry of either is
  of the last acceptance, the file determines what was accepted:
  `SoleStoreAnswersExactly`, and `SoleStoreImplementsIdeal`, where recording is
  `Accept`, `clear` is `ForgetAll` and every other operation a stutter. These need
  that no TTL overflows the clock (`NoOverflow`). `LimitCarriesOnlyLive` needs
  nothing: it counts the entries before and after an insertion.
- `PeerBookTheorems`: four lemmas say what a step of any process can do to one peer
  in one book (`BookAfterStep`), to the file (`FileAfterStep`), to the last answer
  (`AnswerAfterStep`) and to the set of open books (`OpenAfterStep`). Besides
  `BookTypeCorrect` the theorems follow from these without a look at the single
  calls: `OwnChangesAlwaysHold`, inductive as it stands, and `RemovalsLast` and
  `AdditionsLast`, which need that books are open one at a time
  (`BooksOneAtATime`): the book that saves is then the only one whose memory could
  bring a peer back or lose one.
- `EvidenceTheorems`: `EvidenceTypeCorrect`, `AttestationsGenuine`, `AbortsGenuine`,
  `ReceiptsGenuine`, `RecordsGenuine`. The properties speak of files that were
  changed and are not inductive. The invariant says of every signature and
  co-signature in *any* file that its maker put it to a document in `made` with the
  very fields it covers, that every `body_digest` is that of an exported record, and
  that what is in `made` is of one piece with the messages it was made from; `Edit`
  moves such values between files and keeps this, and so does `EditEntry`, which
  touches nothing but entries (`EditEntryKeeps`, `Uncovered`). A signature that verifies
  then equals one that was made, so that the covered fields agree; of two aborts whose
  ends are covered alike, `EndsMeet` says that the ends are equal or one is the other
  reading of the other, since `Reread` is injective and changes the kind of an ending. The bounds
  `MaxMade`, `MaxDocs` and `MaxClock` are any numbers.
- `CliOnlineTheorems`: `TypeCorrect` and `StatesAlwaysMatch`. The two properties
  together are inductive: messages are only added, so that the message a state file
  agrees with stays, and a state file is written after its message. `MaskedInput` says
  what the leading elements of a message are, whatever dummies come after them.
- `CliLocalTheorems`: `Made`, the inductive invariant `IInv`: every id file is the
  encoding of an input and every result a prefix of the lines that `intersect` prints
  for two such encodings (and not of the id files that are there now, which may have
  been written again). With `ComputeIntersectionExact` and the lemma
  `PrefixOfResult` it gives `TypeCorrect`, `ResultIsExact` and `ReceiptsVouch`.
  `PoliciesReasoned` rests on the lemmas that more on offer violates less
  (`MoreViolatesLess`), that a constraint depends on its own key (`WithoutDrops`) and
  that the verdict is the first violation (`CheckIsFirst`).

Only model-checked: `Completion`, since liveness under fairness is beyond the
prover. Every other property of a passing run is a theorem.

## 5. What is not modelled

Left out for good: the characters of messages, of canonical JSON and of files that
are cut in the middle of a line; hashing, curve and signature arithmetic; the size
limits of `wire.rs`, which an honest sender's messages pass; printing and logging.
Dishonest parties: the code's own threat model is semi-honest (`THREAT_MODEL.md`); the
one exception is `Evidence`, since documents are made to be shown to others.

Left out because nothing in the program depends on it: `AbortMessage`, which no
session and no command handles; `pad_fact_ids`, `strip_padding`, `FactSet::insert`,
`PeerBook::in_memory`; the statuses, the peer key and the receipt of a record that no
command sets; `canonicalize`, `identity-gen`, `identity-show`,
`wire-decode`, `invite-verify` and `lease-verify`, which print, or make a key that
stands here for itself. The examples drive one session of each kind.

What would come next: a session whose application checks its peer in a peer book
(`require_peer_trusted`) and its nonces in a replay store, composed as `Authority`
composes grants.
