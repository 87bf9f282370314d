# sk-core in TLA+

A TLA+ model of the protocol core of `sk-core`: the hybrid post-quantum DM
session with its epoch ratchet, the group ratchet, the routed and the one-shot
envelope, anonymous queues, the formats these depend on, the language bindings
and the self-report. Twelve TLC runs check it on small instances, one of them
that the DM sessions implement an abstract promise; three show where the code
does not do what a comment or a document says. TLAPS proves that
implementation, and the safety properties of the DM session, the bindings, the
group, the envelopes, the addresses, the token codec and the self-report, for
all instances.

Paths below are relative to the repository; `dm_session.rs` stands for
`src/dm_session.rs`, and so on.

## 1. The system

`sk-core` is a sans-I/O library. It starts no thread, opens no socket and
writes no file. A *host* (skchat, skcomms, a browser, a Dart application) keeps
the values the library returns, carries tokens over its own transport, stores
snapshots on its own disk, and calls the library again. All that is concurrent
or unreliable therefore lies between two calls: what happens to a frame on its
way, in which order calls of two hosts fall, when a host is stopped and started
again, what its clock says. That is what the models let vary.

| Component | State | Operations | Hard behaviour |
|---|---|---|---|
| Hybrid KEM (`kem.rs`) | none | `hybrid_keypair`, `hybrid_encap`, `hybrid_decap`, `combine` | decapsulation rejects implicitly: a wrong key or an altered ciphertext gives another secret, not an error |
| DM ratchet (`ratchet.rs`) | epoch, epoch secret, message index, start time, bounds | `next_outbound_key`, `should_rekey`, `wrap_dm_epoch_secret`, `unwrap_dm_epoch_secret` | the index must never repeat under a secret; the age is a difference of wall-clock readings |
| DM session (`dm_session.rs`) | optional ratchet, `{epoch -> secret}`, current KAM, bounds | `seal`, `open`, `snapshot`, `restore`, `to_token`, `from_token` | lost, repeated, reordered and altered frames, both directions in one session, failures half way through `seal`, restarts, replaced keys |
| Group ratchet (`group_ratchet.rs`) | `EpochRatchet` of each member and epoch | `wrap_epoch_secret`, `unwrap_epoch_secret`, `next_outbound_key`, `message_key`, `should_rekey` | members leave and return while a secret is being distributed one by one; every member counts for itself |
| Routed envelope (`pqroute.rs`) | none | `seal_routed`, `read_route_header`, `replace_route_header`, `open_routed`, canonical JSON | relays rewrite headers; the associated data must follow the header's value and not its spelling |
| One-shot DM envelope (`pqdm.rs`) | none | `seal`, `open_sealed`, `negotiate_suite` | both ends must build one downgrade-lock AAD |
| Anonymous queue ids (`anon_queue.rs`) | none | `new_queue_pair`, `encode_aqid`, `decode_aqid`, `auth_tag`, `verify_tag` | codec boundaries |
| Suite registry (`suites.rs`) | `{id -> suite}` | `register`, `get_suite`, `all_suites`, `active_suites`, `suite_status`, `is_quantum_resistant` | a later registration replaces an earlier one; listings come from a hash map |
| Honest-claim report (`report.rs`) | none | `dm_ratchet_surface_for`, `conversation_surface_for`, `honest_claim`, `Report::from_surfaces` | lines are resolved before the report, while the conversation moves on; notes quote texts of others and the screen panics; the claim over no or symmetric-only surfaces |
| Bindings (`python.rs`, `frb_api.rs`, `wasm/`) | none | `hybrid_keypair`, `hybrid_encap`, `hybrid_decap`, `derive_dm_message_key` | the other end may be a session or another binding; altered ciphertexts must not raise |

Interactions: a session holds a DM ratchet, calls the KEM through
`wrap_dm_epoch_secret` when an epoch begins and through
`unwrap_dm_epoch_secret` when a frame brings a key-agreement message (KAM), and
derives one key for each frame from `(secret, epoch, index)`. The group ratchet
and both envelopes call the KEM alone. The report reads what the others say of
themselves: it resolves suite ids in the global registry, which is seeded on
first use and then only read, and is told the suite `negotiate_suite` gave.

### What makes it correct

* *DM session.* A frame of an epoch whose KAM the receiver has seen opens, in
  its own slot and with the content its sender put there. No message key
  encrypts two frames. A snapshot restores to the session it was taken of. A
  secret is retired at its bound. A KAM carries the secret its frame is keyed
  with. No epoch is stranded as long as one of its KAMs gets through.
* *Group.* Message keys are for members of the message's epoch, all of them
  compute the same key, and no sender repeats one.
* *Codecs.* Token and header bytes stand for one value and every value has one
  form; parsing never crashes.
* *One-shot mail.* What is accepted is what was sent, under the suite it was
  sent under; intact mail opens, on every implementation.
* *Routing.* What opens was sealed that way, to that destination, under that
  header; and restoring the header's value restores the envelope.
* *Self-report.* A line on a negotiated suite says what was negotiated for it,
  the claim of a report no more than its lines; no text from outside brings a forbidden word
  into a note; lookups and listings of a registry agree.
* *Bindings.* A client that has only the exported functions reads and writes
  what a session does, and cannot tell an altered ciphertext by an exception.

## 2. Modules

| Module | Models |
|---|---|
| `SymbolicCrypto` | AES-256-GCM, X25519, ML-KEM-768 as symbolic primitives (external) |
| `HybridKem` | `kem.rs` |
| `DmRatchet` | `ratchet.rs` |
| `DmSession` | `dm_session.rs`: session values and what each call returns and leaves behind |
| `DmChannel` | two hosts with a session each, the transport, the disk, the clock; properties |
| `DmPromise` | what a pair of sessions promises: the abstract specification |
| `DmImplements` | the refinement mapping from `DmChannel` to `DmPromise` |
| `DmDelivery`, `MCDmDelivery` | `DmChannel` with fairness and bounded loss; liveness |
| `Bindings` | `python.rs`, `frb_api.rs`, `wasm/src/lib.rs` |
| `DmBindings` | a client with a binding only, facing the sessions of `DmChannel` |
| `DmInvariants` | the inductive invariants |
| `DmChannelProofs` | lemmas on `DmSession` and `DmRatchet` operators; type correctness, exact restore, single use of keys, the refinement of `DmPromise` |
| `DmFrameProofs` | seen epochs open; frames, secrets and KAMs under old snapshots; the bindings |
| `GroupRatchet`, `GroupChannel` | `group_ratchet.rs`, and hosts that form a group |
| `GroupProofs` | the group's invariant and properties |
| `TokenCodec`, `MCTokenCodec` | `SealedDmFrame::to_token` and `from_token`, byte by byte |
| `TokenCodecProofs` | the properties of the codec |
| `JsonStrings` | `pqroute.rs` string literals, byte by byte |
| `CanonicalJson` | `pqroute.rs` `canonical`, byte by byte |
| `JsonPeers`, `MCJsonPeers` | two hosts that build a header each |
| `Ordering` | sorting and filtering as the Rust library does (external) |
| `OrderingLemmas` | what these return |
| `PqRoute`, `RouteNetwork`, `MCRouteNetwork` | the envelope functions of `pqroute.rs`, and relays |
| `RouteProofs` | the invariant of relayed envelopes and its properties |
| `PqDm` | `pqdm.rs` |
| `AnonQueue` | `anon_queue.rs` |
| `QueueMail`, `MCQueueMail` | hosts that send `pqdm` envelopes over anonymous queues |
| `QueueMailProofs` | the invariant of mail and addresses and its properties |
| `Suites` | `suites.rs` |
| `Report` | `report.rs` |
| `SelfReport`, `MCSelfReport` | a host that reports on a conversation, and keeps a registry of its own |
| `SelfReportProofs` | the self-report's invariant and properties |

### Cryptography

A draw of `OsRng` is a number never drawn before; the number stands for the
bytes. A ciphertext is a record of the key, nonce, associated data and message
it was made from, with a flag that damage clears; `decrypt` returns the message
exactly when all agree. ML-KEM decapsulation always returns a secret, and for a
wrong key or a damaged ciphertext a secret marked as rejected, which is then
used as any other. A key derived by HKDF is the tuple of its inputs. Nothing in
the models depends on a probability; the proofs are about the use the code
makes of perfect primitives.

### DmSession and DmChannel

A session is a record with the fields of the Rust struct: `ratchet`,
`epoch_secrets`, `current_kam` and the bounds. Each Rust function is an operator
from the old session to the new one or to the result: `open_session` is what
`open` leaves behind also when it fails, `open_outcome` is what it returns, so
that "the secret is filed, then the body fails" is one step with both effects,
as in the code.

`DmChannel` has one action for each call a host can make:

| Action | Call |
|---|---|
| `Seal` | `seal`, with `begin_epoch` if there is no ratchet or `should_rekey` says so |
| `SealEncryptFails` | `seal` whose AEAD call fails after index and epoch were taken |
| `SealRejected` | `seal` whose `begin_epoch` fails on the public key: nothing changes |
| `Deliver` | `open` of any frame ever sealed, as sealed or damaged: repetition and reordering are this choice, loss is never choosing a frame |
| `Save`, `Restart` | `snapshot` and `restore` |
| `RotateKey` | `hybrid_keypair`: a host replaces the pair it opens with; peers may still use the older public key |
| `Tick` | the clock moves, also backwards |

`Senders` says which hosts call `seal`. `DamageKinds` says what the transport
may do to a frame. With `StaleRestore` a restart may also use the last
snapshot the host saved, however old; without it the host saves after every
call, so that a restart continues from its latest state. `opened`, `kamSeen` and `panicked` are history variables.

### DmPromise and DmImplements

`DmPromise` has no keys, frames, snapshots or clock: each host puts contents in
slots `(epoch, index)`, each later than the one before, and its peer gets, in any
order and any number of times, what is in a slot. `DmImplements` maps the frames
a host's `seal` returned to the slots it has filled, and what `open` returned to
what the peer has got. `PromiseKept` says that every step of `DmChannel` is then
a step of the promise or leaves it alone. It holds where hosts restart from their
latest state; with `StaleRestore` a slot may be filled twice, which is why hosts
have to save.

### Bindings and DmBindings

The three bindings export the same four functions, differ in the type of an
error, and pass byte strings on as they are. `DmBindings` adds no action to the
channel: its properties ask, in every state of `dm_delivery` and for every frame
as sealed or damaged, what a client on each binding would read or write. The
client cuts and decrypts a KAM payload by itself, as `tests/parity_python.py`
does; that part is external.

### GroupChannel

Who is a member and when to rekey is decided by the group driver of skchat, which is not in
this repository; its steps (`Rekey`, `Distribute`, `Receive`, `Send`) are taken
from how the functions are meant to be called and are marked external. What they
call (`GroupRatchet`) is the repository's. `Rekey` needs a changed roster or a
member whose `should_rekey` holds, and may come before the previous secret has
reached everyone. `Receive` lets every host try every payload, damaged or not.

### TokenCodec

A token is its scheme and the bytes behind base64. `take` keeps the order of
the tests in the `take!` macro; a cursor that has ended stays ended. The widths
of the integers and of `usize` are constants, so the overflow of `off + n` is
in the model and a small instance reaches it. The big-endian forms of u64 and
u32 are constants too, assumed to be bijections between the numbers of the type
and the byte strings of its length (`BigEndianAssumption`); the instance has
big-endian forms.

### CanonicalJson, PqRoute, RouteNetwork

`CanonicalJson` encodes JSON values to code points: sorting by code point and,
from `JsonStrings`, short escapes, `\u` escapes and surrogate pairs. It reads
strings back with an independent `read_string` written from the JSON grammar.
Floating-point numbers are left out: there the code prints what `serde_json`
prints. `PqRoute` represents a canonical object more coarsely, as one symbol for
each member in key order between braces; that this may be done is what the
property `SameBytesSameObject` of `JsonPeers` shows. The members are put in order
by `in_order`: the i-th is the one with i - 1 others before it, which says what a
sort of keys that all differ returns without going through permutations, so that
it can be proved about. `parse_json` gives a header as the set of its members. `RouteNetwork` adds relays that
replace headers or spoil envelopes in six ways.

### PqDm, AnonQueue, QueueMail

`PqDm` builds the downgrade-lock AAD from the JSON literals `serde_json` writes;
the keys and `"v":1`, the same in every AAD, are left out. `AnonQueue` has the
address codec with its tests in order and the tag as one HMAC over nonce and
message; the id that a draw of `OsRng` stands for is a constant, `queue_id`,
assumed only to give different draws different ids of the right length. `QueueMail` puts the two together as the header of `anon_queue.rs`
suggests: publish an address, decode it, negotiate, seal, tag, and at the other
end verify and open. The queues are external; between the ends an address may
lose, gain or change a character and mail may be put in another queue, named
with another suite, sender or nonce, cut at another border or damaged.

### Suites, Report, SelfReport

`Suites` has a registry as a function from ids to suites, with the sort key of
`all_suites` over an order of the ids given by a constant (`IdOrder`), in which the
seeded ids and those a host registers occur (`IdAssumption`,
`RegistrableAssumption`). `active_suites` keeps the positions of the listing whose
suite is active, in their order. `Report`
keeps of a note its verdict, the KEM it says is in use, the level or epoch it
names, and the set of texts it quotes from outside; whether a text contains a
forbidden word is a constant (`ForbiddenTexts`), and the fixed wording, which
contains none, is left out. In
`SelfReport` the host's steps (`Negotiate`, `Label`, `Ratchet`) are external, and
each of `BuildDm`, `BuildConversation`, `Issue` and `Register` is a call of the
crate. A builder that panics takes the lines collected so far with it.
Beside each line, waiting or issued, the model keeps its `basis`: what the suite
rested on when the line was built, the offers of both sides (`offered`), a
negotiation without them or none at all (`unoffered`), or a peer's `label`. Labels
may name any suite, the hybrid one too. Nothing in `report.rs` can tell a true
label from a false one; `open_sealed` does, as `queue_mail` shows, and a host that
passes an unopened label on is told what the label resolves to. So
`SilentDowngradeShows` holds negotiated lines to their basis and labelled lines to
the registry and the name they carry. `DowngradeReadsClassical`, which asks the same
of both, and `SymmetricOnlyClaimed` are what comments of `report.rs` say and the
code does not do; section 5 shows how they fail. `FallbackAssumption` says that the
id `report.rs` falls back to contains none of the words it forbids.

## 3. Runs

`tlc -config <cfg> <module>`; the state counts are of complete searches.

| Run | Module | Properties | Shows |
|---|---|---|---|
| `dm_oneway` | `DmImplements` | `TypeOK`, `SeenEpochOpens`, `EpochBudget`, `OneFramePerKey`, `KamMatchesBody`, `PromiseKept` | 150 thousand states; a conversation used in one direction keeps the promise under loss, repetition, reordering, damage, failed seals, restarts, key replacement and a moving clock |
| `dm_twoway` | `DmChannel` | `EpochIndependence`, `RestoreIsExact`, `KamMatchesBody` | 421 thousand states; with both directions in one session, misfiled secrets and hosts that return with an old snapshot, a secret is never spread over two epochs and snapshots are exact |
| `dm_delivery` | `MCDmDelivery` | `LateFramesOpen`, `AnyBindingReads`, `AnyBindingWraps` | with two of the three KAMs of each epoch lost, every other frame is eventually opened; clients on any binding understand the sessions and are understood |
| `dm_twoway_seen` | `DmChannel` | `SeenEpochOpens` violated | finding 1 |
| `dm_nonce_panic` | `DmChannel` | `NeverPanics` violated | finding 2 |
| `group_roster` | `GroupChannel` | `TypeOK`, `RosterOnly`, `MembersAgree`, `SenderKeysOnce`, `GroupBudget` | 2.0 million states; membership, agreement, single use of keys and the bound for a whole group |
| `token_codec` | `MCTokenCodec` | `RoundTripExact`, `AcceptedIsCanonical`, `NeverCrashes` | tokens with up to two altered bytes |
| `canonical_json` | `MCJsonPeers` | `SameBytesSameObject`, `StringsSurvive` | one encoding for each object, and one object for each encoding |
| `route_network` | `MCRouteNetwork` | `OpenedAsSealed`, `SameHeaderOpens` | relays cannot change what opens, and can undo what they changed |
| `queue_mail` | `MCQueueMail` | `AcceptedAsSent`, `IntactMailOpens`, `AddressesExact` | no alteration on the way is accepted, intact mail opens, addresses are exact |
| `pqdm_python` | `MCQueueMail` | `AadMatchesPython` violated | finding 3 |
| `self_report` | `MCSelfReport` | `TypeOK`, `SilentDowngradeShows`, `ClaimIsExact`, `NoForbiddenWords`, `PanicsOverQuotesOnly`, `ListingAgrees` | 664 thousand states; negotiated lines say what was negotiated when they were built, and the claim no more than the lines |

### Bounds

* `MaxDraws` bounds a DM run by the randomness it may use. The two key pairs
  take one draw each, a seal two and a replaced key pair one; the eleven draws
  of `dm_oneway` allow four seals, failed ones among them, and a replaced key
  pair: two full epochs, or more where the clock ends one early. The nine of
  `dm_twoway` allow three seals and a replaced key pair, split between the hosts
  in every way, with any number of restarts between them: both hosts in epoch
  0, or one that begins epoch 0 twice, or goes on to epoch 1. The
  counterexample of `dm_twoway_seen` needs two seals.
* `RekeyMsgBound = 2` puts two frames in an epoch, so index 0, index 1, the
  bound and the frame after the bound all occur. `KAM_REPEAT` is 2 in
  `dm_oneway` and `dm_twoway`, so that a KAM made earlier is attached again, and
  1 in `dm_nonce_panic`; `dm_delivery` uses the 3 of the code and four frames in
  an epoch, of which the last has no KAM. `RekeyAge = 1` with a clock in
  `0 .. 1` has an age below, at and, after the clock is set back, below zero.
* `group_roster` has two hosts, three epochs, three messages and one replaced key
  pair, and a bound of two messages, so that one more would break `GroupBudget`
  in an epoch of one member: a host that leaves and comes back is the longest story the property
  tells apart, and a third host would be another bystander.
* `token_codec` has bytes of 4 values, an 8-byte field shortened to 1 byte and
  length fields of 2 bytes: lengths that are too short, exact and too long for
  what follows. Two alterations can change a length and
  make up for it elsewhere.
* `canonical_json` has two hosts with two members each out of three keys, one a
  prefix of another, and nine values, with strings at 0x1f, 0x20, 0x7e, 0x7f,
  U+D7FF, U+E000, U+FFFF, U+10000 and the first and last of each surrogate half.
* `route_network` has two envelopes to two destinations, headers that differ in
  value and headers that differ only in the order of insertion, and two changes
  on the way: replace and replace back, replace and splice, cut and reframe.
* `queue_mail` has two queues, two mails and two alterations of mail, on one mail
  or one on each, and one altered address; ids of two characters out of three,
  relays that are empty, ordinary and with a slash inside. `MaxDraws = 8` is enough
  for two key pairs, two queues of two ids each and two mails.
* `self_report` has reports of up to two lines, enough for every mixture the
  counts and the claim tell apart (none, one kind, two kinds) and for a
  negotiation between two lines and before the report. Labels are registered
  (hybrid, symmetric), unknown, empty and with a forbidden word; peers unnamed,
  named and named with such a word. The registrations switch a classical suite
  off and add a pure post-quantum one, over an empty and over the seeded
  registry.

`CHECK_DEADLOCK FALSE` is set where the modelled work really ends: a token is
parsed once, a header is complete, an envelope or mail has made its hops.

### Fairness

Only `dm_delivery` states fairness: weak fairness of handing over each frame
outside `MayLose`. `open` takes the frame by reference and `MissingEpochSecret`
leaves it usable, and "reliable transport" is what the comment on `KAM_REPEAT`
assumes, so a host offers a frame until it opens. Nothing is assumed of
sealing, saving or restarting. `LossAssumption` says that at least one KAM of
each epoch is not lost; without it the property is false, and rightly.

## 4. Theorems

TLAPS checks the proofs of `DmChannelProofs`, `DmFrameProofs`, `GroupProofs`,
`SelfReportProofs`, `TokenCodecProofs`, `OrderingLemmas`, `RouteProofs` and
`QueueMailProofs`. The theorems on DM sessions are about two hosts, any number of
frames and epochs, every value of the bounds and of `KAM_REPEAT`, any damage, and
both settings of the switches, unless an assumption says otherwise; those on
groups about any number of hosts; those on the self-report about any peers,
labels, forbidden texts and registrations, and reports of any length; those on
the token codec about frames with fields of any bytes, integers of any width and
any number of alterations; those on routes about any number of destinations,
envelopes and changes, headers and metadata with any members and any contents;
those on mail about any hosts, names, relays, alphabet and id length, and any
number of queues, mails and alterations.

| Theorem | Says | Assumes |
|---|---|---|
| `TypeCorrectness` | `Spec => []TypeOK` of the DM channel | |
| `RestoreExactness` | `Spec => []RestoreIsExact` | |
| `KeysUsedOnce` (`DmChannelProofs`) | `Spec => []OneFramePerKey` | `~StaleRestore` |
| `SeenEpochsOpen` | `Spec => []SeenEpochOpens` | `~StaleRestore`, `OneSender`, no damage to epoch fields |
| `EpochsIndependent` | `Spec => []EpochIndependence` | |
| `BudgetKept` | `Spec => []EpochBudget` | |
| `KamsMatchBodies` | `Spec => []KamMatchesBody` | |
| `SessionsKeepPromise` | `Spec => PromiseKept` | `~StaleRestore` |
| `BindingsRead` | `Spec => []AnyBindingReads` | |
| `BindingsWrap` | `Spec => []AnyBindingWraps` | |
| `GroupTypes` | `Spec => []TypeOK` of the group | |
| `RosterDecides` | `Spec => []RosterOnly` | |
| `ReceiversAgree` | `Spec => []MembersAgree` | |
| `KeysUsedOnce` (`GroupProofs`) | `Spec => []SenderKeysOnce` | |
| `GroupWithinBudget` | `Spec => []GroupBudget` | |
| `ReportTypes` | `Spec => []TypeOK` of the self-report | |
| `PanicsExplained` | `Spec => []PanicsOverQuotesOnly` | |
| `NotesScreened` | `Spec => []NoForbiddenWords` | |
| `ClaimsAreExact` | `Spec => []ClaimIsExact` | |
| `DowngradesShow` | `Spec => []SilentDowngradeShows` | |
| `ListingsAgree` | `Spec => []ListingAgrees` | |
| `RoutesAuthentic` | `Spec => []OpenedAsSealed` | |
| `HeadersRestore` | `Spec => []SameHeaderOpens` | |
| `MailAccepted` | `Spec => []AcceptedAsSent` | |
| `MailOpens` | `Spec => []IntactMailOpens` | |
| `AddressesRoundTrip` | `Spec => []AddressesExact` | |
| `AcceptedCanonical` | `Spec => []AcceptedIsCanonical` | |
| `RoundTrips` | `Spec => []RoundTripExact` | `FramesFit` |
| `ParsingNeverCrashes` | `Spec => []NeverCrashes` | `WideUsize` |

Besides, every theorem has the named assumptions on the constants of its module,
which TLC evaluates in the runs: bounds are natural numbers, an exception is not
the absence of one nor an error a secret or a content (`NoneIsNoSecret`,
`NoneIsNoContent`), a map has a key once (`MapAssumption`), different draws are
different ids (`QueueAssumption`), and `FallbackAssumption`,
`IdAssumption` and `BigEndianAssumption`. The assumptions of
the table are needed: with `StaleRestore` a host seals again in slots it has used,
so that slots and keys repeat, and without the other two of `SeenEpochsOpen` the
property fails as section 5 describes. `FramesFit` (a field's length fits the 32
bits it is written in, a blob fits in memory) is what `as u32` in `to_token`
counts on: a longer field is written with a length cut off. `WideUsize` (a blob
and a length field together are counted by a `usize`) is true of 64 bits and
false of 32. TLC evaluates both for the frames of `token_codec`. Every invariant below was checked by TLC
before it was proved.

*Types and restore.* `TypeOK` is not inductive: `Restart` must produce a
session, so what is on disk must restore, and `restore` looks the ratchet's
secret up in the restored map. `TypeInv` adds `AllCoherent`: in every session,
and in every session a snapshot restores to, the ratchet's secret is the one
filed under its epoch, and there is a KAM. `open` keeps it because it inserts
only where there is no entry; `begin_epoch` because it writes both. From
`Coherent`, `RestoreIsExact` follows by computation.

*Single use of keys.* `OneFramePerKey` says nothing of the next key. `KeyInv`
adds: secrets on the wire and in ratchets were drawn (`SecretsDrawn`), so a new
draw is new; a key names its slot (`KeysNameSlots`); the counter of the current
ratchet is beyond every frame under its secret (`CounterAhead`); and the hosts
never share a current secret (`OwnSecrets`), which a KAM might suggest, as it
brings the peer's secret into the map.

*Seen epochs open.* `SeenInv` relates the two ends: only the sender has a
ratchet (`OneWay`); it has no secret for an epoch it has not begun
(`NoFutureEpoch`), so `begin_epoch` never overwrites one; every frame is sealed
under the secret the sender still has filed for the frame's epoch, and its KAM
wraps that secret (`FramesFiled`); the KAM that later frames will carry does
too (`KamCurrent`); whatever the receiver has filed agrees with the sender
(`ReceiverAgrees`), damaged KAMs and KAMs for replaced keys included, because
they unwrap to nothing; and an epoch that was seen is filed (`SeenIsFiled`).
With these `open` finds the secret, derives the frame's key and decrypts.

*Old snapshots.* Where a host may come back with any snapshot, its counter is not
ahead of its frames, and none of `KeyInv` after `SecretsDrawn` survives. What does
is about all sessions a host has or may come back with (`Held`). `RatchetsKnown`:
such a ratchet has taken index 0, its secret was drawn, the KAM beside it wraps
that secret, and the frames under the secret are the host's, of the ratchet's
epoch, the first of them from the moment the epoch started. `SecretsApart`: two
such ratchets with one secret are stages of one epoch of one host.
`FramesKnown`: the same of the frames sent. A second epoch with an old number
has a new secret, so that `EpochIndependence` holds although the epoch number
repeats; and an age is counted from the start that the snapshot kept, so that
`EpochBudget` holds after any restart. `BindingsRead` and `BindingsWrap` need
from this that a KAM wraps the secret its frame was sealed under, for a key the
peer has announced; the rest is a computation with the exported functions.

*The promise.* A step of `DmPromise` fills a slot later than all the host has
filled, and `KeyInv` does not order the slots of different epochs. `SlotsBehind`
does: the sender's ratchet is past the slot of every frame it sent. It needs
that `begin_epoch` goes to a later epoch than the ratchet's. That what `open`
returns was in that slot is from the associated data, which bind the slot, and
`KeyInv`, by which the frame that was sealed with this key is the one opened.

*Groups.* `GroupInv` says whose every key pair is (`KeysOwned`), that the group's
secret belongs to its epoch (`SecretOfEpoch`), that a payload wraps its epoch's
secret to a key of a member of that epoch (`PayloadsWrap`), that whoever has the
ratchet of an epoch was a member and has that secret (`RatchetsOfMembers`), and
that a message's key names its slot, within the bound and behind its sender's
counter (`MessagesBehind`). `RosterOnly` and `MembersAgree` follow. For
`GroupBudget` the messages of an epoch are mapped one to one into pairs of a
member and an index below the bound.

*Self-report.* `SelfInv` says that a conversation both sides offered the hybrid
suite for is on it, and one they did not, and that goes by no label, on the
fallback suite or on none (`BasisFits`); that every line, waiting or reported, has
a status, a flag and a note that agree and fit its basis, and was screened
(`LinesBuilt`, `ReportsMade`); and that a report is `from_surfaces` of its lines.
Of labels it assumes nothing: a label takes a conversation out of what `BasisFits`
speaks of, until the next negotiation. A registration in the host's own registry
cannot change what a line says, because the builders look ids up in the global
one. `ClaimIsExact` is then about `honest_claim` and the counts of any sequence of
such lines (`ClaimOfLines`), and `DowngradesShow` takes from it that a report with
a downgraded line claims NOT.

*Listings.* The sort key orders the rows of any registry strictly and totally
(`KeyOrders`), because a row is filed under its own id, as `TypeOK` says; so
`in_order` lists each row once and in that order (`InOrder`). An active row never
comes after one that is not, and a filter that keeps the positions before every
position it keeps returns the first part of the sequence (`KeptFirst`).

*Routes.* `OpenedAsSealed` is about envelopes put together of parts of others.
`RouteInv` says that each cell of type body on the wire is the body of some
sealed envelope, damaged or not (`WireSealed`, `NoForgery`), and that an envelope
no relay spoilt is a header in canonical form before the sealed part as it was
made (`Whole`). A body that opens is thus somebody's, and it opens only with the
key and the associated data it was sealed with: the destination and the bytes of
the header. From the bytes back to the header's value goes `ParsedObject`, as a
map has a key once and `in_order` then lists each member once; from the value to
the bytes goes `CanonicalByValue`. `split_outer` cuts an envelope where `seal_routed` joined it
(`SplitWhereJoined`), and the inner part is cut the same way.

*Mail and addresses.* `QueueInv` says of every mail on its way only that it keeps
the draw and the tag of something sent (`Tagged`), and, if nobody touched it, the
rest too (`AsMade`). The tag covers nonce and blob without a border and neither
suite nor sender. `TagFrames` shows that the border is where it was, because a
blob that opens has its three parts; the key of the tag leaves sender and receiver
up to their order, and the KEM decides which is which; and the associated data
bind the suite: for given names, of any characters, the suites' AADs differ in
length (`AadBindsSuite`), as the suites' JSON literals do (`SuiteLengths`). AADs
are built by `FlattenSeq`, a recursive function of the library; what it returns
(`FlattenJoins`) rests on `JoinExists` and `JoinUnique`, proved by a least
counterexample. For addresses, `decode_aqid` cuts at the first slash
(`FirstSlash`), which `encode_aqid` has kept out of the relay; `DecodedEncodes` and
`PublishedDecodes` are the two directions.

*Token codec.* The invariant `TokenInv` is small; the work is in the codec, which
is not recursive: three fields and a KAM one after the other. For
`AcceptedIsCanonical` every `take` that succeeds leaves the bytes before the
cursor equal to what was before plus the chunk (`Taken`), a length field equal
to the form of the length of the chunk after it (`TakePrefixed`), and a flag of
exactly the KAM returned (`TakeKam`); at the end of the blob these are the bytes
`to_token` writes. `RoundTripExact` goes the other way: where the written bytes
lie ahead of the cursor, `take` returns them (`TakeNext`, `TakeField`).

Only model-checked:

* `LateFramesOpen` is a liveness property under fairness, which the prover cannot
  treat.
* `SameBytesSameObject` and `StringsSurvive` are about values within values, which
  `canonical` encodes by a recursive operator: what it gives for every value is an
  induction over data.

## 5. Findings

1. *Two directions, one map* (`dm_twoway_seen`). `begin_epoch`
   (`dm_session.rs:282`) and `open` (`dm_session.rs:375`) use one
   `{epoch -> secret}` map for what this side sends and what it receives. When
   both hosts seal, epoch 0 of one and epoch 0 of the other compete for one
   entry; the loser's frames do not open, although the header of the file says
   that a frame of any epoch whose KAM has been seen does. Keys are not reused
   by this (`OneFramePerKey` holds). A session for each direction avoids it.
2. *Nonce length* (`dm_nonce_panic`). `open` hands the frame's nonce to
   `Nonce::from_slice` (`dm_session.rs:393`), which asserts 12 bytes;
   `from_token` accepts any length. `SECURITY.md` promises a typed error.
3. *AAD of names outside ASCII* (`pqdm_python`). `downgrade_lock_aad`
   (`pqdm.rs:174`) serializes with `serde_json`, which leaves such characters as
   they are, where Python's `json.dumps` escapes them. `README.md` (115-119)
   says that both AADs match `ensure_ascii=True`; only the one of `pqroute.rs`
   does. An envelope between parties with such a name does not open across
   implementations.

More observations that the models make precise:

* `open` files a KAM's secret under the frame's epoch field before the body
  authenticates that field (`dm_session.rs:376`). A frame with an altered epoch
  field thus takes the place of the real KAM of that epoch. `dm_twoway` includes
  such frames and shows that they never disturb what this side seals with;
  `SeenEpochOpens` is checked and proved without them.
* `off + n` in `take!` (`dm_session.rs:194`) can overflow where `usize` has 32
  bits, as in the wasm build; with `UsizeRange = 16` in `token_codec.cfg`, and the
  assumption `WideUsize` of `MCTokenCodec` left out, TLC shows the panic.
* `should_rekey` of the group ratchet (`group_ratchet.rs:409`) looks at one
  member's counter, so an epoch carries up to the bound for each member, and no
  more (`GroupBudget`).
* Both builders take every quantum-resistant suite for the hybrid one
  (`report.rs:228`, `:305`). A host that passes on a label `aes256-gcm-v1` gets a
  quantum-resistant line whose note says that the conversation "negotiated the
  hybrid KEM" and is "HNDL-resistant"; `dm_ratchet_surface_for` likewise speaks of
  X25519 and ML-KEM-768. Nothing was negotiated, and `report.rs:278-280` and
  `SECURITY.md:73-74` say that a downgrade reads classical and never as an invented
  hybrid line. TLC refutes `DowngradeReadsClassical`, as an invariant in
  `self_report.cfg`, in two steps: `Label`, then a builder. Suites that
  `negotiate_suite` gave are not concerned (`SilentDowngradeShows`).
* `report.rs:327-329` gives symmetric surfaces the symmetric-only claim. As they
  count as quantum-resistant, the first branch of `honest_claim`
  (`report.rs:337`) takes them: "All owned surfaces are quantum-resistant." TLC
  refutes `SymmetricOnlyClaimed` the same way in three steps, the third of which
  issues the report. The symmetric-only claim is left for a report without
  surfaces, which thus says that symmetric ones are present; `ClaimIsExact` takes
  no side in either case.
* The builders do not by themselves guarantee what `assert_honest` asserts, as
  its comment says (`report.rs:116-118`): a note quotes the peer's name and, in
  `dm_ratchet_surface_for`, an unknown suite id, and a forbidden word in either
  makes the builder panic. `PanicsOverQuotesOnly` shows that nothing else does.
  `conversation_surface_for` does not quote the id; it then stands, unscreened,
  in `active_suite`.

## 6. Not modelled

* `frb_generated.rs` is generated from `frb_api.rs`.
* What the binding libraries (PyO3, flutter_rust_bridge, wasm-bindgen) do with an
  integer that does not fit 64 bits: the conversion is theirs.
* `Report::to_json` and the fixed wording of notes and descriptions.
* Zeroing of memory, timing, key sizes, wording of errors.
* The moment between the two readings of the clock in one `seal`, by
  `should_rekey` and then by the new ratchet (`dm_session.rs:313`,
  `ratchet.rs:342`): they are one reading.
* Base64 of tokens and its errors (`dm_session.rs:185-187`): `from_token` is
  modelled from the decoded bytes on.
* Parse errors of snapshots that `snapshot` did not write.
* Text formatting of floating-point numbers in canonical JSON.

## 7. Plan

The order is by importance to the system; all seven items are done.

1. DM session with ratchet and KEM, its runs and its theorems.
2. Group ratchet and its driver.
3. Token codec, canonical JSON, routed envelope with relays.
4. One-shot envelope and anonymous queues.
5. The abstract promise of the DM channel and the refinement; bindings.
6. Suites and the self-report.
7. Theorems on the promise, old snapshots, bindings, groups, the self-report, the
   token codec, routes, mail, addresses and listings.

The invariants that are not theorems are those of `canonical_json`, for the
reason given at the end of section 4.
