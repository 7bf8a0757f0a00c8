# Cousin Congress, specified

TLA+ modules, TLC runs and TLAPS proofs about *Cousin Congress*, a local-first,
peer-to-peer legislature that runs in the browsers of its members ("cousins").
There is no authority on the network: each device keeps a log of signed ops,
folds it into the state of the chamber, and exchanges ops with whoever it can
reach. What must be right is therefore right or wrong *in every replica at
once*, after ops have arrived in any order, over links that come and go, on
devices whose clocks, storage and owners do as they like.

Paths below are relative to the repository; `js/` is `src/js/`. `PROJECT.json`
maps every definition to the lines it translates, and lists the hazards, each
with the properties that cover it.

## 1. The system

### 1.1 Components

| Component | Code | State it keeps | Operations | Modules |
|---|---|---|---|---|
| Authority | `js/crdt.js` (reducers, `noteActivity`, `applyOp`), `js/authz.js` | `session.chairKeys`, `chairRequests`, `chairSeat`, `chairRecovery`, `chairPetitions`, `chairSuccession`; `lastOpAt`, `chairLastSeen`; each member's `keys`, `pendingKeys`, `_deleted` | one reducer per type of op, guarded by `authorize` | `ChamberFold`, `Authority` |
| Votes and bills | the same files, `js/actions.js` | votes, ballots, proxies, bills, cosponsors | the handlers of the pages, last-writer-wins reducers, the tally | `Floor`, `Legislature` |
| What is posted and switched | the same files | statuses, chat, comments, amendments, news, docket, announcements, members, shares, devices | post, retract, switch, share, bar, clear | `Floor`, `Bulletin` |
| Op log | `js/crdt.js` `Log` | `byKey`, `ordered`, `vv`, `state` | `insert`, `delta`, `advertisedVv`, snapshots | `OpLog` |
| Hybrid clock | `js/crdt.js` `Clock` | `ms`, `count` | `tick`, `observe` | `HybridClock` |
| Store | `js/store.js` | `log`, `seq`, `clock`, the quarantine, IndexedDB `ops` and `meta` | `dispatch`, `signAndRelease`, `ingest`, the drain, `persist`, `init`, `replaceLog`, `importLog` | `OpLog`, `Replication`, `Gavel` (recovery proofs), `SchemaVersions` (conversion) |
| Sync coordinator | `js/sync.js` | the registry of peers, timers, the memory of the flood | `hello`, `vv`, `ops`, `sweep`, keepalive, `provision` | `Replication`, `Pairing`, `Walkie` |
| Peer links | `js/sync-peers.js` | `links`, dial attempts, isolation | dialling, WebRTC, handshake, `drop` | `Session`, `Dialling`; in `Replication` a link is there or not |
| Relay client, relay | `js/sync-server.js`, `worker/src/index.js` | `outbox`, the socket, `vvSeen`; ops, a version vector | `connect`, `send`, `drain`, the fallback; `storeOps`, `hello`, `/ingest` | `Relay` |
| Cryptography | `js/crypto.js`, `js/chacha.js` | the device key, the key directory (in memory), a session's keys, epoch, counters, window | `acceptHello`, `checkConfirmation`, `seal`, `open`, `ratchet`; XChaCha20-Poly1305 | `Session`, `Replication` (the directory), `Sealing`, `ChaCha`, `Poly1305` |
| Seats, passwords, the gavel | `js/auth.js`, `js/founding.js` | the tab's sign-in | founding, the gate, recovery, seat codes, requesting, approving | `Gavel` |
| Caretaker tools | `js/statetools.js` | none | `findPrunable`, `prune` | `OpLog` |
| Versions of ops | `js/schema.js`, `js/migrate.js` | converters, endpoints, pins | envelope checks, conversion | `SchemaVersions` |
| Links by code | `js/connect.js`, `js/seatcode.js`, `js/sync-peers.js`, `js/icons.js` | invites that wait | tickets, invites, replies, the room handed over | `Pairing`, `Tickets` |
| QR symbols | `js/qr.js`, `js/qr-decode.js` | none | print, read | `QrTables`, `QrEncode`, `QrDecode`, `QrScan` |
| Walkie-talkie | `js/walkie.js`, in `js/sync.js` | microphone, recorder, chunks seen, clips, the queue | press, release, flood, assembly, playback | `Walkie` |
| Tabs, advice, views, cards | `js/sync-tabs.js`, `js/watchdog.js`, `js/views.js`, ... | none others read | | not modelled (section 8) |

### 1.2 How they interact

A form handler calls `store.dispatch`. The store numbers the op (`seq`), stamps it
(`Clock.tick`), folds it **at once** into its own log, and only then asks for a
signature; when that is made, the op is written to IndexedDB (nobody waits for
the write) and handed to the coordinator, which sends it on every transport:
peer links, the tab channel, the relay. On the other side a link hands
the op to `store.ingest`: checks of the envelope and of the clock, conversion from
an older version, then authentication against the **key directory**, which knows
a device by its `id.announce` op or by a handshake with it. What can be authenticated
enters `Log.insert` and is **gossiped** to every other peer; what cannot waits in
quarantine. Links open with a `hello` that carries a version vector, answered
by the ops above it and the answerer's own vector; every 20 s a **sweep** sends the
digest again. Who may do what is decided nowhere but in the fold, by
`authorize`, from the ops that sort earlier. Two devices that have never met are
brought together by a code that people carry from screen to camera; it also
carries the secret of the room, which keys the tag of every op.

### 1.3 What is hard here

* **Order.** Ops arrive in any order; the fold is canonical, so a late op changes
  what later ones were allowed to do. A prune, a projection that was folded
  early or a cached check is judged on yesterday's order.
* **Two clocks.** Dormancy of the Chair is computed from stamps of ops; so stamps
  must rise, must not run away, and a Chair's acts must not be overlooked.
* **Asynchrony inside a device.** Signing, verifying, deriving keys, dialogs, the
  microphone and storage are promises; state is read before and used after each.
* **Crashes.** An op, the sequence number and the clock are saved behind the
  release of the op; the directory is not saved at all.
* **Loss.** A link dies with ops on their way; the relay keeps one number per
  author; HTTP requests overlap; calls and codes of an earlier attempt come late.
* **Limits.** Quarantine, ingest, rate and flood memory are bounded, and forget;
  limbs of the authenticator and the counter of a stamp have a width.

## 2. The plan, and where it stands

| # | Modules | Models | Checked | Proved |
|---|---|---|---|---|
| 1 | `ChamberFold`, `Authority` | the fold of the trust-binding ops | all | all |
| 2 | `OpLog` | log, projection, version vectors, dispatch, prune | all | all |
| 3 | `HybridClock` | the clocks | all | all |
| 4 | `RecordKeeping`, `Replication` | coordinator, quarantine, storage; refines `RecordKeeping` | all | safety and the refinement |
| 5 | `Relay` | the relay's client and its store, one device | all | safety |
| 6 | `Session` | handshake, queue, epochs, counters, ratchet | all | safety |
| 7 | `Dialling` | roster, redial, attempts, late signals | all | safety |
| 8 | `Floor`, `Legislature`, `Bulletin`, `Chamber` | the chamber's tables over several devices | all | all |
| 9 | `Gavel` | the flows of `js/auth.js` and `js/founding.js` | all | stays with TLC |
| 10 | `Pairing`, `Tickets` | rooms and codes; how a code is written | all | rooms stay apart |
| 11 | `Walkie` | push-to-talk | all | microphone and queue; who hears is TLC's |
| 12 | `Qr*`, `Poly1305`, `ChaCha`, `Sealing` | what is written in bits | all | widths of `Poly1305` |
| 13 | `SchemaVersions` | versions, converters | all | stays with TLC |

Still to be modelled: the relay with several devices and its limits; the bounds of
`ingest`; a mesh with roster gossip under `MAX_LINKS`; shares and guests.
What stays with TLC, and why, is said at the end of section 6.

## 3. The modules

Bounds are constants that stand in the guards of actions. The one state constraint is
`FewPetitions` of `MCAuthority`: what a third endorsement on the table leads to is not explored.

### 3.1 `ChamberFold` and `Authority`

`ChamberFold` holds the part of `emptyState()` that authority reads, as a record
`ChamberState`, `Authorize` (`authorize` of `js/authz.js`), one operator per trust
reducer, `NoteActivity`, and `ApplyOp`, which joins them in the order of
`applyOp`: reduce if authorised, and note the activity **whatever the verdict**.
Of a member's record the keys, the requests and the tombstone are there. `put` merges
**whatever fields the payload names**, and `authorize` screens five of them, so a
`member.upsert` or `member.presence` carries a `patch` from `Patches`, which may write out
`keys`, `pendingKeys` and `_deleted` (`MemberPut`). Abstracted: the other fields become one
Boolean (does the write name a field only the Chair may set); `member.upsert`,
`member.presence` and `member.auth` are one op with a mode; the recovery verifier is present or not
(its proofs are in `Gavel`); votes, bills and the like are the type `other`, which
only moves the activity clocks. Stamps are small numbers; `DormantFor` is
`CHAIR_DORMANT_MS`.

`Authority` folds one authenticated op per step, at a stamp that never
decreases: that is canonical order. It starts from any set of members without
keys, which is what the shipped seed leaves. History variables: `signer`, the
key of the last op, `wrote`, the seats whose keys or requests it wrote out, and
`acted`, the latest stamp each key signed. So a put of the page, which names none of these
fields, and one that does are told apart: `SeatsStayHeld` says what each may do to a seat.
A record with a put behind it may list a held key as waiting, so no invariant forbids
that; what is forbidden is that any other op brings it about.

### 3.2 `OpLog`

One replica's `Log` and the writing half of its `Store`. The ops anybody ever
writes are a sequence `world` in canonical order, drawn at the start, so an op
*is* its place; `ordered`, `disk` and the rest hold places. `Insert` is `Log.insert`,
with its two paths: appending to the state when the batch sorts after the last
op, refolding everything otherwise. A device's own ops may come back from a
peer, after a prune. `Dispatch` takes any place that is not taken, since the clock may be
behind what is held (a stamp beyond the skew, an older copy restored), and folds the op with **no kid**;
`SignAndRelease` attaches it later to the same object, and changes nothing else;
with no signer yet the op stays bare. `Restart` rebuilds from storage. `Prune` is
`findPrunable` and `prune` with its check that the state does not change.
The fold is `ChamberFold!ApplyOp` and one visible member field, so that a lost or
wrongly refused write shows; it is a recursive function over the places, so that it
can be reasoned about. What the senders put into an op of each type (`Shaped`) is an
assumption on the constant `OpKinds`.

### 3.3 `HybridClock`

`Ticked` and `Observed` are `tick` and `observe` with the clamp to `MAX_CLOCK_SKEW_MS`
and the carry of the count; `Accept` is guarded by the window of `ingest`.
`WallMoves` sets any wall clock to anything at any time. The clock's copy in
storage is written by a `Save` step of its own; `Restart` reads it, current or not.
`intact` remembers which replicas no restart has set back.

### 3.4 `RecordKeeping` and `Replication`

`RecordKeeping` says: devices keep growing sets of ops, a name (author, seq) is
given to one op, and a device learns only what some device holds.

`Replication` is how it is done. `Secure` is one end of a completed handshake
(learn the key, write `device.seen`, say hello); `Answer` is `#sendDelta`; `Sweep` the
timer; `Deliver` the whole of `store.ingest` for one op: learn from a signed
announcement, authenticate, drop duplicates, quarantine or accept, drain the
quarantine, gossip to every other link. `Dispatch` and `Release` are the two halves
of writing, `Persist` the storage that follows behind, `Restart` a reloaded tab:
storage read back, directory and links gone, a fresh announcement written.
The `vv` answered to a `hello` is the next sweep's. Two links of one pair are not
distinguished; handshakes that fail are no step (they are `Session`'s).

What chamber is looked at is itself a variable, `site`, drawn from `Sites` at the
start: its devices, who reaches whom, who writes, who is new, who has left, whose
tab reloads, whether that may happen before storage has caught up (`torn`),
whether the timer sweeps, how many links fail.

### 3.5 `Relay`

One device, its transport and the relay. Ops are 1, 2, 3, ... `Dispatch` numbers one and
starts its signature, a promise of its own, so `SignAndRelease(n)` comes in any
order. The op then goes to the open socket or into `outbox`; the second failed attempt turns to HTTP for good, where
each `drain` posts a copy of the outbox and drops **that many** from it when the
answer comes. `Push` answers the relay's vector with what the log holds above it, ops that
are not signed yet included. `Store` is `storeOps`, with its comparison to one number per author.
An op is *late* when a newer one, or a copy of itself, was handed over before it: the
relay refuses it, or keeps the copy without a signature (`bare`). The code makes no
better of it (7.13), so the properties are about the ops that are `Due`, and about what
the late ones may do to these.
`net` is `calm` (requests neither fail nor overtake each other, a closing socket
has delivered) or `harsh`.

### 3.6 `Session`

One connection, from the moment the browsers introduced its two ends, which are
named for their part: `initiator` is the smaller actor. `link` is the transport's
link, `session` the `Session` object. Every call of WebCrypto is a promise: what
a handler does after its `await` is a record in `jobs`, and the jobs of an end
finish in any order, between the frames that keep arriving. So `seal` is
`StartSeal` (the limit, the counter), perhaps `Ratchet`, and `Encrypt`, where the
outer layer takes the keys *of then*; `#secure` is `CheckConfirmation` up to its
`await` and `Secure` after it; a job of a link that was dropped runs on, as in the code.
`meeting` is what the two bring: the secrets, the rekeying limit, an end that has a reason
to refuse (no identity yet, a pin or a clock that does not fit, a device the Chair
barred), an owner who freezes the link. A key is the list of ratchet labels that made it.
Messages are the coordinator's hello, the roster, and `Chatter`.

### 3.7 `Dialling`

Two devices, `small` and `large` by actor id: the smaller places every call, the
larger asks to be rung back. `known` is the roster in localStorage and survives a page;
`link`, `dial` (tries so far; its timer is always set) and the signals under way do
not. `AttemptDial` is `#attemptDial` for both; `Wake` is `redial({reset: true})`,
`Tick` the keepalive's `redial`; `HearDial`, `HearOffer` and `HearAnswer` are
`onSignal`. An offer or answer carries the number of its call, which the code
does not read: it decides whether a connection comes up, as ICE credentials do.
`worn` is a link that took a second offer while it was up: it keeps its session, so
the handshake on the new connection throws. Timers of seconds (`Tick`, `Wake`,
`AttemptDial`, `Age`) may outrun what the network has under way, and
connections may fail by themselves, `MaxTroubles` times in all. The handshake, taken
apart in `Session`, is here a step that succeeds or throws; `#secure` is `Secure` up to its
await and `EndDial` after it, whatever has become of the link (`securing`).

### 3.8 `Floor`, `Legislature`, `Bulletin`, `Chamber`

`Floor` is what the pages of several devices have in common: the chamber's ops as one
sequence in canonical order, the ops each device knows, and their fold over the tables
(`Put` and `Settle` are the last-writer-wins and the settling merges, tombstones
included). A new op is put anywhere after those its author knew, which is all a
hybrid stamp promises. `Legislature` has the handlers of votes, ballots, proxies, bills and
sign-ons, and the tally (`Counted`), where `CloseVote` closes any vote whose button the page
ever drew (`Heard`), open or not; `Bulletin` everything that is posted, retracted,
switched, shared, barred or cleared. A handler reads its device's fold and writes; a
handler that writes several ops puts them one after the other. Words and dates are
values; keys do not change here. `Chamber` puts the two together: `FloorSpec` lets any page
write on any device, and the theorems are about it; the run `floor` is of `MCFloor`, whose
sittings are some of its behaviours.

### 3.9 `Gavel`

The dialogs of `js/auth.js` and `js/founding.js`, each flow a *task*: what it read when it
began, until the person answers or the crypto returns, and then what it writes.
`base` is the chamber one begins with; `bare` are own ops folded before they were signed;
`unlocked` what the tab's storage remembers. A recovery proof is checked against the
verifier of the moment it is ingested (`ProofHolds`), and refused for good. A device
carries one flow at a time; provisioning ends before a dialog is answered.

### 3.10 `Pairing`

Pages that load, derive a key and come up (`stage`), rooms named by who made them, the
room key and the room secret as two things (`macKey`, `secret`), invites that wait in
the order they were made, replies that take whichever waits, the mesh that forms when
a linked device brings two together, and the quarantine while a page has no room key.
The handshake and the dialling are a step each.

### 3.11 `Walkie`

The button, the prompt (`asking`), the stream, the recorder and its timer, each with the
events that come back later; the flood of a clip's chunks over `air` with the memory
`pttSeen` that forgets; assembly, the queue, and audio elements whose callbacks fire in
their own time (`sounding`). `quirks` is the browser everybody has: it denies the microphone,
refuses a recorder, garbles a clip, or reports slowly.

### 3.12 What is written in bits: `QrTables`, `QrEncode`, `QrDecode`, `QrScan`, `Poly1305`, `ChaCha`, `Sealing`, `SchemaVersions`, `Tickets`

The encoder and the decoder of QR symbols share no code and have to agree module for
module; `QrScan` prints, scratches, turns and reads. `Poly1305` is the arithmetic in limbs
of 13 bits with every carry a step; `Sealing` runs it with `ChaCha` to seal and open an
envelope. `SchemaVersions` is one device under one build after another: converters come
from its build and from endpoints it may or may not trust, ops from the network, from files
and from its own log. `Tickets` takes a session description apart and rebuilds it, with
what people do to a code in between. These are machines that do one job; `MCCodes` puts
them side by side.

## 4. The runs

| Run | Instance | Distinct states | Shows |
|---|---|---|---|
| `authority` | 2 seats, 2 keys, stamps to 2, dormancy 1, 3 patches, 2 endorsements at once | 223 000 | roster, silence of the Chair, how the gavel and seats pass |
| `oplog` | 1 seat, 2 authors, worlds of 4 ops | 292 000 | gaps, and when the projection is the fold |
| `clock` | 2 replicas, counts below 2, 3 stamps, wall to 3 | 5 100 000 | width, runaway, order |
| `replication` | six sites of 2 or 3 devices | 112 000 | soundness of records, convergence, termination, refinement |
| `delivery` | relay: 3 ops, 2 closes, 2 failures; voice: three meshes, 3 presses, clips of 1 or 2 chunks, memory of 2 | 147 000 | order, loss, draining; the microphone, who hears, silence |
| `session` | 10 meetings, one message to say | 498 000 | admission, seals, the beginning of sync, the handshake's end |
| `dialling` | 2 devices, 2 tries, 4 calls, 4 signals, 3 troubles | 50 000 | finding each other again, and leaving alone what works |
| `pairing` | 3 devices, 2 invites, 7 beginnings | 46 000 | rooms, replies, who is heard |
| `floor` | 6 sittings, 3 devices, 4 seats, 6 ops | 108 000 | tallies, tombstones, switches, stages of a bill |
| `gavel` | 8 beginnings, 3 devices, 3 seats, 6 ops | 713 000 | passwords, proofs, seats, recovery |
| `gavel_succession` | a chamber after a succession | | **violated**: 7.1 |
| `codes` | five jobs, see below | 44 000 | symbols, seals, versions, tickets |

Why the bounds are enough. *authority*: two seats make a candidate and a backer, and
two keys a Chair and a challenger, or two devices of one seat; three stamps
allow "before, during, after" a silence; the patches write nothing out, give up the keys and
lift the tombstone, or list every key as waiting; two endorsements carry a succession and a
third changes nothing here. `View` joins states that differ only in what no guard and
no property reads, each omission argued in `MCAuthority`. All of it is proved for chambers of any
size, any patches and any number of endorsements.
*oplog*: the shortest history in which order matters has three ops (claim, act, an
older op that comes late); four add a prune or a restart. All worlds of four ops are
tried, in all batches. *clock*: with counts below 2 every second step carries; the wall
passes the skew, the future window and the past window. *replication*: a relay
in the middle needs three devices, everything else two; each site lets one thing
go wrong. *delivery*: two overlapping drains need two queued ops and one more to lose, and two ops and
their signatures make every order; four were tried and change nothing; a
memory of two chunks forgets within one clip of two chunks and the next. *session*: hello,
roster and one message are three calls of `seal` at once, enough for two of them to meet
a limit of one or two while the third is under way; one thing is wrong with a meeting
at a time, each in its own initial state. The window is wider than three calls can be
reordered, as 512 is in the code; what happens beyond it is not reached. *dialling*: two
tries have a first and a last; a call lost, a call answered late and the call that replaces
them are three, and the fourth number keeps the bound from ever being what stops a
device. *pairing*: three devices make a chain and a triangle, two invites can be mixed up.
*floor*: every sitting lets one group of handlers meet (roll call, clearing, board, switches,
calendar, doors), at most three to six ops each; a device that never hears of the others
(`d3`) stands for the one that is away, and two devices share a seat. *gavel*: an opening
has at most five ops, a founding six, seats four, codes, gavel and silence three; "loss" is
without a reload during recovery; all happens within one unit of the dormancy clock.

*codes* is five jobs side by side. Symbols: the layouts of all forty versions, blocks with
every pattern of errors up to one more than the parity allows, six letters scratched and
turned; texts are code points of up to 16 bits without a byte order mark, and the choice of
a mask is looked at for one letter of version 1. Seals: 18 tasks, among them the published
vectors, lengths around a block and the edges of the field. Versions: builds 2 to 4, ops of
five versions, converters of at most two hops, a pinned endpoint and another. Tickets:
14 descriptions, two cards, six fates of a code of five glyphs.

`CHECK_DEADLOCK FALSE` stands in every configuration because bounded writers stop.

## 5. Fairness

* `Replication`: weak fairness of the timer's sweep, of a finished signature, of
  the next message of each receiver's channels, of answering a digest, and of
  redialling a peer in reach (each end). The browser runs promises, timers and
  message callbacks that are queued; channels are reliable and ordered; the
  keepalive redials. There is no fairness of writing, reloading, failing or of
  persisting. Convergence is claimed after the writers stop, which the bound on
  their ops makes happen; sites in which no link fails and no tab reloads
  converge *without* any sweep.
* `Relay` (in `MCDelivery`): every signature is made, timers fire, a connection attempt ends one way or the other,
  messages on an open socket are read, requests reach the relay and are answered unless
  they fail. Nothing makes a socket open or a request fail.
* `Walkie` (in `MCDelivery`): weak fairness of `WalkieMachine`, everything that happens without
  a person: prompts answered, timers, recorders that end, chunks that travel, players
  that report. Nobody need press or release the button.
* `Session`: promises resolve, a live channel delivers, the end of a dead one is
  noticed, an answered offer opens. Nobody need speak, fail or freeze a link.
* `Dialling`: as above for promises (the end of `#secure` among them), signals and browsers, weakly; strongly for
  timers (`Tick`, `AttemptDial`, `Age`): a `setTimeout` that is set does fire, and is only
  disabled in the model, by `Slowly`, so that signals are faster than it. `VisitedSpec`
  adds that each device is *woken* again and again (seen, back online, its relay
  back); without that the code itself does not promise to succeed: see 7.2.
* `Pairing`: weak fairness of `Machine`, the page's own steps; nobody need show or scan a
  code or open a page.
* `Gavel`: `FairSpec` only for the question whether a password brings the gavel back, and
  only in the sitting "loss": the person goes to the gate again and again and types a
  password they know (strongly fair: the dialog is open again and again), pages finish
  what they began, and sync goes on. `HeirSpec`, of the run expected to fail, is weak
  fairness of everything the heir can do, more than a person would.

The other runs (`authority`, `oplog`, `clock`, `floor`, `codes`) claim safety only.

## 6. The proofs

Everything listed under `theorems` in `PROJECT.json` holds for every value of the
constants that satisfies the modules' assumptions. The assumptions say what kind of
thing a constant is, and no more; TLC evaluates each of them. The inductive invariants
were checked by TLC on the run's instance before they were proved.

**`AuthorityProofs`**: for any seats, any keys, any dormancy period and any ops, every
property of the run `authority`: `RosterSoundness` (`RosterIsSound`), `SilenceJudgement`
(`SilenceIsJudgedRight`), `GavelByRule` (`GavelPassesByRule`), `SeatsHeld` (`SeatsStayHeld`) and
`SuccessionByTwoThirds` (`SuccessionEarned`). The
inductive invariant is

    IInv == TypeOK /\ ClocksAgree /\ ChairHasBeenSeen
            /\ ChairLastSeenCoversEveryAct /\ RosterCoherent /\ OneEndorsementPerSeat

`ChairHasBeenSeen` alone is not inductive: an op that enrols a key must be noted
as an act of the Chair, which it is because the enroller is a Chair *after* the
reducer ran, or the claimed key is the signer's own; and `acted` must be tied to
`lastOpAt` (`ClocksAgree`) so that a newly enrolled key's past is covered. `RosterCoherent` says that
keys, requests, endorsements and tombstones hang on records that exist, and stands whatever a
put writes out. Most
ops leave most of the state alone; `Frame` lemmas say what each family of reducers
leaves alone (`ByRule`: what it may do to keys and requests) and each property is proved from
those, one case per op.
`SuccessionByTwoThirds` goes through the finite set of backers: each live backer
holds a key that endorsed, so the voters include the backers, and the arithmetic
of `Needed` gives the two thirds. It uses that `Member` is finite.

**`OpLogProofs`**: for any number of ops, authors and seats, `GapsShow` (`LogShowsItsGaps`)
and `OrdinaryShown` (`OrdinaryOpsShowTrue`). The invariant is `TypeOK`, `Written` (what the
world's ops look like), `Traced` and `Numbered` (an own op that was pruned keeps its
number). `Traced` is the heart: the projection is the fold of the log with *some* set of
this device's ops taken without their signatures, those not signed yet and those that
were signed since the last refold; an own op that was pruned unsigned and comes back
signed is one of neither (`BareInTheFold`). A batch newer than the log extends such a fold
(`FoldOnto` over two stretches of places), any other batch and every restart replaces it.
A bare op does what its signed twin does if it is ordinary, and by induction along the
log (`StepByStep`) the two folds agree. That a gap shows rests on the first missing
number: below it everything is there, so it is not below the frontier. Both need the
sorted list of a set (`Ascending`) to be characterised by induction on the rank, and the
maximum of a bounded set of numbers to exist (`Least`, `Highest`).

**`OrderProofs`**, on the clocks: for any cap, skew, window and number of replicas, `ClockFollows`
(`ClockFollowsTheNear`), `StampsRise` (`OwnStampsRise`) and `NoClockRunsAway` (`NoRunaway`). The first two
rest on two lemmas on one reading (`TickedMovesOn`, `ObservedMovesOn`) and an invariant which
adds that no clock is behind a stamp its replica wrote. `NoRunaway` needs `Reined`: the
bound holds of the clock *and* of the copy in storage, and the counts consumed by ops are
charged one by one, so a restart with an older copy is no way round it.

**`OrderProofs`**, on the floor: for any devices, seats, votes, bills, papers and any number of
ops, every property of the run `floor`, of `FloorSpec`: `VotesCount` (`VotesCountRight`),
`RecordsStand` (`RecordsStandAsLeft`) and `BillsGoForward` (`BillsGoBackOnlyByAccident`). What a
device shows is a fold, so the argument has two halves.

The first is about folding *any* sequence of ops of which *any* part was heard
(`FoldStands`). One op at a time (`SessionEffect` to `ShareEffect`), and then step by step
along the sequence (`StepByStep`), each table shows the last of the ops about it: a
tombstone set stays set, a ballot is the last one cast, a share stands as granted until it is
taken back. It rests on `Fit`: what pages write is authorised wherever it is folded,
because nearly everything `authorize` asks depends on the op alone. Three kinds of op
are judged by what the fold already shows: a paper or a bill that exists is its owner's, a
share its granter's. For papers nothing is lost by a refusal; bills and shares need that
they are created once, and first.

The second is the invariant `FloorInv`: the chamber is such a sequence. Every op is `Fit`; a
share's revocation follows its only grant and is by the same device or the Chair's
(`Granted`, `GrantedOnce`); a bill's first op submits it (`Submitted`). `BillsGoForward` needs
more, of how the order came about: an op stands behind everything its author knew (`Aware`),
a move of a bill leads on from the last move its author knew of (`Stepped`), and whoever
moves a bill knows its own moves (`OwnMovesSeen`), since numbers name ops (`Numbered`) and a
device has its own (`Informed`). Then, unless two movers were unaware of each other, each
move saw all before it, ranks rise along the order (`StagesRise`), and more ops never show
an earlier stage (`NeverBack`). An insertion keeps each of these (`KeepsChronicle` to
`KeepsOwnMovesSeen`), whatever its place behind what the device knows, so a page has only
to write what `Suits`; there is one lemma for each.

**`SessionProofs`**, on one connection: for any chatter, limit, window and meetings.
`MembersOnlyGetIn` (`MembersOnly`) rests on `Shape` and `Passed`: an end is established only
after its peer's hello passed, and what a pending check will compare is what the
other end's secret makes. `SealsHold` (`SealsAreSound`, an action property) rests on two
facts. `Counted`: every job of sealing carries a counter below the end's own, and no two
the same in one epoch; a ratchet moves to an epoch nobody has sealed in. `Carried`: the
number of an envelope is waiting to be sealed, on the wire or taken, and never two
of these, so the window refuses nothing that was sealed. `NothingIsLeftBehind`
(`NothingStrands`) rests on `Flushed`: a message is put into the queue only before the link
is secured. `SyncStarts` (`SyncBegins`) adds that of the two first hellos one is heard. It
assumes `FewWords`: what an end has to say, with its hello and the roster, does not push an
envelope out of the window (512 in the code) before it is sent. The bound is tight: with one
message more TLC finds both hellos lost. An end goes through the stages of the handshake
once each (`OneWay`) and does nothing before its channel opens (`Waits`); in its first epoch
it seals no more than its words, hello and roster (`Budget`), so the window refuses
nothing; and once both ends have opened a hello `Travels` (`OnItsWay`): the end introduced
last says its own to one that is ready, and from there it is sealed, sent, taken or heard.
The last part proves `NothingOverflows` (`WidthsFit`) of `Poly1305`: a limb is at
most `Short` between blocks and `Tall` once a block was added, each product adds at most
`Step` to the upper part of a sum, and a carry stays below `Most`; in the digest a carry
runs through all limbs only if what is left of it is too small to do so again.

**`DeliveryProofs`**. *Relay*, `QueuesKept` (`QueuesAreKept`): `Ordered` on every network
(whatever waits or travels was handed over, oldest first but for late ops, and a copy
without a signature is `Behind`: of an op that is late or will be) and `Seamless` on a calm
one, which speaks of the ops that are `Due` only: the relay has stored those up to its vector,
batches under way leave no gap to what arrives before them, and what is not stored is queued or
under way. An op becomes due by being newer than all that was handed over, so nothing that
is stored, queued or sent can shut it out; and what is `Behind` never becomes due.
*Walkie*, `HandFollowed` (`MicFollowsTheHand`): `OneStream`, `HeldDown` and `Timed` tie the live
streams to the button, the prompts that are open and the timer, except after one of three
mishaps that the model records. `ClipsInTurn` (`ClipsPlayInTurn`): `Line` (queue and past
hold complete clips, each once) and `Voice` (one element sounds, and it is the one
`playing` names) unless an element reported its end twice.

**`ReplicationProofs`**: any number of devices, any site. `RecordsKept` (`RecordsAreSound`)
rests on `Dated` (every copy of an op, wherever it is, was numbered in an earlier life of
its author or is not above the author's counter), `Sealed` (an op without its signature is
on its author's device only) and `Intact` (without a torn restart storage follows the log,
so a restart numbers on). `RecordRefined` (`KeepsTheRecord`): the initial state maps to an
initial state of `RecordKeeping`, every step to a step of it or a stutter.

**`PairingProofs`**: `RoomsKeptApart` (`RoomsStayApart`) for any devices, beginnings and
invites. The gate of `ingest` is open while a page has no room key; `Kept` says why that
is harmless: a page that is up has a key, every key, derived or on its way, is of a room it
was told of, and what is in a log is of such a room. It assumes `StartsAreChambers`:
who is linked at the beginning shares a room.

**`DiallingProofs`**: `AttemptsEnd` (`AttemptsEndInLinks`) and `WorkingLinksStay`
(`WhatWorksIsLeftAlone`), for any cap, calls, signals and rosters. The second needs that nothing
is about that could move the end of a working connection: signals arrive in order
(`InTurn`), an offer on its way is of a call its receiver has not joined (`Fresh`),
each end plays the part its call gives it (`Roles`), and a secured device's attempt is
over once its `#secure` has ended (`NotReconnectingOnceSecured`, `Quiet`).

*With TLC alone.* Liveness under fairness is out of the prover's reach: `Converges`,
`GossipTerminates`, `RelayCatchesUp`, `TheAirFallsSilent`, `HandshakeSettles`,
`LiveChannelIsRebuilt`, `RepliesConnect`, `HeardIsHeld`, `PasswordRegainsTheGavel`. So is what a
recursive computation yields for every input: `ReadsWhatWasPrinted`, `SealedBytesHold`,
`CodesConnect`, and the search for a chain of converters in `RecordOutlivesBuilds`.
`ClipsAreHeardOnce` adds to `ClipsPlayInTurn` that every device in reach hears a clip, an
argument about paths through a mesh while links fail. `PasswordHoldsUp` and
`SeatedOrWaiting` speak of `Gavel`'s fold, written with `FoldLeft` and `SelectSeq`, which take
an operator and so are closed to the provers; both start from chambers (`Bases`) of which
the instance lists those that can be reached, and would need what every such fold keeps.

## 7. Where code and documents disagree

7.1 has a run that TLC must find violated, and an entry under `findings`. For 7.2 to 7.13 a
configuration or a small change to one shows the trace; the rest was met while reading.

1. **A succession without an heir** (`gavel_succession`). After a succession `chairKeys` is
   empty and `chairAuth` stays: the gate finds a password, so it does not found, and no
   Chair, so it enrols nobody (`js/auth.js:466`), though by `docs/CC-SEAL.md:611` two thirds
   "may move the gavel to another seat".
2. **A half-open call blocks its peer** (`MCDialling` with `SPECIFICATION Spec`:
   `LiveChannelIsRebuilt`). The last of the tries leaves its link in `peers`, so until the
   smaller device is woken neither its tick nor a nudge of the larger one calls
   again, though `start` says the channel is "ours to rebuild".
3. **Eager fold** (`MCOpLogEager.cfg`: `ProjectionIsTheFold`). A local op is folded before it has
   a kid; such an op passes every check and moves no clock of the Chair. Once signed it is
   not folded again, so the author's screen may show what nobody else sees until the next
   refold, against `docs/ARCHITECTURE.md` 2.5. `OrdinaryOpsShowTrue` says which ops are safe.
4. **Torn saves** (`MCReplication` with `SPECIFICATION Spec`, `Sites <- Torn`, `MaxSeq = 2`,
   `LastSeq = 4`: `OneOpPerSeq`). An op is released before its number is saved; after a crash
   the number is used again, and each device keeps the op it saw first.
5. **Prune** (`MCOpLog` with `Me = nobody`: `PruneKeepsTheRecord`). A presence op is dropped
   because a later one rewrites it; an older claim then arrives and makes the later one
   unauthorised. The member's fields are lost here and kept elsewhere, though
   `js/statetools.js:115` speaks of "ops this replica can drop without changing the folded
   state".
6. **Forgotten keys** (`MCReplication` with `Sites <- Forgets`: `Converges`). The directory is
   rebuilt only from announcements that *arrive*; those in the log lie under the frontier
   and never do, though by `docs/ARCHITECTURE.md:84` pairing with one peer converges you
   on the whole mesh.
7. **Overlapping drains** (module `Relay`, `SPECIFICATION Spec`, `MaxWrites = 3`, `MaxCloses = 0`,
   `MaxFailures = 1`, `Networks = {"harsh"}`: `QueuedUntilSent`). Two posts of one prefix, both
   dropped by length: the second drop takes ops that were never sent.
8. **A relay with a hole** (the same with `MaxCloses = 1`: `VectorShowsWhatIsMissing`): one number per author
   hides a missing op, against `worker/src/index.js:371`.
9. **One-sided ratchet** (`MCSession` with `SPECIFICATION Spec`: `WhatIsSealedIsOpened`). The end
   that reaches the limit changes the keys of both directions; the other is not told.
   Nothing either seals is opened any more, and the link stays up.
10. **The newest delegation** (`MCFloor` with `SPECIFICATION SittingSpec`:
    `LatestDelegationCounts`). A proxy once revoked never counts again, whatever is delegated
    later (`js/crdt.js:602`, against `docs/STATE.md:109`). Nothing stops a seat from delegating
    again, and `DelegateProxy` lets it; `VotesCountRight` states what the code makes of it.
11. **A microphone left on** (`MCDelivery`: `MicOnlyWhileHeld`). `startTransmit` awaits the prompt;
    a button let go meanwhile leaves the microphone live until the next release or the 30 s
    timer, and a second press makes a second stream that nobody stops, against "the
    microphone is only live while the button is held" (`js/walkie.js:8`).
12. **Newcomers unheard through a chain** (`MCPairingChain.cfg`: `NewcomersAreHeard`). What a linked
    device passes on of a newcomer does not explain it to the third (`js/sync.js:361`).
13. **Ops released out of order** (module `Relay`, `SPECIFICATION Spec`, `MaxWrites = 2`,
    `MaxCloses = 0`, `MaxFailures = 0`, `Networks = {"calm"}`: `QueuedUntilSent` with `late` left
    out of `Due`). Each op is signed by a promise of its own (`js/store.js:445`). If the second of
    two is signed first, `storeOps` takes it and refuses the first for good
    (`worker/src/index.js:244`), on the best of networks; if a vector is answered between dispatch
    and signature, the relay keeps a copy without one, which no other device accepts.

Also noticed, without a property of its own, by part:

*Authority and log.* By `js/authz.js:30-32` "only that key (or the chair) may rebind" a claimed
seat. `member.upsert` and `member.presence` write any field, `keys`, `pendingKeys` and
`_deleted` among them (`js/crdt.js:478-483`); so anybody may write out the keys of a seat nobody
has claimed, a holder may give all its keys up or list a held key as waiting, and while there is no
Chair anybody may do it to any seat with a put that names a field of the Chair's. `SeatsStayHeld`
states it so. An endorsement signed by a Chair device is counted before its
signature clears the petitions, so it may complete a succession (`js/crdt.js:612`, against
`docs/CC-SEAL.md` 17.2, "Turning up ends it"). An op written before the identity is
provisioned leaves the device unsigned for good (`js/store.js:439`). A stamp beyond the skew
is folded and the clock stays behind it (`js/crdt.js:94`). A pruned op lowers the digest,
and peers send it again (`js/crdt.js:765`).

*Links.* After the fallback to HTTP a poll only pulls, so a failed request's ops wait for the
next write (`js/sync-server.js:211`). A confirmation that arrives while `acceptHello` still
derives keys throws and drops an honest link, where the comment sees "an attack or a
version mismatch" (`js/sync-peers.js:829`). `tries >= REDIAL_BACKOFF_MS.length` in `redial` is
never true, because the last attempt deletes its counter, so a device that sorts second
nudges for ever (`js/sync-peers.js:630`, `682`). The fallback for a nudge nobody can carry
never places a call (`js/sync-peers.js:677`). A Call from a roster is tried once. A barred
device keeps its live links with everybody but the Chair, against "Device barred and
disconnected" (`js/actions.js:429`).

*Codes.* A reply scanned twice, or a stale one, takes another waiting invite and overwrites
its link (`js/sync-peers.js:1233`, against the comment at 1230). Guest shares never connect
(`js/sync-peers.js:773`, against `js/sync.js:573`), and a guest's page has no room key until it is
reloaded. The comment in `start()` of `js/sync.js` has the quarantine re-checked once the room
key lands, but the drain runs only after an accepted announcement. `redeemSeatCode` adopts
asynchronously and writes its claim at once. The derivation begun by `provision` may
overwrite an adopted key. A refused announcement of an old room leaves a gap for good, so
later ops are sent again with every sweep.

*Legislature.* A closed vote shows its frozen verdict beside a live tally (`js/views.js:438`;
`finalTally` is only written). The scorecard counts cosponsors of retracted bills, so the
comment of clear-demo is not true of it. A frozen member's ops are refused on their own
device only, and after releasing the seat they write as a visitor; `canChat` is enforced only
on the writer's page, `session.locked` nowhere (`js/actions.js:294`). `proxy.delegate` is open
for unclaimed seats. Two Chair devices that advance a bill together send it back.

*Gavel.* Founding retracts the demo's records before it claims the gavel, and a refold
refuses them (`js/founding.js:59`). `canFound` is false once `provision` has announced the key
(`js/founding.js:38`). `auth` is read before the dialog (`js/auth.js:531`). Of two devices that take
a seat at once the loser sits without key or request; `redeemSeatCode` without a record sits
without claiming. A recovery proof is refused after a concurrent change of password while
the prover stays enrolled at home (`js/store.js:680`); a reload between unlocking and
recovering leaves the tab unlocked and never enrolled. `registerChair` mints no
`chairRecovery`, against `docs/CC-SEAL.md` 17.1. `requireChair` never asks `isChairSeat`. "Your votes
count everywhere once they approve it" is not so for ballots cast earlier.

*Versions.* `js/schema.js:6`, `docs/ARCHITECTURE.md:340` and `CC-SEAL.md:291` say that ops of
a future version wait outside the fold until a converter arrives; converters only go
forward, `isFromFuture` and `isNative` are used by nothing, and such an op is folded as it is.
Older signed ops from the network are converted before their marks are checked, fail them
and are dropped. A signed older op that is imported is stored converted, with marks that no
longer hold; "the original op is always kept alongside" (`js/migrate.js:20`), but only the
converted one is stored. Two endpoints that offer the same hop race, so devices may convert
differently. `init` inserts stored ops without converting them.

*Walkie-talkie.* A refused recorder leaves the stream live. An `onstop` after its recorder was
forgotten throws, and the clip is lost. `done` is called by both `onerror` and the rejected
`play`, so two queued clips may sound at once. A clip that autoplay blocks is skipped, though
the toast asks for a tap to play it. A clip the flood guard refuses is lost.

*Seal.* `js/chacha.js` promises to "keep every product inside 2^53"; the arrays are `Uint32`, and
the folding of a sum is what keeps it below 2^32, which is what is proved.

## 8. Not modelled

* The two IndexedDB tables (`ops`, `meta`) are saved together in `Replication`; tabs
  that share a database are not there, nor is the broadcast channel between them.
* Snapshots (`compact` writes one that nothing reads), `importLog` beyond its conversion, the
  256 ops of one ingest and the 5000 of the quarantine, `MAX_LINKS`, blocked addresses.
* Cryptographic strength: signatures, handshakes, hashes and WebCrypto are ideal; the
  vault and backups are left out. The outer seal is modelled bit by bit.
* ICE candidates, glare between two mobile browsers (only one side ever offers). In
  `Replication` and `Pairing` a link is there or not.
* A browser that reports the close of a connection the page itself closed; the WebRTC
  standard has it silent.
* The relay with several devices, its broadcast, its limits and its signalling; shares and
  guests; committees, which come with the snapshot only.
* The rehashing of old seat passwords; two dialogs open on one device.
* Finding a QR symbol in a camera image: arithmetic on pixels.
* Of the walkie-talkie: the 4 MB and 200 clip bounds of its memory.
* Of tickets: a stray picture inside a code that is not compressed.
* Pages, views, cards, advice (`watchdog`, `netrules`, `notify`): they change no state that
  others read, or are sequential code with tests of their own.
