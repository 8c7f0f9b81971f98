# TLA+ specifications of pigeon-mobile

`pigeon-mobile` is a chat client: a Rust core (`src/core`) that holds all of the
protocol, the store and the MLS state, and two thin native apps (Kotlin, Swift) that call
it over a foreign-function interface. This directory holds models of the core, TLC
configurations that check them on small instances, and TLAPS proofs of their safety
properties for every instance. `PROJECT.json` maps each definition to the lines it models
and lists the runs, mutants, findings, hazards and theorems.

Run a model with `tlc -config Outbox.cfg Outbox`, a proof with `tlapm OutboxProofs.tla`.

## The system

| component | state | operations | talks to |
|---|---|---|---|
| Outbound queue (`rooms.rs`, `store.rs`) | `pending_sends`, provisional rows of `events` (the local echo), `send_lock` | `send_message`, `flush_pending`, `queue_send`, `resolve_send`, `fail_send` | homeserver (`send_event`), MLS state (encrypt), store |
| Event log and room state (`store.rs`) | `events`, `room_state`, `sync_token` | `apply_events`, `save_sync_token`, `fetch_messages`, the queries | fed by the sync loop and by opening a room |
| Sync loop (`sync.rs`) | the locals of a cycle, the backoff | `run_sync`, `apply_sync`, `apply_to_device`, `persist_sync_token` | homeserver, store, MLS state, observer of the host |
| Inbound MLS (`rooms.rs`, `e2ee.rs`) | `decrypt_state`, `decrypted` of `events`; the device's groups and their epochs | `process_inbound_mls`, `decrypt`, `process_commit`, `join_from_welcome` | store, keystore |
| Group invites (`rooms.rs`, `keys.rs`) | the hosted groups | `create_encrypted_room`, `invite`, `claim_all_devices`, `welcome_to_group` | homeserver, keystore |
| Sessions (`session.rs`) | session blob and MLS blob in the keystore | `register`, `login`, `restore_session`, `logout`, `publish_device_keys` | homeserver, keystore |
| Key backup (`session.rs`, `e2ee.rs`) | the device, replaced on restore | `backup`, `restore_backup` | homeserver |
| Chat screen (`ChatViewModel`) | the merged pages | `refresh`, `loadOlder`, `send` | the core's `timeline` |
| Sync lifecycle (`SyncController`, `RoomListRoute`) | the task handle | start and cancel `run_sync` | the core |
| HTTP client (`api.rs`) | the token | one call per endpoint, error classification | homeserver |

Media, logging, the FFI types and the room-list screens keep no state of their own worth a
model; see "Not modelled".

**What is shared.** One SQLite connection behind a mutex: each store call is atomic and
durable. One MLS device behind a mutex: each call on it is atomic in memory, and saves the
whole device to the host's keystore at its end, which can fail. One async lock,
`send_lock`, held by a pass over the queue across its awaits. Tasks are the host's: the
sync loop, one task per send, per opened room, per invite. A task loses control at each
`await`, and between any two store or device calls another thread may run. The host can
drop a task at any `await`; the process can die anywhere.

**What is hard.** The same event reaches the store from an ack, a sync batch and an opened
room, in any order. A retry may repeat a request that succeeded. The one sync token
acknowledges timelines and the to-device inbox together, and the inbox is deleted on
acknowledgement. MLS state advances in memory, in the keystore and in the message cache at
different times. Ordering matters to MLS and the store is filled out of order. An invite is
several requests per device, and nothing takes it up again when one fails. The keystore has one
slot per kind of blob, which logins, logouts and loops that have not stopped yet all write. The
chat screen keeps what it once read.

## The modules

| module | models | proofs |
|---|---|---|
| `SendQueue` | the promise of the outbound queue, without tasks or network | |
| `Outbox` | the outbound queue, its passes, the ack/sync/decrypt races; implements `SendQueue` | `OutboxProofs`, nine theorems |
| `TxnIds` | the ids of queued and one-shot sends, over retries, restarts and clock readings | `TxnIdsProofs`, one |
| `RoomState` | event log, folded state and token of one room, two writers | `RoomStateProofs`, five |
| `SyncLoop` | `run_sync`, the composite token and the Welcomes it acknowledges, the announcement | `SyncLoopProofs`, five |
| `InboundMls` | commits and messages of others in one room, epochs, concurrent decrypt passes, crashes between ratchet and cache | `InboundMlsProofs`, seven |
| `GroupInvite` | creating a room and inviting devices to it, several calls at once, each request failing | `GroupInviteProofs`, eight |
| `Session` | login, launch, logout, key publication and key backup, against the keystore's two slots and loops still running | `SessionProofs`, seven |
| `ChatView` | the rows of one room's timeline, its pages, and the chat screen that merges them | `ChatViewProofs`, eight |

The modules meet at narrow places. `Outbox`, `InboundMls` and `GroupInvite` each take the group
a device holds from the others' point of view: a Welcome that is joined, a crash that loses it,
a commit that is broadcast. `Outbox` has one id per message, which is what `TxnIds` shows
of the ids the code makes. `SyncLoop` leaves open what its passes do, which are `Outbox` and
`InboundMls`. `ChatView` takes from `Outbox` and `InboundMls` what they do to a row.

### Outbox

State: the queue, the provisional row (`echo`) and the row under the real event id (`row`)
of each message; the encryption markers the store knows and the groups the device holds;
`send_lock`, the place, snapshot and answer of each task; the requests on the wire and what
the homeserver stored. `SendMessage` is `send_message` up to the lock; `BeginPass` takes
the lock and reads `pending_sends`; for the oldest message left in the snapshot,
`SendEncrypted`, `EncryptFails` and `NoGroup` are the three results of `encrypt_for_send`,
`Hold` and `SendPlain` the two of `is_room_encrypted`, and `Acked`, `Rejected` and
`TransientError` the three arms on `send_event`'s result. `DecryptPass`, `DecryptCheck` and
`DecryptFails` are what `process_inbound_mls` does with our own ciphertext.
`Cancelled` and `Crash` may come at any point; after a crash the groups may be gone, since
`restore_or_mint_e2ee` replaces state it cannot restore.

Abstractions: a message is its own transaction id and event id (`TxnIds` has the ids). The
queue's order is a position. `queue_send` takes the clock reading and the id, of which it consists,
before it locks the store, and ids compare as text; so `QueueSend` takes any position no other
message has, and `ahead` remembers which messages of the room were queued before.
`PlainRoomsInOrder` is about messages whose positions are in the order of queueing, and the code
does not see to that: two calls at once, a clock set back, or `m..-10` against `m..-9` within a
millisecond let a later message of a plaintext room go first, although `store.rs:548` and
`rooms.rs:489` say "oldest first". Bodies are not modelled, only whether one is readable.
`Cancelled` allows a drop at places that have no `await` too; store errors end a pass there, so
nothing is added.

External: the homeserver keeps the first event of a transaction id and answers a retry
with its id; it may refuse any request, also the retry of one it stored. The repository
contradicts itself on the first half. `api.rs:456-459`, `store.rs:203-204` and `rooms.rs:719`
say that the server deduplicates on the txn id; `docs/ARCHITECTURE.md:103` says that it does not,
and `rooms.rs:499-500` and `session.rs:75-76` allow for a server that does not. `Outbox` follows the
code's comments (`StoreOnce`). So nothing here promises how often the homeserver has a message:
`SendQueue` says that verdicts are final and that what is shown as sent is stored, and
`OneReadableCopy` is about the rows of this device. `TxnIds` has both servers.

### TxnIds

State: the id of each send, in the queue's row for a queued one; the attempts made; the clock and
the two counters of the process; the attempt each send waits for; the requests on the wire; the
room's events with their ids. `FreshId` is a clock reading and a counter that is incremented
(`next_send_ids`, `next_txn_id`). `Queue` takes an id once, `Transmit` uses it in each attempt,
`SendOnce` takes one for its only attempt; `GiveUp` is a transport error or a dropped task, after
which the request may still arrive; `Restart` resets the counters and leaves the store.
`Dedup` chooses whether the homeserver looks for the id: if so, a known one is answered without
being stored (`Repeat`). `ExactlyOnce` has two halves that pull in opposite directions: an id that
changed between attempts would store a send twice, an id that two sends share would swallow one.
It holds with `Dedup` and a clock that only goes forward, and later across a restart. With
`Dedup = FALSE`, the server of `docs/ARCHITECTURE.md:103`, TLC finds a retry after a lost answer
that stores a second event: `send_lock` keeps overlapping passes from sending a message twice, but
nothing keeps a retry from it.

Left out: refusals, encryption, the order of the queue (`Outbox`), and a clock that is set back
across a restart. The code has nothing against that: an id can then come again, though
`rooms.rs:721-724` says ids must never repeat, and the homeserver drops the send, say a commit, and
answers with the earlier event.

### RoomState

State: the homeserver's stream of a room's events (each with a depth and a key), the
`events` table, the `room_state` table, the token, and the answer each of the two writers
has in hand. An event may be as deep as any before it, or one deeper, so that equal depths
and events out of depth order occur. `Folded` is `fold_state` applied to each event of a batch in turn, in closed
form. An answer is applied later than it was made, as `sync` and `messages` are awaited.

### SyncLoop

State: the homeserver's events, inbox and deletion mark; the saved token, the stored
events and the groups in the keystore; whether the session has an engine, and the groups it has in
memory; per call of `run_sync`, where it stands, its request's token, and the part of its answer still to be handled. Each step of
a cycle is an action, so that another call, the keystore, and a crash can come between any
two. `JoinUnsaved` is the join whose `persist` fails: `apply_to_device` logs it and goes
on. A later MLS operation saves the whole device and heals it (`SaveDevice`).
`PassOver` is the early return of `apply_to_device` without an engine, `JoinFails` an error of
`has_group` or of the engine on a good Welcome, before anything was joined: both leave the cycle to
save the token. At launch `restore_or_mint_e2ee` has three results, which `Crash` chooses from:
the saved state (`Restored`), no engine (`Unavailable`), or a fresh identity in place of the saved
one (`Replaced`), for which the Welcomes sent so far are no good.

`passed`, `unsaved` and `born` are history: rooms whose Welcome was passed over, groups the
keystore refused, and the Welcomes sent to earlier identities. `AckedIsDurable` and `WelcomesJoined`
name the first two as the only exceptions, and speak of Welcomes for the identity in use.

Left out: the length of the backoff, `on_status`, what `process_inbound_mls` and
`flush_pending` do (see `InboundMls` and `Outbox`).

### InboundMls

State: the room's MLS events in depth order, each a commit or a message with an epoch; the
epoch of the members and the one our Welcome is for; the `events` table (`log`, `state` for
`decrypt_state`, `text` for `decrypted`); the device in memory and in the keystore, as its
epoch and the messages whose key it has used up; per task, where it stands, what is left of
its snapshot, and the device's answer for the event it is at. `SyncApply` and `FetchApply`
put events into the log, `StartPass` is `pending_mls`; for the first event left in the
snapshot, `LeavePending` is the missing group, `ProcessCommit`, `Decrypt` and
`DecryptFails` the call on the device, and `Mark` the `set_*` call that follows it. Between any
two of these another task may step, or the process may die. An operation on the device
that changes it ends with `Saved` or `Refused`, the two results of `persist`.

`missed`, `cut` and `rolledBack` are history: events handled after a later one (where one
of the two is a commit), texts opened and dropped, and an epoch lost in a crash. The
properties use them to name the only causes of an unreadable message or a stuck group.

Abstractions: our own commits and messages are left out (see `Outbox`), and so are other
devices of our account. Commits do not conflict. `NoWelcome` may be taken although a
Welcome is there: it has not reached this answer. A fetch may be as old as it likes.

External: the MLS engine applies a commit of its own epoch only, and opens a message of its
own epoch once.

### GroupInvite

State: the host's group state in memory and in the keystore, as the set of the commits that led
to it; per call of `invite`, where it stands, the devices it has claimed a package of, those
it has still to add, and the outcome of `add_member` it is sending; the room's timeline and the
Welcomes on the homeserver; the state each invited device has joined at. `Claim` is
`claim_all_devices`, with any part of the user's devices, since those whose pool is dry are
skipped; `AddMember` merges and saves before anything is sent, `SendWelcome` and `Broadcast` are
the two requests that follow, and `Fail` their error or the call's cancellation. A commit that
was on the wire may arrive afterwards (`ArrivesLate`). `Encrypt` and `Deliver` are a message of
the outbound queue that runs meanwhile; `Crash` brings back the saved state.

Members read the room in order (`GroupAfter`): what they do when they do not is `InboundMls`.
`lost` is history: the commits nobody will broadcast.

Abstractions: members other than the host do not commit; the room is one, the devices are not
assigned to users. External: the MLS engine applies a commit to the state before it only.

### Session

State: on the homeserver, the logins, the tokens it accepts, the identity each login's device
has published and the one in each user's backup; the keystore's session and MLS slots, shared
by all accounts; the client in memory (token, identity, whether the server has confirmed the
token), and the identities of dropped clients whose sync task has not stopped. A call
is split where it awaits and where it writes: `Authenticate`, `PutSession`, `MintAtLogin`,
`Publish` are `login` with `finish_login`; `Launch` and the arms of `whoami` (`RestoreOnline`,
`RestoreOffline`, `DropDead`, `RestoreFails`) are `restore_session`; `Revoke`, `WipeSession`,
`Clear` are `logout`. Each keystore call and each request has its failing twin. `SaveDevice` and
`LateSave` are what any MLS operation of a loop does to the slot, the second after its client is
gone. `Backup` and `RestoreBackup` exchange the identity in use.

`leftover`, `unpublished` and `offline` are history: identities that stayed in or came back to
the keystore after their session, whose publication failed, or that a launch without network
minted. The properties use them to name the only exceptions.

Abstractions: an identity is a number, without its groups and KeyPackages one by one. The host
calls what its screens call: restore at launch, login when signed out, logout and backup when
signed in. Left out: the rows of the SQLite file.

### ChatView

State: the room's events on the server; the store's rows, each with its id, depth and look; the
view-model (`screen`, `loading`, `atTop`) and its reads that have a page and have not merged
it. A row's look stands for its text: hidden ciphertext, a sending or failed echo, or the
final form. `Arrive` is `apply_events` for one event, which ignores an id it has; `QueueSend`,
`ResolveSend` and `FailSend` are the three calls of the queue, with the depth an echo gets and
keeps; `Decrypt` is the decrypt pass on one row. `Refresh` and `LoadOlder` are the reads up to
the store's answer (`NewestOf` is the query's order and limit), `ShowNewest` and `ShowOlder` the
merge on the main thread afterwards, so that several reads overlap and answer in any order.

`seen`, `late` are history: what was in the store when a message was written, and what came
since the view-model exists.

`RepliesFollow` compares a message with everything in `seen`, our own messages included. A
promoted echo keeps the depth it was queued with, which is deeper than the server's if the device
had not got everything; a later message of ours that `/sync` delivers at its server depth may
then not be below it. That case, and no other, is the property's exception (`AsServed`,
`Astray`). It takes three messages of our own, and TLC meets it at once with `MaxSends = 3`. Against
events of others that arrive later nothing is claimed: a promoted echo may stay above events the
server has above it, although `store.rs:25` says that timeline order mirrors the server.

Abstractions: rows of commits are left out, as `timeline` does not select them. Every change is
announced at once; when a change is not announced is `SyncLoop`'s `ChangesAnnounced`. The iOS
view-model reads and merges in one step, a special case.

## The runs

| run | bounds | shows |
|---|---|---|
| `outbox` | 2 messages, a plaintext and an encrypted room, 1 sender and the sync task, 2 positions, 2 faults; 876 thousand states | all of `Outbox`'s properties |
| `outbox_verdict` | 1 message, 1 fault | violates `FailedMeansUnsent` |
| `txn_ids` | 2 queued and 2 one-shot sends, 2 attempts, 2 clock readings; 1.8 million states | `ExactlyOnce` |
| `roomstate` | 3 events, 2 state keys, batches of 2, 1 crash; 55 thousand states | all of `RoomState`'s properties |
| `sync` | 2 loops, 1 event, 2 Welcomes for one room, 1 fault; 552 thousand states | all of `SyncLoop`'s properties |
| `sync_lost` | 1 loop | violates `WelcomeNeverLost` |
| `inbound` | 3 events, 1 opener and the sync loop, fetches of 2, 1 fault; 617 thousand states | all of `InboundMls`'s properties |
| `inbound_order` | 3 events, fetches of 3, no fault | violates `CommitsFirst` |
| `invite` | 2 calls, 2 devices, 3 adds, 1 message, 1 fault; 370 thousand states | all of `GroupInvite`'s properties |
| `session` | 2 accounts, 2 logins, 2 restarts, 1 fault; 652 thousand states | all of `Session`'s properties |
| `chat` | 1 event, 2 messages of ours, pages of 1, 2 reads at once, 1 failed read; 515 thousand states | all of `ChatView`'s properties |
| `chat_stale` | 1 message, pages of 2, 1 read, no fault | violates `ShowsVerdict` |

**Are the bounds enough?** Two messages give an overtaking, a held message before one that
can go, and two tasks with a message each; two rooms give both kinds. Two faults give a
lost answer followed by a crash, or a cancellation during a retry; two positions are both orders.
In `TxnIds` two sends of each kind share a prefix and a counter, two readings are a millisecond
that is shared and one that is not, and leave room for one restart. In `RoomState` three
events are needed for an incumbent, an older and an equal competitor, and batches of two
for a batch that contains both. In `SyncLoop` two Welcomes for the same room are a
redelivery or a second invite, good and bad in either order; two loops interleave freely. The
fault is a launch without an engine or with a fresh identity, a refused save, an error on a good
Welcome, a lost request, or the end of a loop; with two faults, 1.5 million states, all properties
hold as well.
In `InboundMls` three events are two commits and a message, in any
order; fetches of two can leave a gap before sync has delivered the oldest; one fault is a
refused save, a failed store call or a crash at any point of two overlapping passes.
In `GroupInvite` three adds are a call that adds two devices and another that adds one between
them, and a device that is added twice; the message may be of any epoch. In `Session` two logins
of two accounts are a session and its successor on the same slots, and two restarts an
offline launch followed by one online; with two faults, 2.6 million states, the safety
properties hold as well. In `ChatView` pages of one row make every row a page boundary, so an
event and two echoes are three pages, with equal and different depths; with two messages of our
own, the first promoted at a depth of its own, the second follows it.
Safety does not rest on the bounds: all of it is proved for every value of them.

**Fairness.** `Outbox`: the sync loop keeps coming back to `flush_pending` (it runs for as
long as the app does), a task holding or waiting for the lock goes on, and the homeserver
answers a request somebody waits for (`Api::send` has no request timeout of its own except on `/sync`;
a request that never ends is outside the model). Faults are bounded, so `Drains` says: once
failures stop, the queue empties but for rooms whose group is missing. Nothing is assumed
of Welcomes, senders, decrypt passes or sync's deliveries. `RoomState`: the sync loop
steps; nobody has to open the room. `SyncLoop`: a running loop goes on and is answered, and
the host starts a loop again that it cancelled, but never one that ended with an error,
which is what both apps do. `InboundMls`: the sync loop keeps cycling and a pass that has begun
goes on (its calls are synchronous). Nothing is assumed of the openers, the other members or the
Welcome. `GroupInvite`: a call that has begun goes on or fails, the queue sends what it has
encrypted, and the invited devices run their sync loop; nobody has to invite. `Session`: a call
that has begun goes on; nothing is assumed of the user, the network or the loops. `ChatView`: a
refresh that was asked for runs and its coroutine ends; nothing is assumed of the store. `TxnIds`
has safety properties only.

`Outbox`, `RoomState` and `InboundMls` are checked for deadlock: their sync loop never stops. The
runs of the other modules are not, as those systems may stop: every loop has ended with an
error, nobody invites or signs in any more, or the bounds are used up.

Each property of a passing run has a mutant: a plausible bug in one definition, kept next
to it and marked `[mutant]`, with which TLC finds the property violated.

## What is proved

TLAPS proves, for all values of the constants that satisfy the modules' assumptions:

* `Outbox`: type correctness, `OneReadableCopy`, `OwnTextSurvives`, `NoOverlappingSend`,
  `NoDowngrade`, `PlainRoomsInOrder`, and that `Outbox` implements `SendQueue` (`Refinement`).
* `TxnIds`: `ExactlyOnce`, from `Dedup` (`SentExactlyOnce`).
* `RoomState`: type correctness, `LatestState`, `AckedIsStored`.
* `SyncLoop`: type correctness, `AckedIsDurable`, `ChangesAnnounced`.
* `InboundMls`: type correctness, `UnreadableHasCause`, `StuckHasCause`, `CachedIsSpent`.
* `GroupInvite`: type correctness, `NoFork`, `OkMeansAdded`, `StrandedOnlyByGap`,
  `UnreadOnlyAhead`.
* `Session`: type correctness, `LogoutSticks`, `KeptIsUsed`, `OwnKeys`, `PublishedIsUsed`,
  `SessionIsKept`.
* `ChatView`: type correctness, `ConfirmedStays`, `RepliesFollow`, `PagesCover`.

These are all the safety properties the passing runs check. The other theorems are stated only
in the proof modules; they are about the findings and the liveness properties, and come last here.

The argument is the same in each module: an invariant `IInv`, the conjunction of
named parts, holds initially and is kept by every action, and implies the property.

`Outbox`. `OneReadableCopy` alone is not inductive. It needs `EchoInv` (the queue row and
the echo come and go in one transaction), `RowInv` (a message that has neither is readable,
and a message about to be given up by a decrypt pass is not queued), and, since an ack must
stand for a stored event, `RequestInv` (the awaited request is the one the pass is at), which in
turn needs `LockInv` (one pass at a time) and `StampInv` (queue positions are distinct, so
"the oldest" is one message). `NoDowngrade` needs `SealInv`: the marker, once folded, stays. `PlainRoomsInOrder` needs
`OrderInv`: of the messages queued before a message and at an earlier position, those still queued
are for the same pass to do, and before it, and none is left when its request is on the wire. That
holds because a pass takes its snapshot under the lock, stops at a transient failure, and never
holds a message of a plaintext room back. A message queued later, at whatever position, is in no
such set.

`TxnIds`. An id is never shared: an id with this process's clock readings has a counter below the
current one, and one of an earlier process has an earlier reading than the start of this one.
So an id on the wire, in the queue or in the room names its send, and what is stored under it is
that send.

`RoomState`. `BatchInv` says an answer in hand continues the token without a gap and is in
the log before the token moves; with it `AckedIsStored` is inductive. `LatestState` is
inductive with type correctness.

`SyncLoop`. `Hand(l)` says that whatever a loop has in hand is already safe: the token of
its request, and `next_batch` up to the events and Welcomes it has still to handle. As every
loop's `next_batch` is safe by the time it is saved, a token that another loop moves back or
forward is safe too, which is why overlapping loops lose nothing. `MemInv` ties the groups in memory
to those in the keystore, with and without an engine; a Welcome that is passed over adds its room
to `passed` unless the device has the group.

`InboundMls`. `StreamInv` says what order the members give the events: a message comes after
the commits of all lower epochs and before all other commits. So when a pass fails to open a
message, there are three cases. The device is behind: a commit before the message is either
pending, and so overtaken now, or was consumed in vain, and `CommitInv` (which generalises
`StuckHasCause` to answers not yet written down) has its excuse. The device is ahead: by
`EpochInv` the message was pending when the device moved on. The epochs agree: the key is used
up, and `KeyInv` says the text is cached, in a task's hand, or was dropped. `MessageInv` keeps this
verdict for answers not yet written down. A snapshot two passes share needs no case of its
own, which is why passes may overlap.

`GroupInvite`. `NoFork` is inductive with `SavedInv`: what a call or the queue has in hand was
saved before, so it is a stage of the saved state, and a commit gets a number that no stage has
yet. `OkMeansAdded` needs `CallInv`: of the devices a call claimed, all but those still to add
and the one in hand have their Welcome and their commit. `StrandedOnlyByGap` rests on `Accounted`:
every commit of the host's state is on the timeline, in a call's hands or given up. A member's
state after each event is defined by recursion over the timeline; `GroupAfterEach`
unfolds it (if it failed, it would fail at a least position, where the definition
contradicts it), and so a member's state only grows and stays a stage of the saved one. If it is
short of the host's, take the commit that comes next: it is owed, or on the timeline, and then the
member has read it and did not apply it, so it was posted before one it needs. `UnreadOnlyAhead` is
the same argument at the position of the message instead of at the end.

`Session`. Each property is an invariant of the two slots. `Made` says identities are numbered
as they are minted and never reused, `Counted` that there are enough numbers: one identity per
login, and one more only for a fault, since an identity is minted at launch only when there is
none to restore. `Slots` and `Phases` say what each stage of a call has written. `KeptOwn`,
`BackupOwn` and `KeptPublished` say of the identities in the keystore and in the backup what
`OwnKeys` and `PublishedIsUsed` say of the one in use, as the next client takes it from there.

`ChatView`. `Stored` and `Placed` say what a row of the store may look like and where it is;
with them `RepliesFollow` is inductive: an echo is deeper than every row, our own included, and a
promoted echo keeps its depth; a delivered event has the server's, which is deeper than the server's
of every event it follows, and so than the row's, unless that row is an echo promoted too deep.
`Copied` says every copy in a page or on the screen is of its row's depth, and the row itself
once final, so a merge never brings back an older form of a final row: `ConfirmedStays`.
`Paged` is the key to `PagesCover`: every page and the screen have, of the rows that were there
before the view-model, all that lie above one of their own. Two such sets have a union of the
same kind, in whatever order they are read and merged, and an older page that is empty says there is
nothing below. This rests on lemmas about finite sets: a limited query in descending order
returns a set with everything above its own.

**Beyond the runs' properties.** The four findings below are violations that TLC shows on small
instances. The theorems say how far they reach, for any size:

* finding 1: without a failure - a lost or unreadable answer, a cancelled pass, a crash - no
  message the homeserver has is ever marked "not sent" (`WrongVerdictNeedsFault`; `OnceInv`: each
  message is transmitted once, and the pass at it has heard what became of it);
* finding 2: as long as the keystore has refused no group it still lacks, and no usable
  Welcome was passed over, without an engine or on an error, no acknowledged Welcome for the
  identity in use is lost, however many loops, cancellations and crashes (`LossHasCause`);
* finding 3: when nothing but the sync loop runs passes, no event is overtaken at all and commits
  come before what follows them (`InOrderAlone`, whose hypothesis is that there are no openers;
  `InOrderInv`: whatever is pending and before an event a pass has to do, the pass has to do first).
  With openers but without faults, being overtaken is the only way a message for us
  becomes undecryptable (`OnlyOrderIsLeft`);
* finding 4: every message of ours has a row that tells what became of it (`SentStays`), so what the
  screen shows as "sending" and is not has its verdict in the store: the screen is behind, and
  nothing is lost (`StaleHasVerdict`).

The rest of a liveness property, once one knows that things come to rest, is safety, and is
proved: a room whose commits have all been broadcast in order has every member who joined and read
the timeline at the host's state (`QuietMeansCaughtUp`, for `CatchUp`); when no read is left, no
change is waiting and no read has failed, every event of the store's newest page is on the screen,
in whatever order the reads ended (`NothingUnseen`, for `Shows`, by `NewestRead`: an event of the
newest page is on the screen, in the page of a read under way, or announced); and a device whose
token is at the end of the stream has of every key a deepest event the room has
(`SyncedDevicesAgree`, for `EverythingArrives`). Finally, members may have read different parts of
the timeline and missed different commits, but of two one is always at a stage of the other's
state (`OneBranch`).

**Only model-checked**: the liveness properties `Drains`, `EverythingArrives`, `WelcomesJoined`,
`Settles`, `CatchUp`, `ComesBack` and `Shows`, since TLAPS does not handle `ENABLED` and so no
fairness. No safety property is left.

**Assumptions**: those named in the modules, on the constants only, and the external parts
described above (the homeserver's deduplication, which the repository's documents dispute, its deletion of acknowledged Welcomes,
atomic and durable SQLite transactions).

## Findings

1. *"Not sent" may be wrong* (`outbox_verdict`). `Api::send` turns an unreadable 2xx body
   into `null`, `json_string` into a lasting error, and the queue gives the message up though
   its txn id would have made a retry safe.
2. *A Welcome that was not joined is acknowledged* (`sync_lost`). The token is saved whatever became
   of the batch's Welcomes. Without an engine, as when the keystore fails for the moment at launch,
   `apply_to_device` looks at none of them; an error on a good one is logged; and a join whose save
   the keystore refuses is gone with the next crash. The homeserver deletes them all.
3. *A group joined in the middle of a pass can be left behind* (`inbound_order`). The pass of
   an opened room skips a commit for want of the group; the sync loop joins it; the pass
   consumes the next commit, which does not apply, for good. Every later epoch is lost to this device.
4. *A message stays "sending" on the screen* (`chat_stale`). The merge keeps the copy it has, so a
   rejection never shows, and after an ack the confirmed message stands beside its own echo.

What the properties' exceptions say is worth knowing too. A member is stranded when one of
several invites fails between the saved commit and its broadcast, or when two invites at once
broadcast theirs in the other order (`StrandedOnlyByGap`); nothing repairs either. An identity minted by a launch without network is
never published (`PublishedIsUsed`): `session.rs:534` drops the flag that it was minted, and the
next launch takes it for a restored one, whose keys are on the server, although publishing was to
wait "for the next online session" (`session.rs:526-527`); until the next login nobody can
invite the device. A sync loop
that is still running when logout clears the keystore can put the identity back
(`LogoutSticks`), and the next account may then start from it (`OwnKeys`). A row of the same
depth as another at a page boundary is never shown (`PagesCover`). A batch is not announced when
its call is cancelled after saving the token (`ChangesAnnounced`).

## Not modelled

* **Media.** `send_image`, upload and download are one-shot calls without queue, echo or
  retry. Two things they do differently from `flush_pending` are listed as hazards: the
  marker of the room is not asked, and the author's own encrypted image cannot be shown.
* **Queries** (`list_rooms`, members, topics) only read, in one store call. The **schema
  migration** runs once, before any task.
* **The SQLite file across accounts.** `logout` keeps it; which of the rows another account
  would see is a question about each query, not about interleavings.
* **SyncController.** Its reconcile logic only decides when to start and cancel `run_sync`;
  `SyncLoop` allows every such choice.
* **FFI, errors, logging, room-list screens**: conversions, a log sink, and re-reads.
* **A batch that never parses** ends `run_sync` each time; that follows from one `?`.

## Where to go on

A composition of `GroupInvite` with `InboundMls`, so that invited devices read the room out of
order too; an abstract specification "the store's rows,
newest first, from some depth on" for `ChatView` to implement.
