-------------------------------- MODULE Outbox --------------------------------
(***************************************************************************)
(* The offline-first outbound queue of the core: send_message and          *)
(* flush_pending (rooms.rs), the pending_sends table and the local echo    *)
(* (store.rs), and the part of the decrypt pass (rooms.rs,                 *)
(* process_inbound_mls) that decides what happens to our own ciphertext.   *)
(*                                                                         *)
(* A message is queued with a provisional timeline row (its echo) in one   *)
(* SQLite transaction.  Passes over the queue are run by the sync loop and *)
(* by every send_message call, one at a time (send_lock).  A pass is split *)
(* here wherever another task can run: between the group check and the     *)
(* encryption-marker check, and across the await of send_event.            *)
(*                                                                         *)
(* External: the homeserver.  It is taken to store an event once per       *)
(* transaction id and to answer a retry with the first event's id, as      *)
(* api.rs:456-459 says.  docs/ARCHITECTURE.md:103 says that it does not;   *)
(* what holds of the client either way, and what then is not true of it,   *)
(* is the subject of TxnIds.                                               *)
(*                                                                         *)
(* An operator marked [mutant] is a plausible bug in the action after it;  *)
(* it is not part of the specification.                                    *)
(***************************************************************************)
EXTENDS Naturals

CONSTANTS
  Msgs,       \* the messages the user sends; also their transaction and event ids
  Rooms,
  EncRooms,   \* the rooms the homeserver knows as end-to-end encrypted
  Senders,    \* tasks that run send_message
  SyncTask,   \* the task that runs run_sync
  NoTask,     \* lock holder or request owner: nobody (any more)
  Stamps,     \* positions in the queue's order
  MaxFaults   \* bound: failures, cancellations and crashes in one behaviour

Tasks == Senders \cup {SyncTask}

ASSUME RoomsAssumption == Rooms # {} /\ EncRooms \subseteq Rooms
ASSUME TasksAssumption == NoTask \notin Tasks
ASSUME StampsAssumption == Stamps \subseteq Nat \ {0}
ASSUME FaultsAssumption == MaxFaults \in Nat

VARIABLES
  \* SQLite: survives a crash
  queue,    \* messages with a pending_sends row
  room,     \* the room each message is for
  stamp,    \* position in the queue's order (created_ts, txn_id); 0: never queued
  echo,     \* the provisional row of each message: "none", "sending", "failed"
  row,      \* its row under the real event id, see RowStates
  marker,   \* rooms whose p.room.encryption state event is folded
  \* host keystore: survives a crash
  group,    \* rooms whose MLS group this device holds
  \* memory
  lock,     \* the task whose pass holds send_lock
  pc,       \* where each task stands in send_message or flush_pending
  todo,     \* the part of the pending_sends snapshot its pass has still to do
  reply,    \* the answer to its request: "none", "ok", "rejected"
  dec,      \* own messages in the pending_mls snapshot of a decrypt pass
  chk,      \* those it has found no reason to leave pending
  \* outside the process
  net,      \* requests on their way
  server,   \* what the homeserver stored for each message
  \* history
  sealed,   \* messages queued when their room was already known to be encrypted
  ahead,    \* the messages of its room that were queued when a message was queued
  faults

disk == <<queue, room, stamp, echo, row, marker, group>>
pass == <<lock, pc, todo, reply>>
vars == <<queue, room, stamp, echo, row, marker, group, lock, pc, todo, reply,
          dec, chk, net, server, sealed, ahead, faults>>

Kinds == {"plain", "cipher"}     \* p.room.message, p.room.encrypted
Requests == [msg : Msgs, kind : Kinds, task : Tasks \cup {NoTask}]

\* "text": readable body; "pending": ciphertext not tried yet; "opened": ciphertext
\* with its plaintext cached; "unreadable": terminally failed, nothing cached.
RowStates == {"absent", "text", "pending", "opened", "unreadable"}

TypeOK ==
  /\ queue \subseteq Msgs
  /\ room \in [Msgs -> Rooms]
  /\ stamp \in [Msgs -> Nat]
  /\ echo \in [Msgs -> {"none", "sending", "failed"}]
  /\ row \in [Msgs -> RowStates]
  /\ marker \subseteq EncRooms
  /\ group \subseteq EncRooms
  /\ lock \in Tasks \cup {NoTask}
  /\ pc \in [Tasks -> {"idle", "lock", "pass", "marker", "sending"}]
  /\ todo \in [Tasks -> SUBSET Msgs]
  /\ reply \in [Tasks -> {"none", "ok", "rejected"}]
  /\ dec \subseteq Msgs
  /\ chk \subseteq Msgs
  /\ net \subseteq Requests
  /\ server \in [Msgs -> Kinds \cup {"none"}]
  /\ sealed \subseteq Msgs
  /\ ahead \in [Msgs -> SUBSET Msgs]
  /\ faults \in 0..MaxFaults

Init ==
  /\ queue = {}
  /\ room = [m \in Msgs |-> CHOOSE r \in Rooms : TRUE]   \* until it is queued
  /\ stamp = [m \in Msgs |-> 0]
  /\ echo = [m \in Msgs |-> "none"]
  /\ row = [m \in Msgs |-> "absent"]
  /\ marker = {} /\ group = {}
  /\ lock = NoTask
  /\ pc = [t \in Tasks |-> "idle"]
  /\ todo = [t \in Tasks |-> {}]
  /\ reply = [t \in Tasks |-> "none"]
  /\ dec = {} /\ chk = {}
  /\ net = {}
  /\ server = [m \in Msgs |-> "none"]
  /\ sealed = {} /\ ahead = [m \in Msgs |-> {}] /\ faults = 0

------------------------------------------------------------------------------
\* The queued message a pass is at: the first one left in its snapshot, in the order of
\* pending_sends.
Current(t, m) == m \in todo[t] /\ \A n \in todo[t] : stamp[m] <= stamp[n]

\* The row is gone from the queue and from this pass; the pass goes on.
NextInPass(t, m) ==
  /\ todo' = [todo EXCEPT ![t] = @ \ {m}]
  /\ pc' = [pc EXCEPT ![t] = "pass"]
  /\ reply' = [reply EXCEPT ![t] = "none"]
  /\ UNCHANGED lock

\* [mutant] Forgets to carry the text over to ciphertext that sync delivered first.
ResolveSendDropsText(m) ==
  /\ queue' = queue \ {m}
  /\ echo' = IF m \in queue THEN [echo EXCEPT ![m] = "none"] ELSE echo
  /\ row' = [row EXCEPT ![m] = IF m \in queue /\ @ = "absent" THEN "text" ELSE @]

\* Store::resolve_send, one transaction.  Sync may have delivered the real event
\* already: ciphertext then takes over the echo's text.  Otherwise the echo
\* becomes the real event.  Either way the provisional row is gone.
ResolveSend(m) ==
  /\ queue' = queue \ {m}
  /\ IF m \in queue
       THEN /\ echo' = [echo EXCEPT ![m] = "none"]
            /\ row' = [row EXCEPT ![m] = IF @ \in {"pending", "unreadable"}
                                           THEN "opened"
                                           ELSE IF @ = "absent" THEN "text" ELSE @]
       ELSE UNCHANGED <<echo, row>>

\* Store::queue_send, one transaction: the queue row and the echo.  The position is the
\* clock reading and the id, which are taken before the store is locked: another call may
\* get in between, the clock may have been set back, and ids compare as text (m..-10 is
\* before m..-9).  So it is any one no other message has.
QueueSend(m, r) ==
  /\ \E p \in Stamps : /\ \A n \in Msgs : stamp[n] # p
                        /\ stamp' = [stamp EXCEPT ![m] = p]
  /\ ahead' = [ahead EXCEPT ![m] = {n \in queue : room[n] = r}]
  /\ room' = [room EXCEPT ![m] = r]
  /\ queue' = queue \cup {m}
  /\ echo' = [echo EXCEPT ![m] = "sending"]

\* Store::fail_send, one transaction.
FailSend(m) ==
  /\ queue' = queue \ {m}
  /\ echo' = IF m \in queue THEN [echo EXCEPT ![m] = "failed"] ELSE echo
  /\ UNCHANGED row

\* The request of a task that no longer waits for it may still reach the server.
Orphan(r) == [msg |-> r.msg, kind |-> r.kind, task |-> NoTask]
Orphaned(t) == {IF r.task = t THEN Orphan(r) ELSE r : r \in net}

\* A pass ends early: its lock is released, its snapshot and request are dropped.
Abandon(t) ==
  /\ lock' = IF lock = t THEN NoTask ELSE lock
  /\ pc' = [pc EXCEPT ![t] = "idle"]
  /\ todo' = [todo EXCEPT ![t] = {}]
  /\ reply' = [reply EXCEPT ![t] = "none"]
  /\ net' = Orphaned(t)

Fault == faults < MaxFaults /\ faults' = faults + 1

------------------------------------------------------------------------------
\* send_message up to the await on send_lock: queue_send, then flush_pending.
SendMessage(t, m, r) ==
  /\ pc[t] = "idle" /\ stamp[m] = 0
  /\ QueueSend(m, r)
  /\ sealed' = IF r \in marker THEN sealed \cup {m} ELSE sealed
  /\ pc' = [pc EXCEPT ![t] = "lock"]
  /\ UNCHANGED <<row, marker, group, lock, todo, reply, dec, chk, net, server, faults>>

\* A sync cycle reaches its flush_pending.
SyncCycle ==
  /\ pc[SyncTask] = "idle"
  /\ pc' = [pc EXCEPT ![SyncTask] = "lock"]
  /\ UNCHANGED <<disk, lock, todo, reply, dec, chk, net, server, sealed, ahead, faults>>

\* [mutant] Takes no lock.
BeginPassUnlocked(t) ==
  /\ pc[t] = "lock"
  /\ lock' = t
  /\ todo' = [todo EXCEPT ![t] = queue]
  /\ pc' = [pc EXCEPT ![t] = "pass"]
  /\ UNCHANGED <<disk, reply, dec, chk, net, server, sealed, ahead, faults>>

\* The pass has send_lock and reads the queue.
BeginPass(t) ==
  /\ pc[t] = "lock" /\ lock = NoTask
  /\ lock' = t
  /\ todo' = [todo EXCEPT ![t] = queue]
  /\ pc' = [pc EXCEPT ![t] = "pass"]
  /\ UNCHANGED <<disk, reply, dec, chk, net, server, sealed, ahead, faults>>

EndPass(t) ==
  /\ pc[t] = "pass" /\ todo[t] = {}
  /\ lock' = IF lock = t THEN NoTask ELSE lock
  /\ pc' = [pc EXCEPT ![t] = "idle"]
  /\ UNCHANGED <<disk, todo, reply, dec, chk, net, server, sealed, ahead, faults>>

Transmit(t, m, k) ==
  /\ net' = net \cup {[msg |-> m, kind |-> k, task |-> t]}
  /\ pc' = [pc EXCEPT ![t] = "sending"]
  /\ UNCHANGED <<disk, lock, todo, reply, dec, chk, server, sealed, ahead, faults>>

\* encrypt_for_send finds the group: the message goes out as ciphertext.
SendEncrypted(t, m) ==
  /\ pc[t] = "pass" /\ Current(t, m)
  /\ room[m] \in group
  /\ Transmit(t, m, "cipher")

\* encrypt_for_send fails: the group does not load, or the keystore would not take
\* the new ratchet state.
EncryptFails(t, m) ==
  /\ pc[t] = "pass" /\ Current(t, m)
  /\ Fault
  /\ FailSend(m)
  /\ NextInPass(t, m)
  /\ UNCHANGED <<room, stamp, marker, group, dec, chk, net, server, sealed, ahead>>

\* encrypt_for_send finds no group: the folded room state decides.
NoGroup(t, m) ==
  /\ pc[t] = "pass" /\ Current(t, m)
  /\ room[m] \notin group
  /\ pc' = [pc EXCEPT ![t] = "marker"]
  /\ UNCHANGED <<disk, lock, todo, reply, dec, chk, net, server, sealed, ahead, faults>>

\* [mutant] A held message ends the pass, like a transient error does.
HoldEndsPass(t, m) ==
  /\ pc[t] = "marker" /\ Current(t, m)
  /\ room[m] \in marker
  /\ Abandon(t)
  /\ UNCHANGED <<disk, dec, chk, server, sealed, ahead, faults>>

\* An encrypted room: keep the message for a later pass.
Hold(t, m) ==
  /\ pc[t] = "marker" /\ Current(t, m)
  /\ room[m] \in marker
  /\ NextInPass(t, m)
  /\ UNCHANGED <<disk, dec, chk, net, server, sealed, ahead, faults>>

\* [mutant] Decides on the group alone.
SendPlainUnlessGroup(t, m) ==
  /\ pc[t] = "marker" /\ Current(t, m)
  /\ Transmit(t, m, "plain")

\* A plaintext room, as far as this store knows.
SendPlain(t, m) ==
  /\ pc[t] = "marker" /\ Current(t, m)
  /\ room[m] \notin marker
  /\ Transmit(t, m, "plain")

\* send_event returned an event id.
Acked(t, m) ==
  /\ pc[t] = "sending" /\ Current(t, m) /\ reply[t] = "ok"
  /\ ResolveSend(m)
  /\ NextInPass(t, m)
  /\ UNCHANGED <<room, stamp, marker, group, dec, chk, net, server, sealed, ahead, faults>>

\* [mutant] Takes a rejection for an ack.
RejectedAsAck(t, m) ==
  /\ pc[t] = "sending" /\ Current(t, m) /\ reply[t] = "rejected"
  /\ ResolveSend(m)
  /\ NextInPass(t, m)
  /\ UNCHANGED <<room, stamp, marker, group, dec, chk, net, server, sealed, ahead, faults>>

\* send_event returned an error that is not transient (a rejection, or a 2xx whose
\* body did not parse): fail this one and go on.
Rejected(t, m) ==
  /\ pc[t] = "sending" /\ Current(t, m) /\ reply[t] = "rejected"
  /\ FailSend(m)
  /\ NextInPass(t, m)
  /\ UNCHANGED <<room, stamp, marker, group, dec, chk, net, server, sealed, ahead, faults>>

\* [mutant] Goes on with the next message.
TransientErrorGoesOn(t) ==
  /\ pc[t] = "sending"
  /\ Fault
  /\ \E m \in Msgs : Current(t, m) /\ NextInPass(t, m)
  /\ net' = Orphaned(t)
  /\ UNCHANGED <<disk, dec, chk, server, sealed, ahead>>

\* send_event returned a transport error or a rate limit, whatever became of the
\* request and its answer: the row stays queued and the pass stops.
TransientError(t) ==
  /\ pc[t] = "sending"
  /\ Fault
  /\ Abandon(t)
  /\ UNCHANGED <<disk, dec, chk, server, sealed, ahead>>

\* The host cancels the future at an await, or a store error ends it.
Cancelled(t) ==
  /\ pc[t] # "idle"
  /\ Fault
  /\ Abandon(t)
  /\ UNCHANGED <<disk, dec, chk, server, sealed, ahead>>

\* The process dies; the next one starts from the store and the keystore.  MLS state
\* that cannot be restored is replaced by a fresh identity, which is in no group.
Crash ==
  /\ Fault
  /\ lock' = NoTask
  /\ pc' = [t \in Tasks |-> "idle"]
  /\ todo' = [t \in Tasks |-> {}]
  /\ reply' = [t \in Tasks |-> "none"]
  /\ dec' = {} /\ chk' = {}
  /\ net' = {Orphan(r) : r \in net}
  /\ group' \in {group, {}}
  /\ UNCHANGED <<queue, room, stamp, echo, row, marker, server, sealed, ahead>>

------------------------------------------------------------------------------
\* The homeserver takes a request and answers with an event id or a refusal.
Answer(r, a) ==
  /\ net' = net \ {r}
  /\ reply' = [t \in Tasks |-> IF t = r.task THEN a ELSE reply[t]]
  /\ UNCHANGED <<disk, lock, pc, todo, dec, chk, sealed, ahead>>

\* Assumed of it: it stores the first event of a transaction id, and no other.
StoreOnce(r) == server' = [server EXCEPT ![r.msg] = IF @ = "none" THEN r.kind ELSE @]

Accept(r) == StoreOnce(r) /\ Answer(r, "ok") /\ UNCHANGED faults

\* It refuses a request (we are no longer in the room).  It may do so even to the
\* retry of a request it accepted.
Refuse(r) == Answer(r, "rejected") /\ UNCHANGED <<server, faults>>

\* It stores the event and its answer is cut off after the status line: the body does
\* not parse, which Api::send turns into null and json_string into a lasting error.
AnswerCutOff(r) == StoreOnce(r) /\ Answer(r, "rejected") /\ Fault

\* A request nobody waits for gets lost.
Lose(r) ==
  /\ r.task = NoTask
  /\ net' = net \ {r}
  /\ UNCHANGED <<disk, pass, dec, chk, server, sealed, ahead, faults>>

\* Sync, or opening the room, brings in our own event: INSERT OR IGNORE.
Deliver(m) ==
  /\ server[m] # "none" /\ row[m] = "absent"
  /\ row' = [row EXCEPT ![m] = IF server[m] = "plain" THEN "text" ELSE "pending"]
  /\ UNCHANGED <<queue, room, stamp, echo, marker, group, pass, dec, chk, net,
                 server, sealed, ahead, faults>>

\* [mutant] Takes any state event for the marker.
FoldAnyMarker(r) ==
  /\ marker' = marker \cup {r}
  /\ UNCHANGED <<queue, room, stamp, echo, row, group, pass, dec, chk, net,
                 server, sealed, ahead, faults>>

\* Sync folds the room's p.room.encryption state event.
FoldMarker(r) ==
  /\ r \in EncRooms \ marker
  /\ marker' = marker \cup {r}
  /\ UNCHANGED <<queue, room, stamp, echo, row, group, pass, dec, chk, net,
                 server, sealed, ahead, faults>>

\* A Welcome is joined, or our own group created.
JoinGroup(r) ==
  /\ r \in EncRooms \ group
  /\ group' = group \cup {r}
  /\ UNCHANGED <<queue, room, stamp, echo, row, marker, pass, dec, chk, net,
                 server, sealed, ahead, faults>>

\* process_inbound_mls starts, on the sync task or on one that opens a room.
DecryptPass ==
  /\ \E m \in Msgs \ dec : row[m] = "pending"
  /\ dec' = dec \cup {m \in Msgs : row[m] = "pending"}
  /\ UNCHANGED <<disk, pass, chk, net, server, sealed, ahead, faults>>

\* [mutant] Does not look for a queued send.
DecryptCheckGroupOnly(m) ==
  /\ m \in dec
  /\ dec' = dec \ {m}
  /\ chk' = IF room[m] \in group THEN chk \cup {m} ELSE chk
  /\ UNCHANGED <<disk, pass, net, server, sealed, ahead, faults>>

\* It looks at one of our own messages: without the group, or with a send queued
\* for the room, the message stays pending.
DecryptCheck(m) ==
  /\ m \in dec
  /\ dec' = dec \ {m}
  /\ chk' = IF /\ room[m] \in group
               /\ \A n \in queue : room[n] # room[m]
              THEN chk \cup {m} ELSE chk
  /\ UNCHANGED <<disk, pass, net, server, sealed, ahead, faults>>

\* MLS cannot decrypt our own ciphertext: set_decrypt_failed.  It leaves a cached
\* plaintext in place, and a row that has one still renders it.
DecryptFails(m) ==
  /\ m \in chk
  /\ chk' = chk \ {m}
  /\ row' = [row EXCEPT ![m] = IF @ = "pending" THEN "unreadable" ELSE @]
  /\ UNCHANGED <<queue, room, stamp, echo, marker, group, pass, dec, net,
                 server, sealed, ahead, faults>>

------------------------------------------------------------------------------
PassStep(t) == \/ EndPass(t)
               \/ \E m \in Msgs : \/ SendEncrypted(t, m)
                                  \/ NoGroup(t, m) \/ Hold(t, m) \/ SendPlain(t, m)
                                  \/ Acked(t, m) \/ Rejected(t, m)

Serve == \E r \in net : r.task # NoTask /\ (Accept(r) \/ Refuse(r))

Next ==
  \/ \E t \in Senders, m \in Msgs, r \in Rooms : SendMessage(t, m, r)
  \/ SyncCycle
  \/ \E t \in Tasks : BeginPass(t) \/ PassStep(t) \/ TransientError(t) \/ Cancelled(t)
  \/ \E t \in Tasks, m \in Msgs : EncryptFails(t, m)
  \/ Crash
  \/ \E r \in net : Accept(r) \/ Refuse(r) \/ AnswerCutOff(r) \/ Lose(r)
  \/ \E m \in Msgs : Deliver(m) \/ DecryptCheck(m) \/ DecryptFails(m)
  \/ \E r \in Rooms : FoldMarker(r) \/ JoinGroup(r)
  \/ DecryptPass

\* The sync loop keeps cycling, a running pass goes on, and the homeserver answers
\* the requests a task waits for.  Nothing else is promised.
Fairness ==
  /\ WF_vars(SyncCycle)
  /\ \A t \in Tasks : WF_vars(BeginPass(t)) /\ WF_vars(PassStep(t))
  /\ WF_vars(Serve)

Spec == Init /\ [][Next]_vars
FairSpec == Spec /\ Fairness

------------------------------------------------------------------------------
\* What the author sees of a message.
Status(m) == IF stamp[m] = 0 THEN "unsent"
             ELSE IF m \in queue THEN "queued"
             ELSE IF echo[m] = "failed" THEN "failed" ELSE "confirmed"

\* A confirmed message has one row, under its real event id, with its text, and the
\* homeserver stored it; a queued one shows as sending: whichever of the ack, the sync
\* and the decrypt pass came first (resolve_send's contract), and whatever failed on the
\* way.  (A server that does not deduplicate gives a retry another event: TxnIds.)
OneReadableCopy ==
  \A m \in Msgs :
    /\ Status(m) = "confirmed" => /\ echo[m] = "none"
                                  /\ row[m] \in {"text", "opened"}
                                  /\ server[m] # "none"
    /\ Status(m) = "queued" => echo[m] = "sending"

\* Our own ciphertext is given up as unreadable only if the message itself was:
\* the decrypt pass never overtakes an ack (process_inbound_mls, has_pending_send).
OwnTextSurvives ==
  \A m \in Msgs : row[m] = "unreadable" => echo[m] = "failed"

\* A request somebody waits for is for a message still queued, and only the holder
\* of send_lock has one: no pass transmits what another has resolved.
NoOverlappingSend ==
  \A r \in net : r.task # NoTask => /\ r.msg \in queue
                                    /\ lock = r.task
                                    /\ \A q \in net : q.task # NoTask => q = r

\* A message queued when its room was known to be encrypted never leaves the device
\* as plaintext: not when held, not on a retry, not after a restart.
NoDowngrade ==
  \A m \in sealed : /\ server[m] # "plain"
                    /\ \A r \in net : r.msg = m => r.kind = "cipher"

\* A message of the room reaches the homeserver: no other one of the room that was queued
\* before it, at an earlier position, is still in the queue without having got there.
InOrder(in) ==
  \A m \in Msgs :
    (server[m] = "none" /\ server'[m] # "none" /\ m \in queue /\ room[m] = in)
      => \A n \in queue \cap ahead[m] : stamp[n] < stamp[m] => server[n] # "none"

\* In a room that is not encrypted, messages whose clock readings and ids are in the order
\* they were queued reach the homeserver in that order, whatever fails or is cancelled in
\* between, and whatever is queued meanwhile with an earlier position: a transient failure
\* stops the pass, so nothing overtakes the message it hit.  "Oldest first" (rooms.rs,
\* flush_pending) without that condition is not true of the code: see QueueSend.
PlainRoomsInOrder == [][\A r \in Rooms \ EncRooms : InOrder(r)]_vars

\* "The user sees the message didn't send" (store.rs, fail_send): a message shown as
\* failed is not on the homeserver.
FailedMeansUnsent == \A m \in Msgs : echo[m] = "failed" => server[m] = "none"

\* A queued message leaves the queue, sent or failed, unless its room's group is
\* missing: the pass of every sync cycle retries what earlier passes left.
Drains ==
  \A m \in Msgs : m \in queue ~> (m \notin queue \/ room[m] \in EncRooms \ group)

\* The queue implements its promise: both verdicts are final, and what is shown as sent
\* is on the homeserver.  How often it is there is not part of it.
Promise == INSTANCE SendQueue WITH status <- [m \in Msgs |-> Status(m)],
                                   stored <- {m \in Msgs : server[m] # "none"}
KeepsPromise == Promise!Spec

------------------------------------------------------------------------------
(* The inductive invariant behind the properties above, in named parts.        *)

Running == {"pass", "marker", "sending"}

\* send_lock is held by exactly the task whose pass is running, and only that
\* task has a snapshot, of messages that are all still queued.
LockInv ==
  \A t \in Tasks : /\ pc[t] \in Running <=> lock = t
                   /\ todo[t] \subseteq queue
                   /\ lock # t => todo[t] = {}

\* Queue positions are distinct, and a message without one has left no trace.
StampInv ==
  /\ \A m, n \in Msgs : stamp[m] = stamp[n] => m = n \/ stamp[m] = 0
  /\ \A m \in Msgs : stamp[m] = 0 => /\ m \notin queue /\ echo[m] = "none"
                                     /\ m \notin chk /\ server[m] = "none"
  /\ \A r \in net : stamp[r.msg] # 0
  /\ \A m \in Msgs : \A n \in ahead[m] : stamp[n] # 0 /\ room[n] = room[m]

\* The queue row and the provisional row come and go together.
EchoInv == \A m \in Msgs : m \in queue <=> echo[m] = "sending"

\* A request somebody waits for is the one its pass is at, and it is alone; an
\* "ok" stands for an event the homeserver has.
RequestInv ==
  /\ \A r \in net : r.task # NoTask => /\ pc[r.task] = "sending"
                                       /\ reply[r.task] = "none"
                                       /\ Current(r.task, r.msg)
  /\ \A r, q \in net : (r.task # NoTask /\ q.task # NoTask) => r = q
  /\ \A t \in Tasks : reply[t] # "none" => pc[t] = "sending"
  /\ \A t \in Tasks, m \in Msgs :
       (reply[t] = "ok" /\ Current(t, m)) => server[m] # "none"

\* Where our own events stand: a confirmed message is readable, a row under a real
\* id has an event behind it, a message about to be marked unreadable is not queued.
RowInv ==
  /\ \A m \in Msgs : (stamp[m] # 0 /\ echo[m] = "none") => row[m] \in {"text", "opened"}
  /\ \A m \in Msgs : row[m] # "absent" => server[m] # "none"
  /\ \A m \in dec : row[m] # "absent"
  /\ \A m \in chk : m \notin queue

SealInv == \A m \in sealed : room[m] \in marker /\ stamp[m] # 0

IInv == /\ TypeOK /\ LockInv /\ StampInv /\ EchoInv /\ RequestInv /\ RowInv
        /\ SealInv /\ OwnTextSurvives /\ NoDowngrade

==============================================================================
