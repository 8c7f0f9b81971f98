------------------------------ MODULE InboundMls ------------------------------
(***************************************************************************)
(* How commits and messages of one encrypted room get from the event log   *)
(* into the MLS state and the plaintext cache (rooms.rs,                   *)
(* process_inbound_mls and fetch_messages; store.rs, pending_mls,          *)
(* set_decrypted, set_decrypt_failed, set_commit_processed; e2ee.rs,       *)
(* process_commit, decrypt, join_from_welcome; sync.rs, apply_to_device).  *)
(*                                                                         *)
(* A pass reads the pending events once and handles them in depth order.   *)
(* Passes are run by the sync loop and by every task that opens the room,  *)
(* and nothing keeps them apart: the device and the store are locked for   *)
(* one call at a time.  So a pass is split at every such call.             *)
(*                                                                         *)
(* All events are by other members; our own are in Outbox.  One member at  *)
(* a time commits (ROADMAP.md leaves conflicting commits out of scope), so *)
(* the events form one sequence, and an event is its position there.       *)
(*                                                                         *)
(* External: the homeserver; the MLS engine, which applies a commit of its *)
(* own epoch only, and opens a message of its own epoch once.              *)
(*                                                                         *)
(* An operator marked [mutant] is a plausible bug in the operator after    *)
(* it; it is not part of the specification.                                *)
(***************************************************************************)
EXTENDS Naturals, Sequences

CONSTANTS
  Openers,     \* tasks that open the room
  SyncTask,    \* the task that runs run_sync
  FetchLimit,  \* most events of a /messages answer
  MaxEvents,   \* bound: events created
  MaxFaults    \* bound: keystore and store failures, and crashes

Tasks == Openers \cup {SyncTask}

ASSUME InboundBounds == /\ FetchLimit \in Nat \ {0}
                        /\ MaxEvents \in Nat /\ MaxFaults \in Nat

VARIABLES
  stream,    \* the homeserver's MLS events of the room, in depth order
  group,     \* the epoch of the members who have applied all of them
  welcome,   \* the epoch our Welcome is for, 0 until we are invited
  \* SQLite: survives a crash
  log,       \* the events table
  state,     \* decrypt_state of each event, see States
  text,      \* the messages with a cached plaintext
  synced,    \* how far the sync loop has got
  \* host keystore: survives a crash.  Epoch 0: the group is not held.
  kept,      \* the saved device: [epoch, used]
  \* memory
  device,    \* the device: its epoch, and the messages whose key it has used up
  pc,        \* where each task stands
  todo,      \* the part of its snapshot a pass has still to do
  result,    \* what the device said of the event the pass is at
  \* history
  missed,    \* events handled after a later one, where one of the two is a commit
  cut,       \* messages whose text was opened and then dropped
  rolledBack,  \* a crash brought the device back to an earlier epoch
  faults

disk == <<log, state, text, synced>>
mls == <<kept, device>>
history == <<missed, cut, rolledBack>>
room == <<stream, group, welcome>>
vars == <<room, disk, mls, pc, todo, result, history, faults>>

Events == 1..Len(stream)
Commits == {e \in Events : stream[e].kind = "commit"}
Epoch(e) == stream[e].epoch

States == {"pending", "done", "failed"}       \* 0, DECRYPT_OK, DECRYPT_FAILED
Results == {"none", "done", "opened", "failed"}

TypeOK ==
  /\ stream \in Seq([kind : {"commit", "message"}, epoch : Nat, late : BOOLEAN])
  /\ Len(stream) <= MaxEvents
  /\ group \in Nat /\ welcome \in Nat
  /\ log \subseteq Events
  /\ state \in [1..MaxEvents -> States]
  /\ text \subseteq Events
  /\ synced \in 0..Len(stream)
  /\ kept \in [epoch : Nat, used : SUBSET Events]
  /\ device \in [epoch : Nat, used : SUBSET Events]
  /\ pc \in [Tasks -> {"idle", "join", "start", "pass", "mark"}]
  /\ todo \in [Tasks -> SUBSET Events]
  /\ result \in [Tasks -> Results]
  /\ missed \subseteq Events /\ cut \subseteq Events /\ rolledBack \in BOOLEAN
  /\ faults \in 0..MaxFaults

NoDevice == [epoch |-> 0, used |-> {}]

Init ==
  /\ stream = <<>> /\ group = 0 /\ welcome = 0
  /\ log = {} /\ state = [e \in 1..MaxEvents |-> "pending"] /\ text = {} /\ synced = 0
  /\ kept = NoDevice /\ device = NoDevice
  /\ pc = [t \in Tasks |-> "idle"]
  /\ todo = [t \in Tasks |-> {}]
  /\ result = [t \in Tasks |-> "none"]
  /\ missed = {} /\ cut = {} /\ rolledBack = FALSE /\ faults = 0

Fault == faults < MaxFaults /\ faults' = faults + 1
Goto(t, where) == pc' = [pc EXCEPT ![t] = where]

------------------------------------------------------------------------------
\* A member invites us: the Welcome leaves before the commit that adds us.
Invite ==
  /\ welcome = 0
  /\ welcome' = group + 1
  /\ UNCHANGED <<stream, group, disk, mls, pc, todo, result, history, faults>>

Send(kind, n, late) ==
  /\ Len(stream) < MaxEvents
  /\ stream' = Append(stream, [kind |-> kind, epoch |-> n, late |-> late])
  /\ UNCHANGED <<welcome, disk, mls, pc, todo, result, history, faults>>

SendCommit == Send("commit", group, FALSE) /\ group' = group + 1

\* A member who has applied every commit, or one still at the epoch before, sends a message.
SendMessage == Send("message", group, FALSE) /\ UNCHANGED group
SendLate == group > 0 /\ Send("message", group - 1, TRUE) /\ UNCHANGED group

\* A sync cycle up to apply_sync: the log follows the stream without a gap.
SyncApply(n) ==
  /\ pc[SyncTask] = "idle" /\ n >= synced
  /\ log' = log \cup 1..n
  /\ synced' = n
  /\ Goto(SyncTask, "join")
  /\ UNCHANGED <<room, state, text, mls, todo, result, history, faults>>

\* [mutant] Takes one event too many.
FetchApplyOneMore(t, n) ==
  /\ t \in Openers /\ pc[t] = "idle"
  /\ log' = log \cup {e \in 0..n : n <= e + FetchLimit}
  /\ Goto(t, "start")
  /\ UNCHANGED <<room, state, text, synced, mls, todo, result, history, faults>>

\* fetch_messages up to apply_events: the latest events, as of when it was answered.
FetchApply(t, n) ==
  /\ t \in Openers /\ pc[t] = "idle"
  /\ log' = log \cup {e \in 1..n : n < e + FetchLimit}
  /\ Goto(t, "start")
  /\ UNCHANGED <<room, state, text, synced, mls, todo, result, history, faults>>

\* persist, at the end of each operation on the device: the keystore takes the whole
\* device, or refuses it and the operation returns an error.
Saved == kept' = device' /\ UNCHANGED faults
Refused == UNCHANGED kept /\ Fault

\* apply_to_device: the Welcome is not in this answer, or the group is held already.
NoWelcome ==
  /\ pc[SyncTask] = "join"
  /\ Goto(SyncTask, "start")
  /\ UNCHANGED <<room, disk, mls, todo, result, history, faults>>

\* apply_to_device joins the group.  That the keystore refuses it is only logged.
Join ==
  /\ pc[SyncTask] = "join" /\ welcome # 0 /\ device.epoch = 0
  /\ device' = [device EXCEPT !.epoch = welcome]
  /\ Saved \/ Refused
  /\ Goto(SyncTask, "start")
  /\ UNCHANGED <<room, disk, todo, result, history>>

\* process_inbound_mls reads the pending events.
StartPass(t) ==
  /\ pc[t] = "start"
  /\ todo' = [todo EXCEPT ![t] = {e \in log : state[e] = "pending"}]
  /\ Goto(t, "pass")
  /\ UNCHANGED <<room, disk, mls, result, history, faults>>

EndPass(t) ==
  /\ pc[t] = "pass" /\ todo[t] = {}
  /\ Goto(t, "idle")
  /\ UNCHANGED <<room, disk, mls, todo, result, history, faults>>

\* The event a pass is at: the first one left.
First(t, e) == e \in todo[t] /\ \A f \in todo[t] : e <= f
At(t, e) == pc[t] = "pass" /\ First(t, e)

\* [mutant] Consumes a commit it cannot apply for want of the group.
LeavePendingConsumes(t, e) ==
  /\ At(t, e) /\ device.epoch = 0
  /\ todo' = [todo EXCEPT ![t] = @ \ {e}]
  /\ state' = IF e \in Commits THEN [state EXCEPT ![e] = "done"] ELSE state
  /\ UNCHANGED <<room, log, text, synced, mls, pc, result, history, faults>>

\* Without the group the event stays pending.
LeavePending(t, e) ==
  /\ At(t, e) /\ device.epoch = 0
  /\ todo' = [todo EXCEPT ![t] = @ \ {e}]
  /\ UNCHANGED <<room, disk, mls, pc, result, history, faults>>

\* What is pending still, and matters to the order in which e is handled.
Overtaken(e) == {d \in 1..(e - 1) : state[d] = "pending" /\ Commits \cap {d, e} # {}}

Handle(t, e, r) ==
  /\ At(t, e) /\ device.epoch # 0
  /\ result' = [result EXCEPT ![t] = r]
  /\ Goto(t, "mark")
  /\ missed' = missed \cup Overtaken(e)
  /\ UNCHANGED <<room, disk, todo, rolledBack>>

\* [mutant] The error of a commit that does not apply ends the pass.
ProcessCommitOrStop(t, e) ==
  /\ e \in Commits
  /\ IF Epoch(e) = device.epoch
       THEN /\ Handle(t, e, "done")
            /\ device' = [device EXCEPT !.epoch = @ + 1] /\ (Saved \/ Refused)
       ELSE /\ At(t, e) /\ device.epoch # 0
            /\ todo' = [todo EXCEPT ![t] = {}]
            /\ Goto(t, "idle")
            /\ UNCHANGED <<room, disk, mls, result, missed, rolledBack, faults>>
  /\ UNCHANGED cut

\* process_commit.  An error is logged, and the commit counts as processed anyway.
ProcessCommit(t, e) ==
  /\ e \in Commits
  /\ Handle(t, e, "done")
  /\ IF Epoch(e) = device.epoch
       THEN device' = [device EXCEPT !.epoch = @ + 1] /\ (Saved \/ Refused)
       ELSE UNCHANGED <<mls, faults>>
  /\ UNCHANGED cut

Opens(e) == Epoch(e) = device.epoch /\ e \notin device.used

\* [mutant] Hands the text back without saving the device.
DecryptUnsaved(t, e) ==
  /\ e \notin Commits /\ Opens(e)
  /\ device' = [device EXCEPT !.used = @ \cup {e}]
  /\ Handle(t, e, "opened")
  /\ UNCHANGED <<kept, cut, faults>>

\* decrypt opens the message: its key is gone from the device, and the text is handed
\* back once the device is saved.
Decrypt(t, e) ==
  /\ e \notin Commits /\ Opens(e)
  /\ device' = [device EXCEPT !.used = @ \cup {e}]
  /\ \/ Handle(t, e, "opened") /\ Saved /\ UNCHANGED cut
     \/ Handle(t, e, "failed") /\ Refused /\ cut' = cut \cup {e}

\* decrypt fails: another epoch, or the key was used before.
DecryptFails(t, e) ==
  /\ e \notin Commits /\ ~ Opens(e)
  /\ Handle(t, e, "failed")
  /\ UNCHANGED <<mls, cut, faults>>

\* [mutant] set_decrypt_failed also clears the cached text.
MarkClearsText(t, e) ==
  /\ pc[t] = "mark" /\ First(t, e)
  /\ state' = [state EXCEPT ![e] = IF result[t] = "failed" THEN "failed" ELSE "done"]
  /\ text' = IF result[t] = "opened" THEN text \cup {e} ELSE text \ {e}
  /\ todo' = [todo EXCEPT ![t] = @ \ {e}]
  /\ result' = [result EXCEPT ![t] = "none"]
  /\ Goto(t, "pass")
  /\ UNCHANGED <<room, log, synced, mls, history, faults>>

\* set_commit_processed, set_decrypted or set_decrypt_failed; the last leaves a cached
\* text in place, and a row that has one renders it.
Mark(t, e) ==
  /\ pc[t] = "mark" /\ First(t, e)
  /\ state' = [state EXCEPT ![e] = IF result[t] = "failed" THEN "failed" ELSE "done"]
  /\ text' = IF result[t] = "opened" THEN text \cup {e} ELSE text
  /\ todo' = [todo EXCEPT ![t] = @ \ {e}]
  /\ result' = [result EXCEPT ![t] = "none"]
  /\ Goto(t, "pass")
  /\ UNCHANGED <<room, log, synced, mls, history, faults>>

\* The messages whose text some tasks hold and have not cached.
InHand(tasks) == {e \in Events : \E t \in tasks : result[t] = "opened" /\ First(t, e)}

\* A store error ends the pass.
StoreFails(t) ==
  /\ pc[t] \in {"start", "mark"} /\ Fault
  /\ cut' = cut \cup InHand({t})
  /\ Goto(t, "idle")
  /\ todo' = [todo EXCEPT ![t] = {}]
  /\ result' = [result EXCEPT ![t] = "none"]
  /\ UNCHANGED <<room, disk, mls, missed, rolledBack>>

\* The process dies; the next one restores the device from the keystore.
Crash ==
  /\ Fault
  /\ device' = kept
  /\ rolledBack' = (rolledBack \/ kept.epoch # device.epoch)
  /\ cut' = cut \cup InHand(Tasks)
  /\ pc' = [t \in Tasks |-> "idle"]
  /\ todo' = [t \in Tasks |-> {}]
  /\ result' = [t \in Tasks |-> "none"]
  /\ UNCHANGED <<room, disk, kept, missed>>

PassStep(t) ==
  \/ StartPass(t) \/ EndPass(t)
  \/ \E e \in Events : \/ LeavePending(t, e) \/ ProcessCommit(t, e)
                       \/ Decrypt(t, e) \/ DecryptFails(t, e) \/ Mark(t, e)

Next ==
  \/ Invite \/ NoWelcome \/ Join \/ Crash
  \/ SendCommit \/ SendMessage \/ SendLate
  \/ \E n \in 0..Len(stream) : SyncApply(n) \/ \E t \in Openers : FetchApply(t, n)
  \/ \E t \in Tasks : PassStep(t) \/ StoreFails(t)

Spec == Init /\ [][Next]_vars

\* The sync loop keeps cycling, and a pass that has started goes on.
FairSpec == /\ Spec
            /\ WF_vars(NoWelcome \/ Join \/ \E n \in 0..Len(stream) : SyncApply(n))
            /\ \A t \in Tasks : WF_vars(PassStep(t))

------------------------------------------------------------------------------
\* A message sent after we were added, by a member who had applied every commit before it:
\* in order, the device can open it.
Ours(e) == /\ e \notin Commits /\ ~ stream[e].late
           /\ welcome # 0 /\ welcome <= Epoch(e)

Unreadable(e) == state[e] = "failed" /\ e \notin text /\ e \notin InHand(Tasks)

Excused(e) == rolledBack \/ e \in missed \/ \E d \in missed \cap Commits : d < e

\* A message for us is shown as undecryptable only because its text was opened and
\* then dropped (the keystore or the store failed, or the process died between decrypt
\* and set_decrypted), because an event up to it was overtaken, or because a crash
\* rolled the epoch back.  Two passes at once lose nothing.
UnreadableHasCause == \A e \in log : (Ours(e) /\ Unreadable(e)) => (e \in cut \/ Excused(e))

\* A commit that would still advance the device is consumed, and the group stuck at its
\* epoch for good, only for the last two of these reasons.
StuckHasCause ==
  \A c \in Commits : (state[c] = "done" /\ device.epoch # 0 /\ Epoch(c) >= device.epoch)
                       => Excused(c)

\* A message whose text is cached can be opened by nobody from the keystore any more:
\* the ratchet step is saved before the text is (e2ee.rs, decrypt).
CachedIsSpent == text \subseteq kept.used

\* The rest of the inductive invariant, see InboundMlsProofs.

\* Commits of all epochs below an event's precede it; no other does, unless it is late.
StreamInv ==
  /\ \A c \in Commits : ~ stream[c].late /\ Epoch(c) < group
  /\ \A e \in Events : Epoch(e) <= group
  /\ \A n \in 0..(group - 1) : \E c \in Commits : Epoch(c) = n
  /\ \A e \in Events : ~ stream[e].late =>
       /\ \A n \in 0..(Epoch(e) - 1) : \E c \in Commits : c < e /\ Epoch(c) = n
       /\ \A c \in Commits : c < e => Epoch(c) < Epoch(e)

\* What the device said of the event a pass is at.
Says(t, e, r) == result[t] = r /\ First(t, e)

PassInv ==
  \A t \in Tasks :
    /\ pc[t] = "mark" <=> result[t] # "none"
    /\ \A e \in Events : /\ Says(t, e, "done") => e \in Commits
                         /\ Says(t, e, "opened") => e \notin Commits
                         /\ Says(t, e, "failed") => e \notin Commits

\* A used-up key has left a text, or the text was dropped.
KeyInv ==
  /\ kept.used \subseteq device.used
  /\ device.used \subseteq text \cup cut \cup InHand(Tasks)
  /\ InHand(Tasks) \subseteq kept.used
  /\ \A e \in Events \ Commits : state[e] = "done" => e \in text

\* The device has not left the epoch of a pending message behind.
EpochInv ==
  \/ rolledBack
  \/ /\ device.epoch <= group \/ device.epoch = welcome
     /\ device.epoch = 0 => (\A e \in Events : state[e] = "pending")
                              /\ (\A t \in Tasks : result[t] = "none")
     /\ \A e \in Events : (Ours(e) /\ state[e] = "pending" /\ Epoch(e) < device.epoch)
                            => e \in missed

Handled(e) == state[e] # "pending" \/ \E t \in Tasks : Says(t, e, "done")
CommitInv == \A c \in Commits :
               (Handled(c) /\ device.epoch # 0 /\ Epoch(c) >= device.epoch) => Excused(c)

Accounted(e) == e \in text \cup cut \cup InHand(Tasks) \/ Excused(e)
Failed(e) == state[e] = "failed" \/ \E t \in Tasks : Says(t, e, "failed")
MessageInv == \A e \in Events : (Ours(e) /\ Failed(e)) => Accounted(e)

FreshInv == \A e \in 1..MaxEvents : state[e] # "pending" => e \in Events

\* Once the group is held, whatever is in the log is handled in the end, past commits and
\* messages that do not apply.
Waiting(e) == e \in log /\ state[e] = "pending" /\ device.epoch # 0
Settles == \A e \in 1..MaxEvents : Waiting(e) ~> ~ Waiting(e)

\* "a commit that changes the epoch is applied before the encrypted messages that follow
\* it" (rooms.rs, process_inbound_mls): no event is consumed before a commit it needs.
CommitsFirst ==
  [][\A e \in Events : (state[e] = "pending" /\ state'[e] # "pending") =>
       \A c \in Commits : (c < e /\ Epoch(c) >= welcome) => state[c] # "pending"]_vars
===============================================================================
