-------------------------------- MODULE SyncLoop --------------------------------
(***************************************************************************)
(* The /sync loop (sync.rs, run_sync, apply_sync, apply_to_device,         *)
(* persist_sync_token) and what its token acknowledges.  The token is a    *)
(* composite: a position in the timelines and one in the device's          *)
(* to-device inbox.  The homeserver deletes the Welcomes of the inbox that *)
(* a request's token acknowledges, so a Welcome must be in the keystore    *)
(* before the token that covers it is saved.                               *)
(*                                                                         *)
(* The host starts and cancels run_sync; a cancelled call can still be     *)
(* running while the next one starts, so there are several Loops.  A cycle *)
(* has only two awaits, the request and flush_pending, but other loops and *)
(* a crash can come between any two of its steps.                          *)
(*                                                                         *)
(* The client may have no MLS engine: at launch the keystore may not give  *)
(* its state, nor take a fresh one (session.rs, restore_or_mint_e2ee).     *)
(* Then the loop runs all the same, and passes the Welcomes over.          *)
(*                                                                         *)
(* External: the homeserver; the MLS engine, which joins a group once.     *)
(* Time is left out, and with it the length of the backoff and on_status.  *)
(*                                                                         *)
(* An operator marked [mutant] is a plausible bug in the operator after    *)
(* it; it is not part of the specification.                                *)
(***************************************************************************)
EXTENDS Naturals, Sequences

CONSTANTS
  Loops,        \* calls of run_sync
  Rooms,        \* encrypted rooms we may be invited to
  MaxEvents,    \* bound: timeline events
  MaxWelcomes,  \* bound: Welcomes sent to this device
  MaxFaults     \* bound: failures, cancellations and crashes

ASSUME BoundsAssumption == MaxEvents \in Nat /\ MaxWelcomes \in Nat /\ MaxFaults \in Nat

VARIABLES
  events,   \* homeserver: timeline events so far
  inbox,    \* homeserver: the Welcomes sent to this device
  acked,    \* homeserver: how many of them it has deleted
  token,    \* SQLite: the saved sync token
  log,      \* SQLite: the stored events
  disk,     \* keystore: rooms whose MLS group it holds
  engine,   \* the client has its MLS engine (client.e2ee)
  mem,      \* rooms whose MLS group the engine holds in memory
  pc,       \* where each loop stands
  since,    \* the token of each loop's request
  next,     \* next_batch of the answer it has in hand
  rest,     \* the Welcomes of that answer still to be looked at
  changed,  \* whether this cycle has anything to signal
  unseen,   \* history: the store changed and the host was not told yet
  unsaved,  \* history: rooms whose group the keystore refused and never got since
  passed,   \* history: rooms with a Welcome passed over, and no group in it since
  born,     \* history: how many Welcomes were sent to identities before this one
  faults

server == <<events, inbox, acked>>
store == <<token, log, disk>>
cycle == <<since, next, rest, changed>>
device == <<engine, mem, born>>
missing == <<unsaved, passed>>
vars == <<server, store, device, pc, cycle, unseen, missing, faults>>

Tokens == [ev : 0..events, td : 0..Len(inbox)]   \* the homeserver has given out
NoToken == [ev |-> 0, td |-> 0]

Places == {"off", "ask", "wait", "apply", "join", "persist", "flush", "sleep", "ended"}

CycleOK ==
  /\ since \in [Loops -> Tokens] /\ next \in [Loops -> Tokens]
  /\ rest \in [Loops -> SUBSET (1..Len(inbox))]
  /\ changed \in [Loops -> BOOLEAN]

TypeOK ==
  /\ events \in 0..MaxEvents
  /\ inbox \in Seq([room : Rooms, good : BOOLEAN]) /\ Len(inbox) <= MaxWelcomes
  /\ acked \in 0..Len(inbox)
  /\ token \in Tokens
  /\ log \subseteq 1..events
  /\ disk \subseteq Rooms /\ mem \subseteq Rooms
  /\ unsaved \subseteq Rooms /\ passed \subseteq Rooms
  /\ engine \in BOOLEAN /\ born \in 0..Len(inbox)
  /\ pc \in [Loops -> Places] /\ CycleOK
  /\ unseen \in BOOLEAN
  /\ faults \in 0..MaxFaults

Init ==
  /\ events = 0 /\ inbox = <<>> /\ acked = 0
  /\ token = NoToken /\ log = {} /\ disk = {}
  /\ engine = TRUE /\ mem = {} /\ born = 0
  /\ pc = [l \in Loops |-> "off"]
  /\ since = [l \in Loops |-> NoToken] /\ next = [l \in Loops |-> NoToken]
  /\ rest = [l \in Loops |-> {}]
  /\ changed = [l \in Loops |-> FALSE] /\ unseen = FALSE
  /\ unsaved = {} /\ passed = {} /\ faults = 0

Fault == faults < MaxFaults /\ faults' = faults + 1
Goto(l, where) == pc' = [pc EXCEPT ![l] = where]

Forget(l) ==
  /\ since' = [since EXCEPT ![l] = NoToken] /\ next' = [next EXCEPT ![l] = NoToken]
  /\ rest' = [rest EXCEPT ![l] = {}] /\ changed' = [changed EXCEPT ![l] = FALSE]

------------------------------------------------------------------------------
\* Somebody sends an event to a room we are in.
SendEvent ==
  /\ events < MaxEvents
  /\ events' = events + 1
  /\ UNCHANGED <<inbox, acked, store, device, pc, cycle, unseen, missing, faults>>

\* A member adds this device to a room's group.  A Welcome may be no good: it does
\* not decode, or it is for a KeyPackage whose private part this device does not have.
SendWelcome(r, good) ==
  /\ Len(inbox) < MaxWelcomes
  /\ inbox' = Append(inbox, [room |-> r, good |-> good])
  /\ UNCHANGED <<events, acked, store, device, pc, cycle, unseen, missing, faults>>

Acknowledge(tok) == acked' = IF tok.td > acked THEN tok.td ELSE acked

\* The homeserver answers /sync: all that follows the request's token, except what
\* it has deleted.
Answer(l) ==
  /\ pc[l] = "wait"
  /\ Acknowledge(since[l])
  /\ next' = [next EXCEPT ![l] = [ev |-> events, td |-> Len(inbox)]]
  /\ rest' = [rest EXCEPT ![l] = {i \in 1..Len(inbox) : i > acked'}]
  /\ Goto(l, "apply")
  /\ UNCHANGED <<events, inbox, store, device, since, changed, unseen, missing, faults>>

------------------------------------------------------------------------------
\* The host calls run_sync.
Start(l) ==
  /\ pc[l] = "off"
  /\ Goto(l, "ask")
  /\ UNCHANGED <<server, store, device, cycle, unseen, missing, faults>>

\* load_sync_token, and the request leaves.
Ask(l) ==
  /\ pc[l] = "ask"
  /\ since' = [since EXCEPT ![l] = token]
  /\ Goto(l, "wait")
  /\ UNCHANGED <<server, store, device, next, rest, changed, unseen, missing, faults>>

Fetched(l) == {e \in 1..events : since[l].ev < e /\ e <= next[l].ev}

\* [mutant] Saves the token with the events, before the Welcomes.
ApplySyncAcks(l) ==
  /\ pc[l] = "apply"
  /\ log' = log \cup Fetched(l)
  /\ token' = next[l]
  /\ changed' = [changed EXCEPT ![l] = ~ Fetched(l) \subseteq log]
  /\ unseen' = (unseen \/ ~ Fetched(l) \subseteq log)
  /\ Goto(l, "join")
  /\ UNCHANGED <<server, disk, device, since, next, rest, missing, faults>>

\* apply_sync: the events are stored.  Only new ones count as a change.
ApplySync(l) ==
  /\ pc[l] = "apply"
  /\ log' = log \cup Fetched(l)
  /\ changed' = [changed EXCEPT ![l] = ~ Fetched(l) \subseteq log]
  /\ unseen' = (unseen \/ ~ Fetched(l) \subseteq log)
  /\ Goto(l, "join")
  /\ UNCHANGED <<server, token, disk, device, since, next, rest, missing, faults>>

\* apply_to_device is at Welcome i.
At(l, i) == engine /\ pc[l] = "join" /\ i \in rest[l] /\ \A j \in rest[l] : i <= j
Done(l, i) == rest' = [rest EXCEPT ![l] = @ \ {i}]

\* A Welcome the engine can use: it is good, and for the identity the device has now.
Usable(i) == inbox[i].good /\ i > born
\* The rooms whose group the device does not have, for all these Welcomes.
Missed(batch) == {inbox[i].room : i \in {j \in batch : Usable(j)}} \ (disk \cup mem)

\* No engine: apply_to_device returns before it looks at a Welcome.
PassOver(l) ==
  /\ pc[l] = "join" /\ ~ engine /\ rest[l] # {}
  /\ rest' = [rest EXCEPT ![l] = {}]
  /\ passed' = passed \cup Missed(rest[l])
  /\ UNCHANGED <<server, store, device, pc, since, next, changed, unseen, unsaved, faults>>

\* [mutant] A Welcome that cannot be used ends the batch, but not the cycle.
SkipEndsBatch(l, i) ==
  /\ At(l, i)
  /\ inbox[i].room \in mem \/ ~ Usable(i)
  /\ rest' = [rest EXCEPT ![l] = {}]
  /\ UNCHANGED <<server, store, device, pc, since, next, changed, unseen, missing, faults>>

\* The group is already there, or the Welcome is no good: it is skipped.
Skip(l, i) ==
  /\ At(l, i)
  /\ inbox[i].room \in mem \/ ~ Usable(i)
  /\ Done(l, i)
  /\ UNCHANGED <<server, store, device, pc, since, next, changed, unseen, missing, faults>>

\* has_group fails, or the engine fails to join with a good Welcome: logged and skipped.
JoinFails(l, i) ==
  /\ At(l, i) /\ Fault
  /\ passed' = passed \cup Missed({i})
  /\ Done(l, i)
  /\ UNCHANGED <<server, store, device, pc, since, next, changed, unseen, unsaved>>

\* join_from_welcome: the group is joined and the whole device state saved.
Join(l, i) ==
  /\ At(l, i)
  /\ inbox[i].room \notin mem /\ Usable(i)
  /\ mem' = mem \cup {inbox[i].room}
  /\ disk' = mem'
  /\ Done(l, i)
  /\ changed' = [changed EXCEPT ![l] = TRUE] /\ unseen' = TRUE
  /\ unsaved' = unsaved \ mem' /\ passed' = passed \ mem'
  /\ UNCHANGED <<server, token, log, engine, born, pc, since, next, faults>>

\* join_from_welcome joins the group in memory and the keystore does not take it.  The
\* error is logged and the Welcome skipped.
JoinUnsaved(l, i) ==
  /\ At(l, i)
  /\ inbox[i].room \notin mem /\ Usable(i)
  /\ Fault
  /\ mem' = mem \cup {inbox[i].room}
  /\ unsaved' = unsaved \cup {inbox[i].room}
  /\ Done(l, i)
  /\ UNCHANGED <<server, store, engine, born, pc, since, next, changed, unseen, passed>>

\* [mutant] What apply_to_device reports overwrites what apply_sync did.
JoinsDoneResets(l) ==
  /\ pc[l] = "join" /\ rest[l] = {}
  /\ Goto(l, "persist")
  /\ changed' = [changed EXCEPT ![l] = FALSE]
  /\ UNCHANGED <<server, store, device, since, next, rest, unseen, missing, faults>>

JoinsDone(l) ==
  /\ pc[l] = "join" /\ rest[l] = {}
  /\ Goto(l, "persist")
  /\ UNCHANGED <<server, store, device, cycle, unseen, missing, faults>>

\* [mutant] Counts the position instead of returning the server's token.
PersistTokenCounts(l) ==
  /\ pc[l] = "persist"
  /\ token' = [token EXCEPT !.td = @ + 1]
  /\ Goto(l, "flush")
  /\ UNCHANGED <<server, log, disk, device, cycle, unseen, missing, faults>>

\* persist_sync_token: whatever the saved token is by now, it becomes this answer's.
PersistToken(l) ==
  /\ pc[l] = "persist"
  /\ token' = next[l]
  /\ Goto(l, "flush")
  /\ UNCHANGED <<server, log, disk, device, cycle, unseen, missing, faults>>

\* process_inbound_mls and flush_pending are over: on_change if there was a change.
EndCycle(l) ==
  /\ pc[l] = "flush"
  /\ unseen' = (unseen /\ ~ changed[l])
  /\ Goto(l, "ask") /\ Forget(l)
  /\ UNCHANGED <<server, store, device, missing, faults>>

\* Some other MLS operation (a decrypt, an encrypt, an invite) saves the device state.
SaveDevice ==
  /\ engine /\ disk # mem
  /\ disk' = mem
  /\ unsaved' = unsaved \ mem /\ passed' = passed \ mem
  /\ UNCHANGED <<server, token, log, device, pc, cycle, unseen, faults>>

------------------------------------------------------------------------------
\* A transport error or a rate limit, after the homeserver may have seen the request.
Transient(l) ==
  /\ pc[l] = "wait" /\ Fault
  /\ Acknowledge(since[l]) \/ UNCHANGED acked
  /\ Goto(l, "sleep") /\ Forget(l)
  /\ UNCHANGED <<events, inbox, store, device, unseen, missing>>

Backoff(l) ==
  /\ pc[l] = "sleep"
  /\ Goto(l, "ask")
  /\ UNCHANGED <<server, store, device, cycle, unseen, missing, faults>>

\* Any other error of the request, or a store error, ends run_sync.
Fatal(l) ==
  /\ pc[l] \in {"ask", "wait", "apply", "persist", "flush"} /\ Fault
  /\ Goto(l, "ended") /\ Forget(l)
  /\ UNCHANGED <<server, store, device, unseen, missing>>

\* The host cancels: the future is dropped at one of its awaits.
Cancel(l) ==
  /\ pc[l] \in {"wait", "flush", "sleep"} /\ Fault
  /\ Goto(l, "off") /\ Forget(l)
  /\ UNCHANGED <<server, store, device, unseen, missing>>

\* restore_or_mint_e2ee at launch.  E2ee::restore finds the saved state;
Restored == engine' = TRUE /\ mem' = disk /\ UNCHANGED <<disk, missing, born>>
\* or the keystore gives none that can be used, and takes no fresh one either;
Unavailable == engine' = FALSE /\ mem' = {} /\ UNCHANGED <<disk, missing, born>>
\* or E2ee::create saves a fresh identity over it, to which no Welcome was sent yet.
Replaced ==
  /\ engine' = TRUE /\ mem' = {} /\ disk' = {}
  /\ unsaved' = {} /\ passed' = {} /\ born' = Len(inbox)

\* The process dies and is launched again; its screens read the store.
Crash ==
  /\ Fault
  /\ Restored \/ Unavailable \/ Replaced
  /\ unseen' = FALSE
  /\ pc' = [l \in Loops |-> "off"]
  /\ since' = [l \in Loops |-> NoToken] /\ next' = [l \in Loops |-> NoToken]
  /\ rest' = [l \in Loops |-> {}] /\ changed' = [l \in Loops |-> FALSE]
  /\ UNCHANGED <<server, token, log>>

Step(l) == \/ Ask(l) \/ Answer(l) \/ ApplySync(l) \/ JoinsDone(l) \/ PersistToken(l)
           \/ EndCycle(l) \/ Backoff(l) \/ PassOver(l)
           \/ \E i \in 1..Len(inbox) : Skip(l, i) \/ Join(l, i)

Next ==
  \/ SendEvent \/ SaveDevice \/ Crash
  \/ \E r \in Rooms, good \in BOOLEAN : SendWelcome(r, good)
  \/ \E l \in Loops : Start(l) \/ Step(l) \/ Transient(l) \/ Fatal(l) \/ Cancel(l)
  \/ \E l \in Loops, i \in 1..Len(inbox) : JoinUnsaved(l, i) \/ JoinFails(l, i)

Spec == Init /\ [][Next]_vars

\* A running loop goes on and its requests are answered; the host starts a loop again
\* that it cancelled, but not one that ended with an error.
FairSpec == /\ Spec
            /\ \A l \in Loops : WF_vars(Step(l))
            /\ WF_vars(\E l \in Loops : Start(l))

------------------------------------------------------------------------------
Durable(i) == Usable(i) => inbox[i].room \in disk \cup unsaved \cup passed
Safe(tok) == (\A i \in 1..tok.td : Durable(i)) /\ 1..tok.ev \subseteq log

\* What the token acknowledges survives a crash: the events are in the store, and the
\* groups of the Welcomes the device can use are in the keystore; so is all that the
\* homeserver deleted.  There are two ways out: the keystore refused the group (unsaved),
\* or apply_to_device passed the Welcome over for want of an engine or on an error
\* (passed).  This holds with several loops at once, though then the token can move back
\* (persist_sync_token, finding P2).
AckedIsDurable == Safe(token) /\ \A i \in 1..acked : Durable(i)

\* No Welcome the device can use is deleted while it has not got the group: "acking the
\* composite token never discards a Welcome ... we haven't durably applied yet" (sync.rs,
\* persist_sync_token).
WelcomeNeverLost == \A i \in 1..acked : Usable(i) => inbox[i].room \in disk \cup mem

Over == \A l \in Loops : pc[l] = "ended"

\* A Welcome the device can use is joined in the end, past bad ones and redeliveries,
\* unless the keystore refused the group, the Welcome was passed over for want of an
\* engine or on an error, the identity it was for was replaced, or every loop ended with
\* an error (apply_to_device, "never fatal").
Waiting(i) == i <= Len(inbox) /\ ~ Durable(i) /\ ~ Over
WelcomesJoined == \A i \in 1..MaxWelcomes : Waiting(i) ~> ~ Waiting(i)

\* A change of the store the host was not told of will be signalled by the call that made it
\* ("calls observer.on_change() when new events land", sync.rs): that is lost only with a
\* call that is cancelled, or ends with an error, while it has the change in hand.
Owned == unseen => \E l \in Loops : changed[l]
ChangesAnnounced ==
  [][Owned /\ ~ Owned' =>
       \E l \in Loops : changed[l] /\ pc'[l] \in {"off", "ended"}]_vars

\* A group that is not in the keystore is only in memory, and in unsaved.
MemInv ==
  /\ mem \subseteq disk \cup unsaved
  /\ engine => disk \subseteq mem
  /\ ~ engine => mem = {}

\* What a loop has in hand: its request's token is safe, and so is next_batch once the
\* events are stored and the Welcomes left to look at are joined.
Hand(l) ==
  /\ Safe(since[l])
  /\ \A i \in 1..next[l].td : i \in rest[l] \/ Durable(i)
  /\ pc[l] \in {"join", "persist"} => 1..next[l].ev \subseteq log
  /\ pc[l] = "persist" => rest[l] = {}

HandInv == MemInv /\ \A l \in Loops : Hand(l)

IInv == TypeOK /\ HandInv /\ AckedIsDurable
==============================================================================
