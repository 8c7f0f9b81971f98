------------------------------ MODULE GroupInvite ------------------------------
(***************************************************************************)
(* Creating an encrypted room and inviting people to it, by one device     *)
(* that hosts the room's MLS group (rooms.rs, create_encrypted_room,       *)
(* invite, welcome_to_group, encrypt_for_send; keys.rs, claim_all_devices; *)
(* e2ee.rs, create_group, add_member, encrypt, has_group; api.rs).         *)
(*                                                                         *)
(* Several calls of invite may run at once, and the outbound queue may     *)
(* send while they do.  A call is split at its awaits: the server invite,  *)
(* the claims, and then for each device add_member, the Welcome and the    *)
(* commit.  Each await may fail or be cancelled, and the process may end.  *)
(*                                                                         *)
(* A group state is the set of the commits that led to it.  Commits are    *)
(* numbered in the order they are made, and 0 is the group's creation; the *)
(* empty set is no group.                                                  *)
(*                                                                         *)
(* External: the homeserver; the MLS engine; the other devices, which read *)
(* the room's events in order (how they do is InboundMls).  Members other  *)
(* than the host do not commit: ROADMAP.md leaves conflicting commits out. *)
(*                                                                         *)
(* An operator marked [mutant] is a plausible bug in the operator after    *)
(* it; it is not part of the specification.                                *)
(***************************************************************************)
EXTENDS Naturals, Sequences

CONSTANTS
  MaxCalls,    \* bound: calls of invite
  Devices,     \* the devices of the users who are invited
  MaxAdds,     \* bound: calls of add_member
  MaxMessages, \* bound: messages the host encrypts
  MaxFaults    \* bound: failures, cancellations and crashes

ASSUME InviteBounds ==
  MaxCalls \in Nat /\ MaxAdds \in Nat /\ MaxMessages \in Nat /\ MaxFaults \in Nat

VARIABLES
  \* the host
  device,    \* the group state in memory
  saved,     \* the group state in the keystore
  made,      \* commits made so far
  pc,        \* where each call stands
  todo,      \* the claimed devices a call has still to add
  hand,      \* the outcome of add_member a call is sending: [to, at]
  sending,   \* the group state of the ciphertext flush_pending is sending
  sent,      \* messages encrypted so far
  \* the homeserver
  roomMade,  \* the room exists
  timeline,  \* its commits and messages: [kind, at], at = the state it leads to or is for
  welcomes,  \* to-device Welcomes: [to, at]
  \* the invited devices
  joined,    \* the group state their Welcome was for
  \* history
  claimed,   \* the devices a call has claimed a package of
  lost,      \* commits nobody will broadcast: [at, out], out = the request had been sent
  faults

host == <<device, saved, made>>
call == <<pc, todo, hand, claimed>>
outbox == <<sending, sent>>
server == <<roomMade, timeline, welcomes>>
vars == <<host, call, outbox, server, joined, lost, faults>>

Calls == 1..MaxCalls       \* in the order in which they are made
States == SUBSET (0..MaxAdds)
Positions == 1..Len(timeline)
Nobody == [to |-> "nobody", at |-> {}]
Active == {"claim", "add", "welcome", "commit"}

TypeOK ==
  /\ device \in States /\ saved \in States /\ made \in 0..MaxAdds
  /\ pc \in [Calls -> {"idle", "ok", "err"} \cup Active]
  /\ todo \in [Calls -> SUBSET Devices] /\ claimed \in [Calls -> SUBSET Devices]
  /\ hand \in [Calls -> [to : Devices, at : States] \cup {Nobody}]
  /\ sending \in States /\ sent \in 0..MaxMessages
  /\ roomMade \in BOOLEAN
  /\ timeline \in Seq([kind : {"commit", "message"}, at : States])
  /\ welcomes \subseteq [to : Devices, at : States]
  /\ joined \in [Devices -> States]
  /\ lost \subseteq [at : States, out : BOOLEAN] /\ faults \in 0..MaxFaults

Init ==
  /\ device = {} /\ saved = {} /\ made = 0
  /\ pc = [c \in Calls |-> "idle"]
  /\ todo = [c \in Calls |-> {}] /\ claimed = [c \in Calls |-> {}]
  /\ hand = [c \in Calls |-> Nobody]
  /\ sending = {} /\ sent = 0
  /\ roomMade = FALSE /\ timeline = <<>> /\ welcomes = {}
  /\ joined = [d \in Devices |-> {}]
  /\ lost = {} /\ faults = 0

Goto(c, where) == pc' = [pc EXCEPT ![c] = where]

\* Calls C return or are dropped: their locals are gone.
End(C, where) ==
  /\ pc' = [c \in Calls |-> IF c \in C THEN where ELSE pc[c]]
  /\ todo' = [c \in Calls |-> IF c \in C THEN {} ELSE todo[c]]
  /\ hand' = [c \in Calls |-> IF c \in C THEN Nobody ELSE hand[c]]
  /\ claimed' = [c \in Calls |-> IF c \in C /\ where = "err" THEN {} ELSE claimed[c]]

Fault == faults < MaxFaults /\ faults' = faults + 1

\* s is an earlier stage of t: the same commits up to a point, and t has later ones.
Leads(s, t) == s \subseteq t /\ \A x \in s, y \in t \ s : x < y
Last(s) == CHOOSE x \in s : \A y \in s : y <= x
Before(s) == s \ {Last(s)}

\* Where the commit that leads to s stands in the timeline.
Posted(s) == {i \in Positions : timeline[i] = [kind |-> "commit", at |-> s]}

------------------------------------------------------------------------------
\* create_encrypted_room: the server makes the room, then the group is created and saved.
CreateRoom ==
  /\ ~ roomMade
  /\ roomMade' = TRUE
  /\ device' = {0} /\ saved' = {0}
  /\ UNCHANGED <<made, call, outbox, timeline, welcomes, joined, lost, faults>>

\* The answer of createRoom or the saved state is missing: the room is there without its group.
CreateRoomFails ==
  /\ ~ roomMade /\ Fault
  /\ roomMade' = TRUE
  /\ device' \in {{}, {0}}
  /\ UNCHANGED <<saved, made, call, outbox, timeline, welcomes, joined, lost>>

\* invite: the server invite, then the check whether we hold the group.
Invite(c) ==
  /\ pc[c] = "idle" /\ roomMade /\ \A k \in 1..(c - 1) : pc[k] # "idle"
  /\ Goto(c, IF device = {} THEN "ok" ELSE "claim")
  /\ UNCHANGED <<host, todo, hand, claimed, outbox, server, joined, lost, faults>>

\* keys/query and keys/claim: call c takes one package of each of the devices D.
Take(c, D) == todo' = [todo EXCEPT ![c] = D] /\ claimed' = [claimed EXCEPT ![c] = D]

\* [mutant] A device whose pool is dry is put on the list too.
ClaimDry(c, D) ==
  /\ pc[c] = "claim"
  /\ todo' = [todo EXCEPT ![c] = D \cup {"dry"}] /\ claimed' = [claimed EXCEPT ![c] = D]
  /\ Goto(c, "add")
  /\ UNCHANGED <<host, hand, outbox, server, joined, lost, faults>>

\* claim_all_devices: one package of each of the user's devices that has one left.
Claim(c, D) ==
  /\ pc[c] = "claim"
  /\ Take(c, D) /\ Goto(c, "add")
  /\ UNCHANGED <<host, hand, outbox, server, joined, lost, faults>>

\* [mutant] The new group state is saved after the Welcome and the commit have left.
AddMemberUnsaved(c, d) ==
  /\ pc[c] = "add" /\ d \in todo[c] /\ device # {} /\ made < MaxAdds
  /\ made' = made + 1 /\ device' = device \cup {made'}
  /\ todo' = [todo EXCEPT ![c] = @ \ {d}]
  /\ hand' = [hand EXCEPT ![c] = [to |-> d, at |-> device']]
  /\ Goto(c, "welcome")
  /\ UNCHANGED <<saved, claimed, outbox, server, joined, lost, faults>>

\* add_member: our commit is merged and the device saved before anything is sent.
AddMember(c, d) ==
  /\ pc[c] = "add" /\ d \in todo[c] /\ device # {} /\ made < MaxAdds
  /\ made' = made + 1 /\ device' = device \cup {made'} /\ saved' = device'
  /\ todo' = [todo EXCEPT ![c] = @ \ {d}]
  /\ hand' = [hand EXCEPT ![c] = [to |-> d, at |-> device']]
  /\ Goto(c, "welcome")
  /\ UNCHANGED <<claimed, outbox, server, joined, lost, faults>>

\* add_member fails in the engine, or after the merge because the device cannot be saved.
AddMemberFails(c) ==
  /\ pc[c] = "add" /\ todo[c] # {} /\ Fault
  /\ \/ UNCHANGED <<device, made, lost>>
     \/ /\ device # {} /\ made < MaxAdds
        /\ made' = made + 1 /\ device' = device \cup {made'}
        /\ lost' = lost \cup {[at |-> device', out |-> FALSE]}
  /\ End({c}, "err")
  /\ UNCHANGED <<saved, outbox, server, joined>>

\* sendToDevice: the homeserver keeps the Welcome for its device.
SendToDevice(w) == welcomes' = welcomes \cup {w}

SendWelcome(c) ==
  /\ pc[c] = "welcome"
  /\ SendToDevice(hand[c])
  /\ Goto(c, "commit")
  /\ UNCHANGED <<host, todo, hand, claimed, outbox, roomMade, timeline, joined, lost, faults>>

Post(kind, s) == timeline' = Append(timeline, [kind |-> kind, at |-> s])

\* [mutant] The commit is broadcast for the last device of a user only.
BroadcastLast(c) ==
  /\ pc[c] = "commit"
  /\ IF todo[c] = {} THEN Post("commit", hand[c].at) ELSE UNCHANGED timeline
  /\ Goto(c, "add") /\ hand' = [hand EXCEPT ![c] = Nobody]
  /\ UNCHANGED <<host, todo, claimed, outbox, roomMade, welcomes, joined, lost, faults>>

Broadcast(c) ==
  /\ pc[c] = "commit"
  /\ Post("commit", hand[c].at)
  /\ Goto(c, "add") /\ hand' = [hand EXCEPT ![c] = Nobody]
  /\ UNCHANGED <<host, todo, claimed, outbox, roomMade, welcomes, joined, lost, faults>>

Finish(c) ==
  /\ pc[c] = "add" /\ todo[c] = {}
  /\ End({c}, "ok")
  /\ UNCHANGED <<host, outbox, server, joined, lost, faults>>

\* What calls leave undone when they end: the commits they have in hand.
InHand(C) == {[at |-> hand[c].at, out |-> pc[c] = "commit"] :
                c \in {k \in C : pc[k] \in {"welcome", "commit"}}}

\* [mutant] A failed Welcome or commit is logged, and the call goes on.
FailLogged(c) ==
  /\ pc[c] \in Active /\ Fault
  /\ lost' = lost \cup InHand({c})
  /\ \/ UNCHANGED welcomes
     \/ pc[c] = "welcome" /\ SendToDevice(hand[c])
  /\ Goto(c, "add") /\ hand' = [hand EXCEPT ![c] = Nobody]
  /\ UNCHANGED <<host, todo, claimed, outbox, roomMade, timeline, joined>>

\* A request fails, or the host drops the call: it ends, and nothing takes it up again.
\* The Welcome may have arrived; a commit may still (ArrivesLate).
Fail(c) ==
  /\ pc[c] \in Active /\ Fault
  /\ lost' = lost \cup InHand({c})
  /\ \/ UNCHANGED welcomes
     \/ pc[c] = "welcome" /\ SendToDevice(hand[c])
  /\ End({c}, "err")
  /\ UNCHANGED <<host, outbox, roomMade, timeline, joined>>

\* A commit whose request was given up reaches the homeserver after all.
ArrivesLate(l) ==
  /\ l.out /\ Posted(l.at) = {}
  /\ Post("commit", l.at)
  /\ UNCHANGED <<host, call, outbox, roomMade, welcomes, joined, lost, faults>>

\* encrypt_for_send in flush_pending; encrypt saves the whole device.
Encrypt ==
  /\ sending = {} /\ device # {} /\ sent < MaxMessages
  /\ saved' = device /\ sending' = device /\ sent' = sent + 1
  /\ UNCHANGED <<device, made, call, server, joined, lost, faults>>

Deliver ==
  /\ sending # {}
  /\ Post("message", sending) /\ sending' = {}
  /\ UNCHANGED <<host, call, sent, roomMade, welcomes, joined, lost, faults>>

\* The process ends: the device is restored from the keystore, the calls are gone.
Crash ==
  /\ Fault
  /\ device' = saved /\ sending' = {}
  /\ lost' = lost \cup InHand(Calls)
  /\ End({c \in Calls : pc[c] \in Active}, "err")
  /\ UNCHANGED <<saved, made, sent, server, joined>>

------------------------------------------------------------------------------
\* An invited device joins with a Welcome it receives, unless it holds the group.
Join(d) ==
  /\ joined[d] = {}
  /\ \E w \in welcomes : w.to = d /\ joined' = [joined EXCEPT ![d] = w.at]
  /\ UNCHANGED <<host, call, outbox, server, lost, faults>>

\* The state of a member who has joined and handled the first n events, in order: a commit
\* that does not follow its state changes nothing and is not tried again.
GroupAfter(d) ==
  LET f[n \in 0..Len(timeline)] ==
        IF n = 0 THEN joined[d]
        ELSE IF timeline[n].kind = "commit" /\ Before(timeline[n].at) = f[n - 1]
        THEN timeline[n].at ELSE f[n - 1]
  IN f

Group(d) == GroupAfter(d)[Len(timeline)]

\* The messages it cannot open: they are of an epoch ahead of its own.
Unread(d) == {i \in Positions : /\ joined[d] # {} /\ timeline[i].kind = "message"
                                /\ ~ Leads(timeline[i].at, GroupAfter(d)[i])}

Step(c) ==
  \/ \E D \in SUBSET Devices : Claim(c, D)
  \/ \E d \in Devices : AddMember(c, d)
  \/ AddMemberFails(c)
  \/ SendWelcome(c) \/ Broadcast(c) \/ Finish(c)

Next ==
  \/ CreateRoom \/ CreateRoomFails
  \/ \E c \in Calls : Invite(c) \/ Step(c) \/ Fail(c)
  \/ \E l \in lost : ArrivesLate(l)
  \/ Encrypt \/ Deliver \/ Crash
  \/ \E d \in Devices : Join(d)

\* Requests are answered or time out, so a call goes on; the queue sends what it has
\* encrypted; the invited devices sync.
Fairness ==
  /\ \A c \in Calls : WF_vars(Step(c))
  /\ WF_vars(Deliver)
  /\ \A d \in Devices : WF_vars(Join(d))

Spec == Init /\ [][Next]_vars /\ Fairness
------------------------------------------------------------------------------
(***************************************************************************)
(* Properties.                                                             *)
(***************************************************************************)

\* Whatever has left the device - Welcomes, commits, messages - and whatever the joined hold
\* is a stage of the saved group state: a restart never puts the host on another branch than
\* the people it has invited (e2ee.rs, persist before the outcome is returned).
NoFork ==
  /\ Leads(saved, device)
  /\ \A w \in welcomes : Leads(w.at, saved)
  /\ \A i \in Positions : Leads(timeline[i].at, saved)
  /\ \A d \in Devices : Leads(joined[d], saved)

\* The commit at i was posted before another one that comes first.
Misplaced(i) == \E j \in Positions :
  i < j /\ timeline[j].kind = "commit" /\ Leads(timeline[j].at, Before(timeline[i].at))

\* The commit that leads to s is still in hand, or was given up.
Owed(s) == s \in {l.at : l \in lost \cup InHand(Calls)}

\* The stage of s after t.
After(t, s) == t \cup {CHOOSE x \in s \ t : \A y \in s \ t : x <= y}

\* A member who has read everything and is behind the host lacks a commit that is still in
\* hand, was given up, or was posted out of order: no other step strands a member
\* (rooms.rs, welcome_to_group, "would strand the earlier members").
StrandedOnlyByGap == \A d \in Devices :
  joined[d] # {} /\ Group(d) # device =>
    LET s == After(Group(d), device) IN
      \/ Owed(s)
      \/ \E i \in Posted(s) : Misplaced(i)

\* A message a member could not open came before a commit it needs, or that commit is missing.
UnreadOnlyAhead == \A d \in Devices : \A p \in Unread(d) :
  \E x \in timeline[p].at \ joined[d] :
    LET s == {y \in timeline[p].at : y <= x} IN
      /\ Posted(s) = {} => Owed(s)
      /\ \A i \in Posted(s) : p < i \/ Misplaced(i)

\* invite returns Ok only when every device it claimed a package of has been sent its
\* Welcome and the room the commit.
OkMeansAdded == \A c \in Calls : pc[c] = "ok" => \A d \in claimed[c] :
  \E w \in welcomes : w.to = d /\ Posted(w.at) # {}

\* When no commit is given up or misplaced, everyone whose invite succeeded ends up in the
\* group, at the host's state.
CatchUp ==
  <>[](lost = {} /\ (\A i \in Positions : timeline[i].kind = "message" \/ ~ Misplaced(i)) =>
         \A c \in Calls : pc[c] = "ok" => \A d \in claimed[c] : Group(d) = device)
==============================================================================
