--------------------------- MODULE GroupInviteProofs ---------------------------
(***************************************************************************)
(* Proofs about GroupInvite, for any devices and any number of calls, adds,*)
(* messages and faults: everything that has left the host is a stage of    *)
(* its saved group state; a call that returns Ok has sent each device its  *)
(* Welcome and the room its commit; and a member is stranded, or cannot    *)
(* open a message, only for want of a commit that is in hand, was given up *)
(* or was posted out of order.                                             *)
(*                                                                         *)
(* The last one needs the state a member is in after each event, which     *)
(* GroupInvite defines by recursion: GroupAfterEach unfolds it, from the   *)
(* least counterexample that LeastNumber picks.                            *)
(***************************************************************************)
EXTENDS GroupInvite, SequenceTheorems, WellFoundedInduction, TLAPS

Entry == [kind : {"commit", "message"}, at : States]
Busy == {c \in Calls : pc[c] \in {"welcome", "commit"}}

\* What the wire rests on: the commits are numbered, there is no group before the room, and
\* what is about to be sent is saved.
SavedInv ==
  /\ \A x \in device : x <= made
  /\ roomMade = FALSE => device = {} /\ saved = {}
  /\ \A c \in Busy : hand[c] # Nobody /\ Leads(hand[c].at, saved)
  /\ Leads(sending, saved)
  /\ \A l \in lost : l.out => Leads(l.at, saved)

\* Device d has its Welcome, and the room the commit.
Added(d) == \E w \in welcomes : w.to = d /\ Posted(w.at) # {}

\* How far each call has come.
CallInv == \A c \in Calls :
  /\ pc[c] \in {"idle", "claim"} => claimed[c] = {} /\ todo[c] = {}
  /\ pc[c] \in {"add", "ok"} => \A d \in claimed[c] \ todo[c] : Added(d)
  /\ pc[c] = "ok" => todo[c] = {}
  /\ pc[c] \in {"welcome", "commit"} => \A d \in claimed[c] \ todo[c] : d = hand[c].to \/ Added(d)
  /\ pc[c] = "commit" => hand[c] \in welcomes

\* The commit that leads to s is posted, in hand, or given up.
Covered(s) == Posted(s) # {} \/ Owed(s)

\* The stage of s that ends with the commit x.
Upto(s, x) == {y \in s : y <= x}

\* Every commit of the host's state is accounted for.
Accounted == \A x \in device \ {0} : Covered(Upto(device, x))

IInv == TypeOK /\ NoFork /\ SavedInv /\ CallInv /\ Accounted

------------------------------------------------------------------------------
\* Stages are ordered ...
LEMMA LeadsTrans ==
  ASSUME NEW s, NEW t, NEW u, Leads(s, t), Leads(t, u)
  PROVE  Leads(s, u)
BY DEF Leads

\* ... and every state is a stage of itself, no group one of all.
LEMMA LeadsSelf == \A s : Leads(s, s) /\ Leads({}, s)
BY DEF Leads

\* A group state with one more commit, numbered after all the others.
LEMMA LeadsNew ==
  ASSUME NEW s \in SUBSET Nat, NEW n \in Nat, \A x \in s : x < n
  PROVE  Leads(s, s \cup {n})
BY DEF Leads

\* The timeline only grows.
LEMMA PostGrows ==
  ASSUME TypeOK, NEW kind \in {"commit", "message"}, NEW s \in States, Post(kind, s)
  PROVE  /\ timeline' \in Seq(Entry)
         /\ Len(timeline') = Len(timeline) + 1 /\ Len(timeline) \in Nat
         /\ \A i \in Positions : i \in Positions' /\ timeline'[i] = timeline[i]
         /\ timeline'[Len(timeline')] = [kind |-> kind, at |-> s]
         /\ \A i \in Positions' : i \in Positions \/ i = Len(timeline')
BY DEF TypeOK, Post, Positions, Entry

\* What a call has left unsent is of the right type, and saved.
LEMMA InHandSaved ==
  ASSUME TypeOK, SavedInv, NEW C \in SUBSET Calls
  PROVE  /\ InHand(C) \subseteq [at : States, out : BOOLEAN]
         /\ \A l \in InHand(C) : Leads(l.at, saved)
<1>1. \A c \in Busy : hand[c].at \in States /\ Leads(hand[c].at, saved)
  BY DEF TypeOK, SavedInv, Busy, Nobody
<1>2. ASSUME NEW l \in InHand(C)
      PROVE  l \in [at : States, out : BOOLEAN] /\ Leads(l.at, saved)
  <2>1. PICK c \in Busy : l = [at |-> hand[c].at, out |-> pc[c] = "commit"]
    BY DEF InHand, Busy
  <2>2. (pc[c] = "commit") \in BOOLEAN
    OBVIOUS
  <2>3. l \in [at : States, out : BOOLEAN]
    BY <1>1, <2>1, <2>2, Zenon
  <2>4. l.at = hand[c].at
    BY <2>1, Zenon
  <2> QED
    BY <1>1, <2>1, <2>3, <2>4
<1> QED
  BY <1>2

------------------------------------------------------------------------------
\* The types.
LEMMA TypeKept == ASSUME TypeOK, SavedInv, [Next]_vars PROVE TypeOK'
<1> USE InviteBounds
<1>0. {0} \in States /\ {} \in States
  BY DEF States
<1>1. CASE CreateRoom \/ CreateRoomFails
  <2>1. device' \in States /\ saved' \in States /\ roomMade' \in BOOLEAN /\ faults' \in 0..MaxFaults
    <3>1. device' \in States /\ saved' \in States
      BY <1>0, <1>1 DEF CreateRoom, CreateRoomFails, TypeOK
    <3>2. roomMade' \in BOOLEAN
      BY <1>1 DEF CreateRoom, CreateRoomFails
    <3>3. faults' \in 0..MaxFaults
      BY <1>1 DEF CreateRoom, CreateRoomFails, Fault, TypeOK
    <3> QED
      BY <3>1, <3>2, <3>3
  <2> QED
    BY <1>1, <2>1 DEF CreateRoom, CreateRoomFails, TypeOK, call, outbox
<1>2. ASSUME NEW c \in Calls, Invite(c) PROVE TypeOK'
  BY <1>2 DEF Invite, Goto, TypeOK, host, outbox, server, Active
<1>3. ASSUME NEW c \in Calls, NEW D \in SUBSET Devices, Claim(c, D) PROVE TypeOK'
  BY <1>3 DEF Claim, Take, Goto, TypeOK, host, outbox, server, Active
<1>4. ASSUME NEW c \in Calls, NEW d \in Devices, AddMember(c, d) PROVE TypeOK'
  <2>1. made' \in 0..MaxAdds /\ device' \in States /\ saved' = device'
    BY <1>4 DEF AddMember, TypeOK, States
  <2>2. hand' \in [Calls -> [to : Devices, at : States] \cup {Nobody}]
    BY <1>4, <2>1 DEF AddMember, TypeOK
  <2>3. pc' \in [Calls -> {"idle", "ok", "err"} \cup Active] /\ todo' \in [Calls -> SUBSET Devices]
    BY <1>4 DEF AddMember, Goto, TypeOK, Active
  <2> QED
    BY <1>4, <2>1, <2>2, <2>3 DEF AddMember, TypeOK, outbox, server
<1>5. ASSUME NEW C \in SUBSET Calls, NEW where \in {"ok", "err"}, End(C, where)
      PROVE  /\ pc' \in [Calls -> {"idle", "ok", "err"} \cup Active]
             /\ todo' \in [Calls -> SUBSET Devices] /\ claimed' \in [Calls -> SUBSET Devices]
             /\ hand' \in [Calls -> [to : Devices, at : States] \cup {Nobody}]
  BY <1>5 DEF End, TypeOK
<1>6. ASSUME NEW c \in Calls, AddMemberFails(c) PROVE TypeOK'
  <2>0. \/ UNCHANGED <<device, made, lost>>
        \/ /\ device # {} /\ made < MaxAdds /\ made' = made + 1 /\ device' = device \cup {made'}
           /\ lost' = lost \cup {[at |-> device', out |-> FALSE]}
    BY <1>6 DEF AddMemberFails
  <2>1. made' \in 0..MaxAdds /\ device' \in States
    <3>1. CASE UNCHANGED <<device, made, lost>>
      BY <3>1 DEF TypeOK
    <3>2. CASE made < MaxAdds /\ made' = made + 1 /\ device' = device \cup {made'}
      BY <3>2 DEF TypeOK, States
    <3> QED
      BY <2>0, <3>1, <3>2
  <2>3. lost' \subseteq [at : States, out : BOOLEAN]
    <3>1. [at |-> device', out |-> FALSE] \in [at : States, out : BOOLEAN]
      BY <2>1
    <3> QED
      BY <2>0, <3>1 DEF TypeOK
  <2>4. faults' \in 0..MaxFaults
    BY <1>6 DEF AddMemberFails, Fault, TypeOK
  <2>2. End({c}, "err") /\ {c} \in SUBSET Calls
    BY <1>6 DEF AddMemberFails
  <2> QED
    BY <1>5, <1>6, <2>1, <2>2, <2>3, <2>4 DEF AddMemberFails, TypeOK, outbox, server
<1>7. ASSUME NEW c \in Calls, SendWelcome(c) PROVE TypeOK'
  <2>1. hand[c] \in [to : Devices, at : States]
    BY <1>7 DEF SendWelcome, SendToDevice, SavedInv, Busy, TypeOK
  <2> QED
    BY <1>7, <2>1 DEF SendWelcome, SendToDevice, Goto, TypeOK, host, outbox, Active
<1>8. ASSUME NEW c \in Calls, Broadcast(c) PROVE TypeOK'
  <2>1. hand[c].at \in States
    BY <1>8 DEF Broadcast, SavedInv, Busy, TypeOK
  <2>2. timeline' \in Seq(Entry)
    BY <1>8, <2>1, PostGrows DEF Broadcast
  <2> QED
    BY <1>8, <2>2 DEF Broadcast, Goto, TypeOK, host, outbox, Active, Entry
<1>9. ASSUME NEW c \in Calls, Finish(c) PROVE TypeOK'
  BY <1>5, <1>9 DEF Finish, TypeOK, host, outbox, server
<1>10. ASSUME NEW c \in Calls, Fail(c) PROVE TypeOK'
  <2>1. lost' \subseteq [at : States, out : BOOLEAN] /\ End({c}, "err") /\ {c} \in SUBSET Calls
    BY <1>10, InHandSaved DEF Fail, SendToDevice, TypeOK
  <2>2. welcomes' \subseteq [to : Devices, at : States]
    BY <1>10 DEF Fail, SendToDevice, SavedInv, Busy, TypeOK
  <2>3. faults' \in 0..MaxFaults
    BY <1>10 DEF Fail, SendToDevice, Fault, TypeOK
  <2> QED
    BY <1>5, <1>10, <2>1, <2>2, <2>3 DEF Fail, SendToDevice, TypeOK, host, outbox
<1>11. ASSUME NEW l \in lost, ArrivesLate(l) PROVE TypeOK'
  <2>1. timeline' \in Seq(Entry)
    BY <1>11, PostGrows DEF ArrivesLate, TypeOK
  <2> QED
    BY <1>11, <2>1 DEF ArrivesLate, TypeOK, host, call, outbox, Entry
<1>12. CASE Encrypt
  BY <1>12 DEF Encrypt, TypeOK, call, server
<1>13. CASE Deliver
  <2>1. timeline' \in Seq(Entry)
    BY <1>13, PostGrows DEF Deliver, TypeOK
  <2> QED
    BY <1>13, <2>1 DEF Deliver, TypeOK, host, call, Entry, States
<1>14. CASE Crash
  <2>1. /\ lost' \subseteq [at : States, out : BOOLEAN]
        /\ End({c \in Calls : pc[c] \in Active}, "err")
    BY <1>14, InHandSaved DEF Crash, TypeOK
  <2> QED
    BY <1>5, <1>14, <2>1 DEF Crash, TypeOK, server, Fault, States
<1>15. ASSUME NEW d \in Devices, Join(d) PROVE TypeOK'
  BY <1>15 DEF Join, TypeOK, host, call, outbox, server
<1>16. CASE UNCHANGED vars
  BY <1>16 DEF vars, host, call, outbox, server, TypeOK
<1> QED
  BY <1>1, <1>2, <1>3, <1>4, <1>6, <1>7, <1>8, <1>9, <1>10, <1>11, <1>12, <1>13, <1>14, <1>15,
     <1>16 DEF Next, Step
------------------------------------------------------------------------------
\* The saved state and the device only move on, and the device is never behind.
LEMMA SavedGrows ==
  ASSUME TypeOK, NoFork, SavedInv, [Next]_vars
  PROVE  /\ Leads(saved, saved') /\ Leads(saved', device')
         /\ \A x \in device' : x <= made'
         /\ roomMade' = FALSE => device' = {} /\ saved' = {}
<1> USE LeadsSelf
<1>0. Leads(saved, device) /\ device \in SUBSET Nat /\ saved \in SUBSET Nat /\ made \in Nat
  BY DEF NoFork, TypeOK, States
<1>1. CASE UNCHANGED <<device, saved, made, roomMade>>
  BY <1>0, <1>1 DEF SavedInv
<1>2. CASE CreateRoom \/ CreateRoomFails
  <2>1. device = {} /\ saved = {} /\ roomMade' = TRUE /\ made' = made
    BY <1>2 DEF CreateRoom, CreateRoomFails, SavedInv
  <2>2. device' \in {{}, {0}} /\ saved' \in {saved, device'}
    BY <1>2 DEF CreateRoom, CreateRoomFails
  <2>3. \A x \in device' : x <= made'
    BY <1>0, <2>1, <2>2
  <2> QED
    BY <2>1, <2>2, <2>3
<1>3. ASSUME made' = made + 1, device' = device \cup {made'}, saved' \in {saved, device'},
             device # {}, roomMade' = roomMade
      PROVE  /\ Leads(saved, saved') /\ Leads(saved', device')
             /\ \A x \in device' : x <= made'
             /\ roomMade' = FALSE => device' = {} /\ saved' = {}
  <2>1. Leads(device, device')
    BY <1>0, <1>3, LeadsNew DEF SavedInv
  <2>2. Leads(saved, device')
    BY <1>0, <2>1, LeadsTrans
  <2>3. \A x \in device' : x <= made'
    BY <1>0, <1>3 DEF SavedInv
  <2>4. roomMade' # FALSE
    BY <1>3 DEF SavedInv
  <2> QED
    BY <1>3, <2>2, <2>3, <2>4
<1>4. ASSUME NEW c \in Calls, NEW d \in Devices, AddMember(c, d)
      PROVE  /\ Leads(saved, saved') /\ Leads(saved', device')
             /\ \A x \in device' : x <= made'
             /\ roomMade' = FALSE => device' = {} /\ saved' = {}
  BY <1>3, <1>4 DEF AddMember, server
<1>5. ASSUME NEW c \in Calls, AddMemberFails(c)
      PROVE  /\ Leads(saved, saved') /\ Leads(saved', device')
             /\ \A x \in device' : x <= made'
             /\ roomMade' = FALSE => device' = {} /\ saved' = {}
  BY <1>1, <1>3, <1>5 DEF AddMemberFails, server
<1>6. CASE Encrypt
  BY <1>0, <1>6 DEF Encrypt, server, SavedInv
<1>7. CASE Crash
  BY <1>0, <1>7 DEF Crash, server, SavedInv, Leads
<1>8. ASSUME NEW c \in Calls,
             \/ Invite(c) \/ (\E D \in SUBSET Devices : Claim(c, D))
             \/ SendWelcome(c) \/ Broadcast(c) \/ Finish(c) \/ Fail(c)
      PROVE  UNCHANGED <<device, saved, made, roomMade>>
  BY <1>8 DEF Invite, Claim, Take, SendWelcome, SendToDevice, Broadcast, Finish, Fail, host, server
<1>9. CASE (\E l \in lost : ArrivesLate(l)) \/ Deliver \/ (\E d \in Devices : Join(d))
           \/ UNCHANGED vars
  BY <1>1, <1>9 DEF ArrivesLate, Deliver, Join, vars, host, server
<1> QED
  BY <1>1, <1>2, <1>4, <1>5, <1>6, <1>7, <1>8, <1>9 DEF Next, Step

\* What a step puts on the wire was saved, and what a call has in hand next is saved.
LEMMA WireSaved ==
  ASSUME TypeOK, NoFork, SavedInv, [Next]_vars
  PROVE  /\ \A w \in welcomes' : Leads(w.at, saved)
         /\ \A i \in Positions' : Leads(timeline'[i].at, saved)
         /\ \A d \in Devices : Leads(joined'[d], saved)
         /\ Leads(sending', saved')
         /\ \A c \in Busy' : hand'[c] # Nobody /\ Leads(hand'[c].at, saved')
         /\ \A l \in lost' : l.out => Leads(l.at, saved)
<1> DEFINE Wire == /\ \A w \in welcomes' : Leads(w.at, saved)
                   /\ \A d \in Devices : Leads(joined'[d], saved)
<1> DEFINE Ours == /\ Leads(sending', saved')
                   /\ \A c \in Busy' : hand'[c] # Nobody /\ Leads(hand'[c].at, saved')
                   /\ \A l \in lost' : l.out => Leads(l.at, saved)
<1> DEFINE Line == \A i \in Positions' : Leads(timeline'[i].at, saved)
<1>0. /\ \A s : Leads(s, saved) => Leads(s, saved')
      /\ Leads(saved, saved)
  BY SavedGrows, LeadsTrans, LeadsSelf
<1>1. ASSUME NEW kind \in {"commit", "message"}, NEW s \in States, Post(kind, s), Leads(s, saved)
      PROVE  Line
  <2>1. /\ \A i \in Positions : timeline'[i] = timeline[i]
        /\ timeline'[Len(timeline')] = [kind |-> kind, at |-> s]
        /\ \A i \in Positions' : i \in Positions \/ i = Len(timeline')
    BY <1>1, PostGrows
  <2>2. \A i \in Positions : Leads(timeline'[i].at, saved)
    BY <2>1 DEF NoFork
  <2>3. timeline'[Len(timeline')].at = s
    BY <2>1
  <2> QED
    BY <1>1, <2>1, <2>2, <2>3
<1>2. ASSUME UNCHANGED timeline PROVE Line
  BY <1>2 DEF NoFork, Positions
<1>3. ASSUME UNCHANGED <<welcomes, joined>> PROVE Wire
  BY <1>3 DEF NoFork
<1>4. ASSUME UNCHANGED <<pc, hand, sending, lost>> PROVE Ours
  BY <1>0, <1>4 DEF SavedInv, Busy
<1>5. ASSUME NEW c \in Calls, UNCHANGED <<hand, sending, lost>>,
             \A k \in Calls : pc'[k] \in {"welcome", "commit"} => k \in Busy
      PROVE  Ours
  BY <1>0, <1>5 DEF SavedInv, Busy
<1>6. ASSUME NEW C \in SUBSET Calls, NEW where \in {"ok", "err"}, End(C, where),
             \A l \in lost' : l.out => Leads(l.at, saved), Leads(sending', saved')
      PROVE  Ours
  <2>1. \A k \in Busy' : k \in Busy /\ hand'[k] = hand[k]
    BY <1>6 DEF End, Busy, TypeOK
  <2> QED
    BY <1>0, <1>6, <2>1 DEF SavedInv
<1>7. CASE CreateRoom \/ CreateRoomFails
  BY <1>2, <1>3, <1>4, <1>7 DEF CreateRoom, CreateRoomFails, call, outbox
<1>8. ASSUME NEW c \in Calls, Invite(c) \/ (\E D \in SUBSET Devices : Claim(c, D))
      PROVE  Wire /\ Ours /\ Line
  <2>1. \A k \in Calls : pc'[k] \in {"welcome", "commit"} => k \in Busy
    BY <1>8 DEF Invite, Claim, Take, Goto, Busy, TypeOK
  <2> QED
    BY <1>2, <1>3, <1>5, <1>8, <2>1 DEF Invite, Claim, Take, server, outbox
<1>9. ASSUME NEW c \in Calls, NEW d \in Devices, AddMember(c, d)
      PROVE  Wire /\ Ours /\ Line
  <2>1. hand'[c] = [to |-> d, at |-> device'] /\ saved' = device' /\ 0 \in device' \cup {0}
        /\ \A k \in Calls \ {c} : hand'[k] = hand[k] /\ pc'[k] = pc[k]
    BY <1>9 DEF AddMember, Goto, TypeOK
  <2>2. device' # {}
    BY <1>9 DEF AddMember
  <2>3. hand'[c] # Nobody /\ Leads(hand'[c].at, saved')
    BY <2>1, <2>2, LeadsSelf DEF Nobody
  <2>4. \A k \in Busy' : hand'[k] # Nobody /\ Leads(hand'[k].at, saved')
    BY <1>0, <2>1, <2>3 DEF Busy, SavedInv
  <2>5. UNCHANGED <<sending, lost, welcomes, joined, timeline>>
    BY <1>9 DEF AddMember, outbox, server
  <2> QED
    BY <1>0, <1>2, <1>3, <2>4, <2>5 DEF SavedInv
<1>10. ASSUME NEW c \in Calls, AddMemberFails(c)
       PROVE  Wire /\ Ours /\ Line
  <2>1. /\ End({c}, "err") /\ {c} \in SUBSET Calls
        /\ UNCHANGED <<sending, welcomes, joined, timeline>>
    BY <1>10 DEF AddMemberFails, outbox, server
  <2>2. \A l \in lost' : l \in lost \/ l.out = FALSE
    BY <1>10 DEF AddMemberFails
  <2>3. Leads(sending', saved') /\ \A l \in lost' : l.out => Leads(l.at, saved)
    BY <1>0, <2>1, <2>2 DEF SavedInv
  <2> QED
    BY <1>2, <1>3, <1>6, <2>1, <2>3
<1>11. ASSUME NEW c \in Calls, SendWelcome(c)
       PROVE  Wire /\ Ours /\ Line
  <2>1. Leads(hand[c].at, saved) /\ welcomes' = welcomes \cup {hand[c]} /\ joined' = joined
    BY <1>11 DEF SendWelcome, SendToDevice, SavedInv, Busy
  <2>2. Wire
    BY <2>1 DEF NoFork
  <2>3. \A k \in Calls : pc'[k] \in {"welcome", "commit"} => k \in Busy
    BY <1>11 DEF SendWelcome, SendToDevice, Goto, Busy, TypeOK
  <2> QED
    BY <1>2, <1>5, <1>11, <2>2, <2>3 DEF SendWelcome, SendToDevice, outbox
<1>12. ASSUME NEW c \in Calls, Broadcast(c)
       PROVE  Wire /\ Ours /\ Line
  <2>1. hand[c].at \in States /\ Leads(hand[c].at, saved)
    BY <1>12 DEF Broadcast, SavedInv, Busy, TypeOK
  <2>2. Line
    BY <1>1, <1>12, <2>1 DEF Broadcast
  <2>3. \A k \in Busy' : k \in Busy /\ hand'[k] = hand[k]
    BY <1>12 DEF Broadcast, Goto, Busy, TypeOK
  <2> QED
    BY <1>0, <1>3, <1>12, <2>2, <2>3 DEF Broadcast, outbox, SavedInv
<1>13. ASSUME NEW c \in Calls, Finish(c)
       PROVE  Wire /\ Ours /\ Line
  <2>1. /\ End({c}, "ok") /\ {c} \in SUBSET Calls
        /\ UNCHANGED <<sending, lost, welcomes, joined, timeline>>
    BY <1>13 DEF Finish, outbox, server
  <2> QED
    BY <1>0, <1>2, <1>3, <1>6, <2>1 DEF SavedInv
<1>14. ASSUME NEW c \in Calls, Fail(c)
       PROVE  Wire /\ Ours /\ Line
  <2>1. /\ End({c}, "err") /\ {c} \in SUBSET Calls /\ lost' = lost \cup InHand({c})
        /\ UNCHANGED <<sending, joined, timeline>>
    BY <1>14 DEF Fail, SendToDevice, outbox
  <2>2. \A l \in lost' : l.out => Leads(l.at, saved)
    BY <2>1, InHandSaved DEF SavedInv
  <2>3. \A w \in welcomes' : w \in welcomes \/ (w = hand[c] /\ c \in Busy)
    BY <1>14 DEF Fail, SendToDevice, Busy
  <2>4. Wire
    BY <2>1, <2>3 DEF NoFork, SavedInv
  <2> QED
    BY <1>0, <1>2, <1>6, <2>1, <2>2, <2>4 DEF SavedInv
<1>15. ASSUME NEW l \in lost, ArrivesLate(l)
       PROVE  Wire /\ Ours /\ Line
  <2>1. l.at \in States /\ Leads(l.at, saved)
    BY <1>15 DEF ArrivesLate, SavedInv, TypeOK
  <2> QED
    BY <1>1, <1>3, <1>4, <1>15, <2>1 DEF ArrivesLate, call, outbox
<1>16. CASE Encrypt
  <2>1. Leads(sending', saved') /\ UNCHANGED <<pc, hand, lost, welcomes, joined, timeline>>
    BY <1>16, LeadsSelf DEF Encrypt, call, server
  <2> QED
    BY <1>0, <1>2, <1>3, <2>1 DEF SavedInv, Busy
<1>17. CASE Deliver
  <2>1. sending \in States /\ Leads(sending, saved) /\ Leads(sending', saved')
    BY <1>17, LeadsSelf DEF Deliver, TypeOK, SavedInv
  <2>2. Line
    BY <1>1, <1>17, <2>1 DEF Deliver
  <2> QED
    BY <1>0, <1>3, <1>17, <2>1, <2>2 DEF Deliver, call, SavedInv, Busy
<1>18. CASE Crash
  <2>1. /\ End({c \in Calls : pc[c] \in Active}, "err") /\ lost' = lost \cup InHand(Calls)
        /\ sending' = {} /\ UNCHANGED <<welcomes, joined, timeline>>
    BY <1>18 DEF Crash, server
  <2>2. \A l \in lost' : l.out => Leads(l.at, saved)
    BY <2>1, InHandSaved DEF SavedInv
  <2> QED
    BY <1>2, <1>3, <1>6, <2>1, <2>2, LeadsSelf
<1>19. ASSUME NEW d \in Devices, Join(d)
       PROVE  Wire /\ Ours /\ Line
  <2>1. \A k \in Devices : joined'[k] = joined[k] \/ \E w \in welcomes : joined'[k] = w.at
    BY <1>19 DEF Join, TypeOK
  <2>2. Wire
    BY <1>19, <2>1 DEF Join, server, NoFork
  <2> QED
    BY <1>2, <1>4, <1>19, <2>2 DEF Join, call, outbox, server
<1>20. CASE UNCHANGED vars
  BY <1>2, <1>3, <1>4, <1>20 DEF vars, call, outbox, server
<1> QED
  BY <1>7, <1>8, <1>9, <1>10, <1>11, <1>12, <1>13, <1>14, <1>15, <1>16, <1>17, <1>18, <1>19,
     <1>20 DEF Next, Step

\* A step keeps what the wire rests on.
LEMMA ForkKept ==
  ASSUME TypeOK, NoFork, SavedInv, [Next]_vars
  PROVE  NoFork' /\ SavedInv'
<1>1. \A s : Leads(s, saved) => Leads(s, saved')
  BY SavedGrows, LeadsTrans
<1>2. NoFork'
  BY <1>1, SavedGrows, WireSaved DEF NoFork
<1>3. SavedInv'
  BY <1>1, SavedGrows, WireSaved DEF SavedInv
<1> QED
  BY <1>2, <1>3

------------------------------------------------------------------------------
\* A step keeps what the calls have done: what was sent stays sent.
LEMMA CallsKept ==
  ASSUME TypeOK, SavedInv, CallInv, [Next]_vars
  PROVE  CallInv'
<1> DEFINE Says(c) ==
      /\ pc[c] \in {"idle", "claim"} => claimed[c] = {} /\ todo[c] = {}
      /\ pc[c] \in {"add", "ok"} => \A d \in claimed[c] \ todo[c] : Added(d)
      /\ pc[c] = "ok" => todo[c] = {}
      /\ pc[c] \in {"welcome", "commit"} =>
           \A d \in claimed[c] \ todo[c] : d = hand[c].to \/ Added(d)
      /\ pc[c] = "commit" => hand[c] \in welcomes
<1> DEFINE Grows ==
      /\ welcomes \subseteq welcomes'
      /\ \A i \in Positions : i \in Positions' /\ timeline'[i] = timeline[i]
<1>1. ASSUME Grows, NEW d, Added(d) PROVE Added(d)'
  <2>1. PICK w \in welcomes : w.to = d /\ Posted(w.at) # {}
    BY <1>1 DEF Added
  <2>2. Posted(w.at) \subseteq Posted(w.at)'
    BY <1>1 DEF Posted
  <2> QED
    BY <1>1, <2>1, <2>2 DEF Added
<1>2. ASSUME Grows, NEW k \in Calls,
             pc'[k] = pc[k], todo'[k] = todo[k], claimed'[k] = claimed[k], hand'[k] = hand[k]
      PROVE  Says(k)'
  BY <1>1, <1>2 DEF CallInv
<1>3. ASSUME UNCHANGED <<welcomes, timeline>> PROVE Grows
  BY <1>3 DEF Positions
<1>4. ASSUME NEW kind \in {"commit", "message"}, NEW s \in States, Post(kind, s),
             welcomes' = welcomes
      PROVE  Grows
  BY <1>4, PostGrows
<1>5. ASSUME Grows, UNCHANGED <<pc, todo, claimed, hand>> PROVE CallInv'
  BY <1>1, <1>5 DEF CallInv
<1>6. ASSUME Grows, NEW c \in Calls, Says(c)',
             \A k \in Calls \ {c} : /\ pc'[k] = pc[k] /\ todo'[k] = todo[k]
                                    /\ claimed'[k] = claimed[k] /\ hand'[k] = hand[k]
      PROVE  CallInv'
  BY <1>2, <1>6 DEF CallInv
<1>7. ASSUME Grows, NEW C \in SUBSET Calls, End(C, "err") PROVE CallInv'
  <2>1. \A k \in Calls \ C : /\ pc'[k] = pc[k] /\ todo'[k] = todo[k]
                             /\ claimed'[k] = claimed[k] /\ hand'[k] = hand[k]
    BY <1>7 DEF End
  <2>2. \A k \in C : pc'[k] = "err"
    BY <1>7 DEF End
  <2>3. \A k \in C : Says(k)'
    BY <2>2
  <2> QED
    BY <1>2, <1>7, <2>1, <2>3 DEF CallInv
<1>8. CASE CreateRoom \/ CreateRoomFails \/ Encrypt \/ (\E d \in Devices : Join(d))
           \/ UNCHANGED vars
  BY <1>3, <1>5, <1>8 DEF CreateRoom, CreateRoomFails, Encrypt, Join, vars, call, server
<1>9. ASSUME NEW c \in Calls, Invite(c) PROVE CallInv'
  <2>1. /\ pc'[c] \in {"ok", "claim"} /\ todo' = todo /\ claimed' = claimed /\ pc[c] = "idle"
        /\ \A k \in Calls \ {c} : pc'[k] = pc[k]
        /\ UNCHANGED <<hand, welcomes, timeline>>
    BY <1>9 DEF Invite, Goto, TypeOK, server
  <2>2. Says(c)'
    BY <2>1 DEF CallInv
  <2> QED
    BY <1>3, <1>6, <2>1, <2>2
<1>10. ASSUME NEW c \in Calls, NEW D \in SUBSET Devices, Claim(c, D) PROVE CallInv'
  <2>1. /\ pc'[c] = "add" /\ todo'[c] = D /\ claimed'[c] = D
        /\ \A k \in Calls \ {c} : pc'[k] = pc[k] /\ todo'[k] = todo[k] /\ claimed'[k] = claimed[k]
        /\ UNCHANGED <<hand, welcomes, timeline>>
    BY <1>10 DEF Claim, Take, Goto, TypeOK, server
  <2>2. Says(c)'
    BY <2>1
  <2> QED
    BY <1>3, <1>6, <2>1, <2>2
<1>11. ASSUME NEW c \in Calls, NEW d \in Devices, AddMember(c, d) PROVE CallInv'
  <2>1. /\ pc[c] = "add" /\ pc'[c] = "welcome" /\ todo'[c] = todo[c] \ {d} /\ hand'[c].to = d
        /\ claimed' = claimed
        /\ \A k \in Calls \ {c} : pc'[k] = pc[k] /\ todo'[k] = todo[k] /\ hand'[k] = hand[k]
        /\ UNCHANGED <<welcomes, timeline>>
    BY <1>11 DEF AddMember, Goto, TypeOK, server
  <2>2. \A e \in claimed[c] \ todo[c] : Added(e)'
    BY <1>1, <1>3, <2>1 DEF CallInv
  <2>3. Says(c)'
    BY <2>1, <2>2
  <2> QED
    BY <1>3, <1>6, <2>1, <2>3
<1>12. ASSUME NEW c \in Calls, AddMemberFails(c) PROVE CallInv'
  BY <1>3, <1>7, <1>12 DEF AddMemberFails, server
<1>13. ASSUME NEW c \in Calls, SendWelcome(c) PROVE CallInv'
  <2>1. /\ pc[c] = "welcome" /\ pc'[c] = "commit" /\ hand[c] \in welcomes' /\ Grows
        /\ \A k \in Calls \ {c} : pc'[k] = pc[k]
        /\ UNCHANGED <<todo, hand, claimed>>
    BY <1>13 DEF SendWelcome, SendToDevice, Goto, TypeOK, Positions
  <2>2. Says(c)'
    BY <1>1, <2>1 DEF CallInv
  <2> QED
    BY <1>6, <2>1, <2>2
<1>14. ASSUME NEW c \in Calls, Broadcast(c) PROVE CallInv'
  <2>1. /\ pc[c] = "commit" /\ pc'[c] = "add" /\ hand[c] \in welcomes /\ welcomes' = welcomes
        /\ \A k \in Calls \ {c} : pc'[k] = pc[k] /\ hand'[k] = hand[k]
        /\ UNCHANGED <<todo, claimed>>
    BY <1>14 DEF Broadcast, Goto, TypeOK, CallInv
  <2>2. PICK s \in States, to \in Devices : hand[c].at = s /\ hand[c].to = to
    BY <1>14 DEF Broadcast, SavedInv, Busy, TypeOK
  <2>3. Post("commit", s)
    BY <1>14, <2>2 DEF Broadcast
  <2>4. Grows /\ timeline'[Len(timeline')] = [kind |-> "commit", at |-> s]
        /\ Len(timeline') \in Positions'
    BY <1>4, <2>1, <2>2, <2>3, PostGrows DEF Positions
  <2>5. Added(to)'
    <3>1. Len(timeline') \in Posted(s)'
      BY <2>4 DEF Posted
    <3>2. PICK w \in welcomes' : w.to = to /\ w.at = s
      BY <2>1, <2>2
    <3> QED
      BY <3>1, <3>2 DEF Added
  <2>6. \A d \in claimed[c] \ todo[c] : Added(d)'
    <3>1. \A d \in claimed[c] \ todo[c] : d = to \/ Added(d)
      BY <2>1, <2>2 DEF CallInv
    <3> QED
      BY <1>1, <2>4, <2>5, <3>1
  <2>7. Says(c)'
    BY <2>1, <2>6
  <2> QED
    BY <1>6, <2>1, <2>4, <2>7
<1>15. ASSUME NEW c \in Calls, Finish(c) PROVE CallInv'
  <2>1. /\ pc[c] = "add" /\ pc'[c] = "ok" /\ todo[c] = {} /\ todo'[c] = {}
        /\ claimed' = claimed
        /\ \A k \in Calls \ {c} : pc'[k] = pc[k] /\ todo'[k] = todo[k] /\ hand'[k] = hand[k]
        /\ UNCHANGED <<welcomes, timeline>>
    BY <1>15 DEF Finish, End, TypeOK, server
  <2>2. Says(c)'
    BY <1>1, <1>3, <2>1 DEF CallInv
  <2> QED
    BY <1>3, <1>6, <2>1, <2>2
<1>16. ASSUME NEW c \in Calls, Fail(c) PROVE CallInv'
  <2>1. Grows /\ End({c}, "err") /\ {c} \in SUBSET Calls
    BY <1>16 DEF Fail, SendToDevice, Positions
  <2> QED
    BY <1>7, <2>1
<1>17. CASE (\E l \in lost : ArrivesLate(l)) \/ Deliver
  <2>1. UNCHANGED <<pc, todo, claimed, hand, welcomes>>
    BY <1>17 DEF ArrivesLate, Deliver, call
  <2>2. \E kind \in {"commit", "message"}, s \in States : Post(kind, s)
    BY <1>17 DEF ArrivesLate, Deliver, TypeOK
  <2>3. Grows
    BY <1>4, <2>1, <2>2
  <2> QED
    BY <1>5, <2>1, <2>3
<1>18. CASE Crash
  BY <1>3, <1>7, <1>18 DEF Crash, server
<1> QED
  BY <1>8, <1>9, <1>10, <1>11, <1>12, <1>13, <1>14, <1>15, <1>16, <1>17, <1>18 DEF Next, Step

------------------------------------------------------------------------------
\* A set of numbers that is not empty has a least one.
LEMMA LeastNumber ==
  ASSUME NEW S \in SUBSET Nat, S # {}
  PROVE  \E n \in S : \A m \in S : n <= m
<1> DEFINE R == OpToRel(<, Nat)
<1>1. IsWellFoundedOn(R, Nat)
  BY NatLessThanWellFounded
<1> HIDE DEF R
<1>2. PICK n \in S : \A m \in S : <<m, n>> \notin R
  BY <1>1, WFMin
<1>3. \A m \in S : ~ (m < n)
  BY <1>2 DEF R, OpToRel
<1> QED
  BY <1>2, <1>3

\* The states a member passes through while it reads the first k events.
Reads(d, k, g) ==
  g = [n \in 0..k |->
         IF n = 0 THEN joined[d]
         ELSE IF timeline[n].kind = "commit" /\ Before(timeline[n].at) = g[n - 1]
         THEN timeline[n].at ELSE g[n - 1]]

\* What it makes of one event, in state g.
Handled(g, e) == IF e.kind = "commit" /\ Before(e.at) = g THEN e.at ELSE g

\* g gives a state for each number of events up to k.
Run(k, g) == g = [n \in 0..k |-> g[n]]

\* Reads is Handled, event by event.
LEMMA ReadsEach ==
  ASSUME NEW d, NEW k \in Nat, NEW g
  PROVE  Reads(d, k, g) <=>
           /\ Run(k, g)
           /\ \A n \in 0..k : g[n] = IF n = 0 THEN joined[d] ELSE Handled(g[n - 1], timeline[n])
BY DEF Reads, Run, Handled

\* However many events there are, a member can read them.
LEMMA ReadsExist ==
  ASSUME NEW d, NEW j \in Nat
  PROVE  \E g : Reads(d, j, g)
<1> DEFINE Bad == {m \in Nat : ~ \E g : Reads(d, m, g)}
<1> SUFFICES ASSUME Bad # {} PROVE FALSE
  OBVIOUS
<1>1. PICK m \in Bad : \A n \in Bad : m <= n
  BY LeastNumber, Zenon
<1>2. CASE m = 0
  <2> DEFINE g == [n \in 0..0 |-> joined[d]]
  <2>1. Run(0, g) /\ \A n \in 0..0 : n = 0 /\ g[n] = joined[d]
    BY DEF Run
  <2> HIDE DEF g
  <2>2. Reads(d, 0, g)
    BY <2>1, ReadsEach
  <2> QED
    BY <1>1, <1>2, <2>2
<1>3. CASE m # 0
  <2>1. PICK k \in Nat : m = k + 1 /\ k \notin Bad
    <3>1. m - 1 \in Nat /\ m = (m - 1) + 1 /\ ~ (m <= m - 1)
      BY <1>1, <1>3
    <3> QED
      BY <1>1, <3>1
  <2>2. PICK h : Reads(d, k, h)
    BY <2>1
  <2> DEFINE g == [n \in 0..m |-> IF n < m THEN h[n] ELSE Handled(h[k], timeline[m])]
  <2>3. /\ Run(m, g)
        /\ \A n \in 0..k : g[n] = h[n]
        /\ g[m] = Handled(h[k], timeline[m])
    BY <2>1 DEF Run
  <2> HIDE DEF g
  <2>4. \A n \in 0..m : g[n] = IF n = 0 THEN joined[d] ELSE Handled(g[n - 1], timeline[n])
    <3>1. \A n \in 0..k :
            h[n] = IF n = 0 THEN joined[d] ELSE Handled(h[n - 1], timeline[n])
      BY <2>2 DEF Reads, Handled
    <3>2. g[m] = Handled(g[k], timeline[m])
      <4>1. k \in 0..k
        BY <2>1
      <4> QED
        BY <2>3, <4>1
    <3>3. \A n \in 0..m : n = m \/ (n \in 0..k /\ (n # 0 => n - 1 \in 0..k))
      BY <2>1
    <3> QED
      BY <1>3, <2>3, <3>1, <3>2, <3>3
  <2>5. Reads(d, m, g)
    BY <1>1, <2>3, <2>4, ReadsEach
  <2> QED
    BY <1>1, <2>5
<1> QED
  BY <1>2, <1>3

\* GroupAfter is the states a member passes through: it joins, and handles one event at a time.
LEMMA GroupAfterEach ==
  ASSUME TypeOK, NEW d \in Devices
  PROVE  /\ GroupAfter(d)[0] = joined[d]
         /\ \A n \in Positions : GroupAfter(d)[n] = Handled(GroupAfter(d)[n - 1], timeline[n])
<1>1. Len(timeline) \in Nat
  BY DEF TypeOK
<1>2. PICK g : Reads(d, Len(timeline), g)
  BY <1>1, ReadsExist
<1>3. Reads(d, Len(timeline), GroupAfter(d))
  BY <1>2 DEF GroupAfter, Reads
<1>4. \A n \in 0..Len(timeline) : GroupAfter(d)[n] =
        IF n = 0 THEN joined[d] ELSE Handled(GroupAfter(d)[n - 1], timeline[n])
  BY <1>1, <1>3, ReadsEach
<1>5. 0 \in 0..Len(timeline) /\ \A n \in Positions : n \in 0..Len(timeline) /\ n # 0
  BY <1>1 DEF Positions
<1> QED
  BY <1>4, <1>5

\* An event of the timeline.
LEMMA EntryTyped == ASSUME TypeOK, NEW i \in Positions PROVE timeline[i].at \in States
<1>1. timeline \in Seq(Entry) /\ i \in 1..Len(timeline)
  BY DEF TypeOK, Positions, Entry
<1>2. timeline[i] \in Entry
  BY <1>1
<1> QED
  BY <1>2 DEF Entry

\* A member's state is always a stage of the host's saved one.
LEMMA GroupSaved ==
  ASSUME TypeOK, NoFork, NEW d \in Devices, NEW p \in 0..Len(timeline)
  PROVE  GroupAfter(d)[p] \in States /\ Leads(GroupAfter(d)[p], saved)
<1> DEFINE Bad == {n \in 0..Len(timeline) :
                     ~ (GroupAfter(d)[n] \in States /\ Leads(GroupAfter(d)[n], saved))}
<1> SUFFICES ASSUME Bad # {} PROVE FALSE
  OBVIOUS
<1>0. Bad \in SUBSET Nat
  BY DEF TypeOK
<1>1. PICK n \in Bad : \A m \in Bad : n <= m
  BY <1>0, LeastNumber, Zenon
<1>2. joined[d] \in States /\ Leads(joined[d], saved)
  BY DEF TypeOK, NoFork
<1>3. \A i \in Positions : timeline[i].at \in States /\ Leads(timeline[i].at, saved)
  BY EntryTyped DEF NoFork
<1>4. n # 0
  BY <1>1, <1>2, GroupAfterEach
<1>5. n \in Positions /\ n - 1 \in 0..Len(timeline) /\ n - 1 < n
  BY <1>1, <1>4 DEF Positions, TypeOK
<1>6. GroupAfter(d)[n - 1] \in States /\ Leads(GroupAfter(d)[n - 1], saved)
  BY <1>1, <1>5
<1>7. GroupAfter(d)[n] \in {GroupAfter(d)[n - 1], timeline[n].at}
  BY <1>5, GroupAfterEach DEF Handled
<1> QED
  BY <1>1, <1>3, <1>5, <1>6, <1>7

\* A member never loses a commit it has handled.
LEMMA GroupGrows ==
  ASSUME TypeOK, NEW d \in Devices, NEW p \in 0..Len(timeline), NEW q \in 0..Len(timeline), p <= q
  PROVE  GroupAfter(d)[p] \subseteq GroupAfter(d)[q]
<1> DEFINE Bad == {n \in 0..Len(timeline) :
                     p <= n /\ ~ (GroupAfter(d)[p] \subseteq GroupAfter(d)[n])}
<1> SUFFICES ASSUME Bad # {} PROVE FALSE
  OBVIOUS
<1>0. Bad \in SUBSET Nat
  BY DEF TypeOK
<1>1. PICK n \in Bad : \A m \in Bad : n <= m
  BY <1>0, LeastNumber, Zenon
<1>2. p <= n /\ n # p
  BY <1>1
<1>3. n \in Positions /\ n - 1 \in 0..Len(timeline) /\ p <= n - 1 /\ n - 1 < n
  BY <1>1, <1>2 DEF Positions, TypeOK
<1>4. GroupAfter(d)[p] \subseteq GroupAfter(d)[n - 1]
  BY <1>1, <1>3
<1>5. GroupAfter(d)[n - 1] \subseteq GroupAfter(d)[n]
  BY <1>3, GroupAfterEach DEF Handled, Before
<1> QED
  BY <1>1, <1>4, <1>5

\* A member whose state is another one later has handled the commit that leads to it since.
LEMMA GroupChanged ==
  ASSUME TypeOK, NEW d \in Devices, NEW p \in 0..Len(timeline), NEW q \in 0..Len(timeline), p <= q,
         GroupAfter(d)[p] # GroupAfter(d)[q]
  PROVE  \E j \in Positions : p < j /\ j <= q /\ timeline[j].kind = "commit"
                              /\ timeline[j].at = GroupAfter(d)[q]
<1> DEFINE Same == {n \in 0..Len(timeline) : p <= n /\ GroupAfter(d)[n] = GroupAfter(d)[q]}
<1>1. q \in Same /\ Same \in SUBSET Nat
  BY DEF TypeOK
<1>2. PICK n \in Same : \A m \in Same : n <= m
  BY <1>1, LeastNumber, Zenon
<1>3. p <= n /\ n # p /\ n <= q
  BY <1>1, <1>2
<1>4. n \in Positions /\ n - 1 \in 0..Len(timeline) /\ p <= n - 1 /\ n - 1 < n /\ p < n
  BY <1>2, <1>3 DEF Positions, TypeOK
<1>5. GroupAfter(d)[n - 1] # GroupAfter(d)[n] /\ GroupAfter(d)[n] = GroupAfter(d)[q]
  BY <1>2, <1>4
<1>6. timeline[n].kind = "commit" /\ timeline[n].at = GroupAfter(d)[n]
  BY <1>4, <1>5, GroupAfterEach DEF Handled
<1> QED
  BY <1>3, <1>4, <1>5, <1>6

------------------------------------------------------------------------------
\* Two stages of one state are stages of each other.
LEMMA LeadsEither ==
  ASSUME NEW u \in SUBSET Nat, NEW s, NEW t, Leads(s, u), Leads(t, u)
  PROVE  Leads(s, t) \/ Leads(t, s)
<1>1. CASE s \subseteq t
  BY <1>1 DEF Leads
<1>2. ASSUME NEW x \in s, x \notin t PROVE Leads(t, s)
  <2>1. \A y \in t : y \in Nat /\ x \in Nat /\ y < x
    BY <1>2 DEF Leads
  <2>2. \A y \in t : y \in s
    BY <1>2, <2>1 DEF Leads
  <2> QED
    BY <2>2 DEF Leads
<1> QED
  BY <1>1, <1>2

\* The stage after g on the way to t: one commit more, which comes last.
LEMMA NextStage ==
  ASSUME NEW t \in SUBSET Nat, NEW g, Leads(g, t), g # t
  PROVE  \E x \in t \ g : /\ After(g, t) = g \cup {x}
                          /\ g \cup {x} = Upto(t, x)
                          /\ Before(g \cup {x}) = g
                          /\ \A y \in g : y < x
<1>1. g \in SUBSET t /\ t \ g # {} /\ t \ g \in SUBSET Nat
  BY DEF Leads
<1>2. PICK x \in t \ g : \A y \in t \ g : x <= y
  BY <1>1, LeastNumber
<1>3. (CHOOSE z \in t \ g : \A y \in t \ g : z <= y) = x
  <2>1. \A z \in t \ g : (\A y \in t \ g : z <= y) <=> z = x
    BY <1>1, <1>2
  <2> QED
    BY <2>1
<1>4. \A y \in g : y \in Nat /\ y < x
  BY <1>1, <1>2 DEF Leads
<1>5. g \cup {x} = Upto(t, x)
  <2>1. \A y \in g \cup {x} : y \in t /\ y <= x
    BY <1>1, <1>2, <1>4
  <2>2. \A y \in t : y <= x => y \in g \cup {x}
    BY <1>1, <1>2
  <2> QED
    BY <2>1, <2>2 DEF Upto
<1>6. Last(g \cup {x}) = x
  <2> DEFINE s == g \cup {x}
  <2>1. x \in s /\ x \in Nat /\ \A y \in s : y \in Nat /\ y <= x
    BY <1>1, <1>4
  <2> HIDE DEF s
  <2>2. \A z \in s : (\A y \in s : y <= z) => z = x
    BY <2>1
  <2>3. Last(s) = x
    BY <2>1, <2>2 DEF Last
  <2> QED
    BY <2>3 DEF s
<1>7. Before(g \cup {x}) = g
  BY <1>2, <1>6 DEF Before
<1> QED
  BY <1>3, <1>4, <1>5, <1>7 DEF After

\* Whoever misses the commit after its state though it was posted in what it has read: another
\* commit that comes first was posted after it.
LEMMA MissedIsMisplaced ==
  ASSUME TypeOK, NEW d \in Devices, NEW p \in 0..Len(timeline), NEW s,
         Before(s) = GroupAfter(d)[p], ~ (s \subseteq GroupAfter(d)[p]),
         NEW i \in Posted(s), i <= p
  PROVE  Misplaced(i)
<1>1. i \in Positions /\ timeline[i].kind = "commit" /\ timeline[i].at = s
  BY DEF Posted
<1>2. i \in 0..Len(timeline) /\ i - 1 \in 0..Len(timeline) /\ i - 1 <= p /\ p \in Nat
  BY <1>1 DEF Positions, TypeOK
<1>3. GroupAfter(d)[i - 1] # GroupAfter(d)[p]
  <2>1. GroupAfter(d)[i] \subseteq GroupAfter(d)[p]
    BY <1>2, GroupGrows
  <2>2. GroupAfter(d)[i - 1] = GroupAfter(d)[p] => GroupAfter(d)[i] = s
    BY <1>1, GroupAfterEach DEF Handled
  <2> QED
    BY <2>1, <2>2
<1>4. PICK j \in Positions : i - 1 < j /\ timeline[j].kind = "commit"
                             /\ timeline[j].at = GroupAfter(d)[p]
  BY <1>2, <1>3, GroupChanged
<1>5. j # i
  BY <1>1, <1>4
<1>6. i < j
  BY <1>2, <1>4, <1>5 DEF Positions
<1>7. Leads(timeline[j].at, Before(timeline[i].at))
  BY <1>1, <1>4, LeadsSelf
<1> QED
  BY <1>4, <1>6, <1>7 DEF Misplaced

\* A stage of s has the same earlier stages as s.
LEMMA UptoStage ==
  ASSUME NEW s \in SUBSET Nat, NEW t, Leads(t, s), NEW x \in t
  PROVE  Upto(t, x) = Upto(s, x)
<1>1. \A y \in s : y <= x => y \in t
  BY DEF Leads
<1>2. \A y \in t : y \in s
  BY DEF Leads
<1> QED
  BY <1>1, <1>2 DEF Upto

\* A member behind state t, which the host was in, lacks the commit after its own state: that
\* commit is in hand, was given up, or was posted after what it has read or out of order.
LEMMA Behind ==
  ASSUME TypeOK, NoFork, Accounted, NEW d \in Devices, NEW p \in 0..Len(timeline), joined[d] # {},
         NEW t, Leads(t, device), Leads(GroupAfter(d)[p], t), GroupAfter(d)[p] # t
  PROVE  \E x \in t \ GroupAfter(d)[p] :
           /\ Upto(t, x) = After(GroupAfter(d)[p], t)
           /\ Covered(Upto(t, x))
           /\ \A i \in Posted(Upto(t, x)) : p < i \/ Misplaced(i)
<1> DEFINE g == GroupAfter(d)[p]
<1>0. g = GroupAfter(d)[p]
  OBVIOUS
<1> HIDE DEF g
<1>1. t \in SUBSET Nat /\ t \subseteq device /\ p \in Nat
  BY DEF TypeOK, States, Leads
<1>2. joined[d] \subseteq g
  BY <1>0, GroupGrows, GroupAfterEach DEF TypeOK
<1>3. PICK x \in t \ g : /\ After(g, t) = g \cup {x} /\ g \cup {x} = Upto(t, x)
                         /\ Before(g \cup {x}) = g /\ \A y \in g : y < x
  BY <1>0, <1>1, NextStage
<1> DEFINE s == g \cup {x}
<1>4. x \in device \ {0}
  <2>1. PICK y \in g : y < x
    BY <1>2, <1>3
  <2>2. y \in Nat
    BY <1>0, <1>1, <2>1 DEF Leads
  <2> QED
    BY <1>1, <1>3, <2>1, <2>2
<1>5. Upto(t, x) = Upto(device, x)
  BY <1>3, UptoStage DEF TypeOK, States
<1>6. Covered(Upto(t, x))
  BY <1>4, <1>5 DEF Accounted
<1>7. ASSUME NEW i \in Posted(s), ~ (p < i) PROVE Misplaced(i)
  <2>1. i <= p
    BY <1>1, <1>7 DEF Posted, Positions
  <2>2. Before(s) = g /\ ~ (s \subseteq g)
    BY <1>3
  <2> QED
    BY <1>0, <2>1, <2>2, MissedIsMisplaced
<1> QED
  BY <1>0, <1>3, <1>6, <1>7

\* What strands a member that has read everything.
LEMMA StrandedByGap ==
  ASSUME TypeOK, NoFork, Accounted
  PROVE  StrandedOnlyByGap
<1> SUFFICES ASSUME NEW d \in Devices, joined[d] # {}, Group(d) # device
             PROVE  LET s == After(Group(d), device) IN
                      Owed(s) \/ \E i \in Posted(s) : Misplaced(i)
  BY DEF StrandedOnlyByGap
<1> DEFINE p == Len(timeline)
<1>1. p \in Nat /\ p \in 0..p /\ Group(d) = GroupAfter(d)[p]
  BY DEF TypeOK, Group
<1>2. Leads(Group(d), device) /\ Leads(device, device)
  BY <1>1, GroupSaved, LeadsTrans, LeadsSelf DEF NoFork
<1>3. PICK x \in device \ Group(d) :
        /\ Upto(device, x) = After(Group(d), device)
        /\ Covered(Upto(device, x))
        /\ \A i \in Posted(Upto(device, x)) : p < i \/ Misplaced(i)
  BY <1>1, <1>2, Behind
<1>4. \A i \in Positions : ~ (p < i)
  BY <1>1 DEF Positions
<1> QED
  BY <1>3, <1>4 DEF Posted, Covered

\* What a member cannot open.
LEMMA UnreadAhead ==
  ASSUME TypeOK, NoFork, Accounted
  PROVE  UnreadOnlyAhead
<1> SUFFICES ASSUME NEW d \in Devices, NEW p \in Unread(d)
             PROVE  \E x \in timeline[p].at \ joined[d] :
                      LET s == {y \in timeline[p].at : y <= x} IN
                        /\ Posted(s) = {} => Owed(s)
                        /\ \A i \in Posted(s) : p < i \/ Misplaced(i)
  BY DEF UnreadOnlyAhead
<1> DEFINE t == timeline[p].at
           g == GroupAfter(d)[p]
<1>1. p \in Positions /\ p \in 0..Len(timeline) /\ 0 \in 0..Len(timeline) /\ 0 <= p
  BY DEF Unread, Positions, TypeOK
<1>2. joined[d] # {} /\ ~ Leads(t, g)
  BY DEF Unread
<1>3. Leads(t, saved) /\ Leads(g, saved) /\ saved \in SUBSET Nat
  BY <1>1, GroupSaved DEF NoFork, TypeOK, States
<1>4. Leads(g, t) /\ g # t /\ Leads(t, device)
  <2>1. Leads(g, t)
    BY <1>2, <1>3, LeadsEither
  <2>2. Leads(t, device)
    BY <1>3, LeadsTrans DEF NoFork
  <2> QED
    BY <1>2, <2>1, <2>2, LeadsSelf
<1>5. PICK x \in t \ g : /\ Covered(Upto(t, x))
                         /\ \A i \in Posted(Upto(t, x)) : p < i \/ Misplaced(i)
  BY <1>1, <1>2, <1>4, Behind
<1>6. joined[d] \subseteq g
  BY <1>1, GroupGrows, GroupAfterEach
<1> QED
  BY <1>5, <1>6 DEF Upto, Covered

------------------------------------------------------------------------------
\* What calls have in hand, call by call.
LEMMA InHandEach ==
  ASSUME NEW C \in SUBSET Calls
  PROVE  /\ \A c \in C \cap Busy : \E l \in InHand(C) : l.at = hand[c].at
         /\ \A l \in InHand(C) : \E c \in C \cap Busy : l.at = hand[c].at
<1>1. ASSUME NEW c \in C \cap Busy PROVE \E l \in InHand(C) : l.at = hand[c].at
  <2> DEFINE l == [at |-> hand[c].at, out |-> pc[c] = "commit"]
  <2>1. l \in InHand(C)
    BY Zenon DEF InHand, Busy
  <2>2. l.at = hand[c].at
    BY Zenon
  <2> HIDE DEF l
  <2> QED
    BY <2>1, <2>2
<1>2. ASSUME NEW l \in InHand(C) PROVE \E c \in C \cap Busy : l.at = hand[c].at
  <2>1. PICK c \in C \cap Busy : l = [at |-> hand[c].at, out |-> pc[c] = "commit"]
    BY DEF InHand, Busy
  <2>2. l.at = hand[c].at
    BY <2>1, Zenon
  <2> QED
    BY <2>2
<1> QED
  BY <1>1, <1>2

\* A commit is owed when it was given up or a call has it in hand.
OwedMeans == \A s : Owed(s) <=> \/ \E l \in lost : l.at = s
                                \/ \E c \in Busy : hand[c].at = s

\* It is so in every state.
LEMMA OwedIs == OwedMeans
<1>1. Busy \subseteq Calls
  BY DEF Busy
<1>2. /\ \A c \in Busy : \E l \in InHand(Calls) : l.at = hand[c].at
      /\ \A l \in InHand(Calls) : \E c \in Busy : l.at = hand[c].at
  BY <1>1, InHandEach
<1>3. \A s : Owed(s) <=> (\E l \in lost : l.at = s) \/ (\E l \in InHand(Calls) : l.at = s)
  BY DEF Owed
<1> QED
  BY <1>2, <1>3 DEF OwedMeans

\* What is posted stays posted, and what is owed is posted or stays owed.
LEMMA CoveredKept ==
  ASSUME TypeOK, SavedInv, [Next]_vars, NEW s, Covered(s)
  PROVE  Covered(s)'
<1> DEFINE Kept(C) == \A c \in Calls \ C : /\ hand'[c] = hand[c]
                                           /\ c \in Busy => c \in Busy'
<1>1. Owed(s) <=> (\E l \in lost : l.at = s) \/ \E c \in Busy : hand[c].at = s
  BY OwedIs DEF OwedMeans
<1>2. Owed(s)' <=> (\E l \in lost' : l.at = s) \/ \E c \in Busy' : hand'[c].at = s
  <2>1. OwedMeans'
    BY OwedIs, PTL
  <2> QED
    BY <2>1 DEF OwedMeans
<1>3. ASSUME NEW C \in SUBSET Calls, Kept(C), lost \subseteq lost', Owed(s),
             \A c \in C : c \in Busy /\ hand[c].at = s => Covered(s)'
      PROVE  Covered(s)'
  BY <1>1, <1>2, <1>3 DEF Covered, Busy
<1>4. ASSUME UNCHANGED timeline PROVE Posted(s) # {} => Covered(s)'
  BY <1>4 DEF Posted, Positions, Covered
<1>5. ASSUME NEW kind \in {"commit", "message"}, NEW u \in States, Post(kind, u)
      PROVE  /\ Posted(s) # {} => Covered(s)'
             /\ kind = "commit" /\ u = s => Covered(s)'
  <2>1. Posted(s) \subseteq Posted(s)'
    BY <1>5, PostGrows DEF Posted
  <2>2. kind = "commit" /\ u = s => Len(timeline') \in Posted(s)'
    BY <1>5, PostGrows DEF Posted, Positions
  <2> QED
    BY <2>1, <2>2 DEF Covered
<1>6. ASSUME NEW C \in SUBSET Calls, NEW where \in {"ok", "err"}, End(C, where),
             lost' = lost \cup InHand(C) \/ (lost \subseteq lost' /\ C \cap Busy = {}), Owed(s)
      PROVE  Covered(s)'
  <2>1. Kept(C)
    BY <1>6 DEF End, Busy
  <2>2. \A c \in C : c \in Busy => \E l \in lost' : l.at = hand[c].at
    BY <1>6, InHandEach
  <2>3. \A c \in C : c \in Busy /\ hand[c].at = s => Covered(s)'
    BY <1>2, <2>2 DEF Covered
  <2> QED
    BY <1>3, <1>6, <2>1, <2>3
<1>7. ASSUME UNCHANGED <<timeline, pc, hand>>, lost \subseteq lost' PROVE Covered(s)'
  BY <1>3, <1>4, <1>7 DEF Covered, Busy
<1>8. CASE CreateRoom \/ CreateRoomFails \/ Encrypt \/ (\E d \in Devices : Join(d))
           \/ UNCHANGED vars
  BY <1>7, <1>8 DEF CreateRoom, CreateRoomFails, Encrypt, Join, vars, call, server
<1>9. ASSUME NEW c \in Calls, \/ Invite(c) \/ (\E D \in SUBSET Devices : Claim(c, D))
                              \/ SendWelcome(c)
      PROVE  Covered(s)'
  <2>1. Kept({}) /\ UNCHANGED <<timeline, lost>>
    BY <1>9 DEF Invite, Claim, SendWelcome, Goto, Busy, TypeOK, server
  <2> QED
    BY <1>3, <1>4, <2>1 DEF Covered
<1>10. ASSUME NEW c \in Calls, NEW d \in Devices, AddMember(c, d) PROVE Covered(s)'
  <2>1. Kept({c}) /\ c \notin Busy /\ UNCHANGED <<timeline, lost>>
    BY <1>10 DEF AddMember, Goto, Busy, TypeOK, server
  <2> QED
    BY <1>3, <1>4, <2>1 DEF Covered
<1>11. ASSUME NEW c \in Calls, AddMemberFails(c) PROVE Covered(s)'
  <2>1. End({c}, "err") /\ {c} \in SUBSET Calls /\ {c} \cap Busy = {} /\ lost \subseteq lost'
        /\ UNCHANGED timeline
    BY <1>11 DEF AddMemberFails, Busy, server
  <2> QED
    BY <1>4, <1>6, <2>1 DEF Covered
<1>12. ASSUME NEW c \in Calls, Broadcast(c) PROVE Covered(s)'
  <2>1. Kept({c}) /\ UNCHANGED lost /\ Post("commit", hand[c].at)
    BY <1>12 DEF Broadcast, Goto, Busy, TypeOK
  <2>2. hand[c].at \in States
    BY <1>12 DEF Broadcast, SavedInv, Busy, TypeOK
  <2>3. Posted(s) # {} => Covered(s)'
    BY <1>5, <2>1, <2>2
  <2>4. hand[c].at = s => Covered(s)'
    BY <1>5, <2>1, <2>2
  <2>5. {c} \in SUBSET Calls /\ lost \subseteq lost' /\ \A k \in {c} : hand[k].at = s => Covered(s)'
    BY <2>1, <2>4
  <2>6. Owed(s) => Covered(s)'
    BY <1>3, <2>1, <2>5
  <2> QED
    BY <2>3, <2>6 DEF Covered
<1>13. ASSUME NEW c \in Calls, Finish(c) PROVE Covered(s)'
  <2>1. End({c}, "ok") /\ {c} \in SUBSET Calls /\ {c} \cap Busy = {} /\ lost' = lost
        /\ UNCHANGED timeline
    BY <1>13 DEF Finish, Busy, server
  <2> QED
    BY <1>4, <1>6, <2>1 DEF Covered
<1>14. ASSUME NEW c \in Calls, Fail(c) PROVE Covered(s)'
  <2>1. End({c}, "err") /\ {c} \in SUBSET Calls /\ lost' = lost \cup InHand({c})
        /\ UNCHANGED timeline
    BY <1>14 DEF Fail
  <2> QED
    BY <1>4, <1>6, <2>1 DEF Covered
<1>15. CASE (\E l \in lost : ArrivesLate(l)) \/ Deliver
  <2>1. Kept({}) /\ UNCHANGED lost
    BY <1>15 DEF ArrivesLate, Deliver, call, Busy
  <2>2. PICK kind \in {"commit", "message"}, u \in States : Post(kind, u)
    BY <1>15 DEF ArrivesLate, Deliver, TypeOK
  <2> QED
    BY <1>3, <1>5, <2>1, <2>2 DEF Covered
<1>16. CASE Crash
  <2> DEFINE C == {c \in Calls : pc[c] \in Active}
  <2>1. /\ End(C, "err") /\ C \in SUBSET Calls /\ lost' = lost \cup InHand(Calls)
        /\ UNCHANGED timeline
    BY <1>16 DEF Crash, server
  <2>2. InHand(Calls) = InHand(C)
    BY DEF InHand, Active
  <2> QED
    BY <1>4, <1>6, <2>1, <2>2 DEF Covered
<1> QED
  BY <1>8, <1>9, <1>10, <1>11, <1>12, <1>13, <1>14, <1>15, <1>16 DEF Next, Step

\* A step keeps every commit of the host accounted for: a new one is in hand or given up.
LEMMA AccountedKept ==
  ASSUME TypeOK, NoFork, SavedInv, Accounted, [Next]_vars
  PROVE  Accounted'
<1>0. device \in SUBSET Nat /\ made \in Nat /\ saved \subseteq device
  BY DEF TypeOK, States, NoFork, Leads
<1>01. OwedMeans'
  BY OwedIs, PTL
<1>1. ASSUME NEW x \in device \ {0}, Upto(device', x) = Upto(device, x)
      PROVE  Covered(Upto(device, x))'
  <2>1. PICK s : s = Upto(device, x)
    OBVIOUS
  <2>2. Covered(s)'
    BY <2>1, CoveredKept DEF Accounted
  <2> QED
    BY <1>1, <2>1, <2>2
<1>2. ASSUME device' = device PROVE Accounted'
  BY <1>1, <1>2 DEF Accounted
<1>3. ASSUME device' \subseteq {0} PROVE Accounted'
  BY <1>3 DEF Accounted
<1>4. ASSUME made' = made + 1, device' = device \cup {made'}, Owed(device)'
      PROVE  Accounted'
  <2>1. ASSUME NEW x \in device' \ {0} PROVE Covered(Upto(device, x))'
    <3>1. \A y \in device : y <= made /\ y < made'
      BY <1>0, <1>4 DEF SavedInv
    <3>2. CASE x = made'
      <4>1. \A y \in device' : y <= x
        BY <1>0, <1>4, <3>1, <3>2
      <4>2. Upto(device', x) = device'
        BY <4>1 DEF Upto
      <4> QED
        BY <1>4, <4>2 DEF Covered
    <3>3. CASE x # made'
      <4>1. x \in device \ {0} /\ ~ (made' <= x)
        BY <1>0, <1>4, <2>1, <3>1, <3>3
      <4>2. Upto(device', x) = Upto(device, x)
        BY <1>4, <4>1 DEF Upto
      <4> QED
        BY <1>1, <4>1, <4>2
    <3> QED
      BY <3>2, <3>3
  <2> QED
    BY <2>1 DEF Accounted
<1>5. CASE CreateRoom \/ CreateRoomFails
  BY <1>3, <1>5 DEF CreateRoom, CreateRoomFails
<1>6. ASSUME NEW c \in Calls, NEW d \in Devices, AddMember(c, d) PROVE Accounted'
  <2>1. made' = made + 1 /\ device' = device \cup {made'}
    BY <1>6 DEF AddMember
  <2>2. hand'[c].at = device' /\ pc'[c] = "welcome"
    BY <1>6 DEF AddMember, Goto, TypeOK
  <2>3. Owed(device)'
    BY <1>01, <2>2 DEF OwedMeans, Busy
  <2> QED
    BY <1>4, <2>1, <2>3
<1>7. ASSUME NEW c \in Calls, AddMemberFails(c) PROVE Accounted'
  <2>1. CASE UNCHANGED device
    BY <1>2, <2>1
  <2>2. CASE /\ made' = made + 1 /\ device' = device \cup {made'}
             /\ lost' = lost \cup {[at |-> device', out |-> FALSE]}
    <3>1. [at |-> device', out |-> FALSE] \in lost' /\ [at |-> device', out |-> FALSE].at = device'
      BY <2>2
    <3>2. Owed(device)'
      BY <1>01, <3>1 DEF OwedMeans
    <3> QED
      BY <1>4, <2>2, <3>2
  <2> QED
    BY <1>7, <2>1, <2>2 DEF AddMemberFails
<1>8. CASE Crash
  <2>1. device' = saved
    BY <1>8 DEF Crash
  <2>2. \A x \in saved : Upto(saved, x) = Upto(device, x)
    BY <1>0, UptoStage DEF NoFork
  <2> QED
    BY <1>0, <1>1, <2>1, <2>2 DEF Accounted
<1>9. ASSUME NEW c \in Calls,
             \/ Invite(c) \/ (\E D \in SUBSET Devices : Claim(c, D))
             \/ SendWelcome(c) \/ Broadcast(c) \/ Finish(c) \/ Fail(c)
      PROVE  Accounted'
  BY <1>2, <1>9 DEF Invite, Claim, SendWelcome, Broadcast, Finish, Fail, host
<1>10. CASE Encrypt \/ (\E l \in lost : ArrivesLate(l)) \/ Deliver
            \/ (\E d \in Devices : Join(d)) \/ UNCHANGED vars
  BY <1>2, <1>10 DEF Encrypt, ArrivesLate, Deliver, Join, vars, host
<1> QED
  BY <1>5, <1>6, <1>7, <1>8, <1>9, <1>10 DEF Next, Step

------------------------------------------------------------------------------
\* Every behaviour keeps the inductive invariant.
THEOREM Invariance == Spec => []IInv
<1>1. Init => IInv
  <2> SUFFICES ASSUME Init PROVE IInv
    OBVIOUS
  <2>1. TypeOK
    <3>1. /\ device \in States /\ saved \in States /\ sending \in States /\ lost = {}
          /\ joined \in [Devices -> States]
      BY DEF Init, States
    <3>2. made \in 0..MaxAdds /\ sent \in 0..MaxMessages /\ faults \in 0..MaxFaults
      BY InviteBounds DEF Init
    <3>3. /\ pc \in [Calls -> {"idle", "ok", "err"} \cup Active]
          /\ todo \in [Calls -> SUBSET Devices] /\ claimed \in [Calls -> SUBSET Devices]
          /\ hand \in [Calls -> [to : Devices, at : States] \cup {Nobody}]
      BY DEF Init
    <3>4. timeline \in Seq(Entry)
      BY EmptySeq DEF Init
    <3>5. welcomes = {} /\ roomMade \in BOOLEAN
      BY DEF Init
    <3> QED
      BY <3>1, <3>2, <3>3, <3>4, <3>5 DEF TypeOK, Entry
  <2>2. NoFork /\ SavedInv
    BY LeadsSelf DEF Init, NoFork, SavedInv, Positions, Busy
  <2>3. CallInv
    BY DEF Init, CallInv
  <2>4. Accounted
    BY DEF Init, Accounted
  <2> QED
    BY <2>1, <2>2, <2>3, <2>4 DEF IInv
<1>2. IInv /\ [Next]_vars => IInv'
  BY TypeKept, ForkKept, CallsKept, AccountedKept DEF IInv
<1> QED
  BY <1>1, <1>2, PTL DEF Spec

\* TypeOK, for any devices and bounds.
THEOREM Typed == Spec => []TypeOK
BY Invariance, PTL DEF IInv

\* add_member persists before its outcome is sent: what others hold is always a stage of
\* what the host has saved, across failures and restarts.
THEOREM NeverForks == Spec => []NoFork
BY Invariance, PTL DEF IInv

\* welcome_to_group returns Ok only when each claimed device has its Welcome and the room
\* the commit.
THEOREM OkIsAdded == Spec => []OkMeansAdded
<1>1. CallInv => OkMeansAdded
  BY DEF CallInv, OkMeansAdded, Added
<1> QED
  BY <1>1, Invariance, PTL DEF IInv

\* welcome_to_group: a member who has read everything and is behind the host lacks a commit
\* that is in hand, was given up, or was posted out of order.  No other step strands it.
THEOREM StrandedIsExplained == Spec => []StrandedOnlyByGap
BY Invariance, StrandedByGap, PTL DEF IInv

\* encrypt_for_send: so for a message a member could not open, which may also have come
\* before the commit.
THEOREM UnreadIsExplained == Spec => []UnreadOnlyAhead
BY Invariance, UnreadAhead, PTL DEF IInv

\* Members may have read different lengths of the timeline and missed different commits, but
\* they are never on two branches of the group.
MembersAgree == \A d, e \in Devices : Leads(Group(d), Group(e)) \/ Leads(Group(e), Group(d))

\* add_member, broadcast: of any two members, one is at a stage of the other's state.
THEOREM OneBranch == Spec => []MembersAgree
<1>1. ASSUME TypeOK, NoFork, NEW d \in Devices, NEW e \in Devices
      PROVE  Leads(Group(d), Group(e)) \/ Leads(Group(e), Group(d))
  <2>1. Len(timeline) \in 0..Len(timeline) /\ saved \in SUBSET Nat
    BY <1>1 DEF TypeOK, States
  <2>2. Leads(Group(d), saved) /\ Leads(Group(e), saved)
    BY <1>1, <2>1, GroupSaved DEF Group
  <2> QED
    BY <2>1, <2>2, LeadsEither
<1>2. TypeOK /\ NoFork => MembersAgree
  BY <1>1 DEF MembersAgree
<1> QED
  BY <1>2, Invariance, PTL DEF IInv

\* No commit is in hand, was given up, or was posted out of order.
NothingMissing ==
  /\ lost = {} /\ Busy = {}
  /\ \A i \in Positions : timeline[i].kind = "message" \/ ~ Misplaced(i)

\* What CatchUp promises in the end, of the states that have got there.
CaughtUp == NothingMissing => \A d \in Devices : joined[d] # {} => Group(d) = device

\* welcome_to_group: once every commit is broadcast in its order, whoever has joined and read
\* the timeline is at the host's state.
THEOREM QuietMeansCaughtUp == Spec => []CaughtUp
<1>1. StrandedOnlyByGap => CaughtUp
  <2> SUFFICES ASSUME StrandedOnlyByGap, NothingMissing, NEW d \in Devices, joined[d] # {},
                      Group(d) # device
               PROVE  FALSE
    BY DEF CaughtUp
  <2> DEFINE s == After(Group(d), device)
  <2>1. Owed(s) \/ \E i \in Posted(s) : Misplaced(i)
    BY DEF StrandedOnlyByGap
  <2>2. ~ Owed(s)
    BY OwedIs DEF OwedMeans, NothingMissing
  <2>3. \A i \in Posted(s) : i \in Positions /\ timeline[i].kind = "commit"
    BY DEF Posted
  <2> QED
    BY <2>1, <2>2, <2>3 DEF NothingMissing
<1> QED
  BY <1>1, StrandedIsExplained, PTL
==============================================================================
