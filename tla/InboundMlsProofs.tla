--------------------------- MODULE InboundMlsProofs ---------------------------
(***************************************************************************)
(* Proofs about InboundMls, for any openers, fetch limit, and number of    *)
(* events and faults: a message that should have been readable is shown as *)
(* undecryptable, and a group stays behind, for the named causes only; and *)
(* none of it happens by order alone unless a room is opened.              *)
(*                                                                         *)
(* The argument.  StreamInv: a message is preceded by the commits of all   *)
(* epochs below its own, and by no other.  So if the device is behind a    *)
(* message it handles, a commit before it is pending (then it is overtaken *)
(* now) or was consumed in vain (then CommitInv has the excuse); if the    *)
(* device is ahead, EpochInv says that the message was overtaken when the  *)
(* device moved on; and if the epochs agree, the key has been used up, and *)
(* KeyInv knows where the text went.                                       *)
(***************************************************************************)
EXTENDS InboundMls, SequenceTheorems, TLAPS

\* The type of an event.
Event == [kind : {"commit", "message"}, epoch : Nat, late : BOOLEAN]

\* The inductive invariant.
IInv == /\ TypeOK /\ StreamInv /\ PassInv /\ KeyInv
        /\ EpochInv /\ CommitInv /\ MessageInv /\ FreshInv

\* Every event has a kind, an epoch and a flag.
LEMMA EventTyped ==
  ASSUME TypeOK, NEW e \in Events
  PROVE  stream[e] \in Event /\ e \in Nat \ {0} /\ Epoch(e) \in Nat
<1>1. stream \in Seq(Event) /\ e \in 1..Len(stream)
  BY DEF TypeOK, Event, Events
<1>2. stream[e] \in Event
  BY <1>1, ElementOfSeq
<1> QED
  BY <1>1, <1>2 DEF Event, Epoch

\* Every event is within the bound.
LEMMA EventInRange ==
  ASSUME TypeOK, NEW e \in Events
  PROVE  e \in 1..MaxEvents
BY InboundBounds DEF TypeOK, Events

\* A pass is at one event.
LEMMA FirstUnique ==
  ASSUME TypeOK, NEW t \in Tasks, NEW e, NEW f, First(t, e), First(t, f)
  PROVE  e = f
<1>1. todo[t] \subseteq Nat /\ e \in todo[t] /\ f \in todo[t]
  BY DEF TypeOK, First, Events
<1>2. e <= f /\ f <= e
  BY DEF First
<1> QED
  BY <1>1, <1>2

\* A new event is one more position; the others stay as they are.
LEMMA SendKeepsEvents ==
  ASSUME TypeOK, NEW kind \in {"commit", "message"}, NEW n \in Nat, NEW late \in BOOLEAN,
         Send(kind, n, late)
  PROVE  /\ stream' \in Seq(Event) /\ Len(stream') <= MaxEvents
         /\ Len(stream') = Len(stream) + 1
         /\ \A e \in Events : stream'[e] = stream[e]
         /\ stream'[Len(stream')] = [kind |-> kind, epoch |-> n, late |-> late]
         /\ Events \subseteq Events' /\ Events' = Events \cup {Len(stream')}
         /\ Len(stream') \notin Events /\ Len(stream') \in 1..MaxEvents
BY InboundBounds DEF TypeOK, Send, Event, Events

\* The position of a new event is a number.
LEMMA NewIsNat ==
  ASSUME TypeOK, NEW kind, NEW n, NEW late, Send(kind, n, late)
  PROVE  Len(stream') \in Nat
BY DEF TypeOK, Send

\* A new event leaves everything typed.
LEMMA SendTyped ==
  ASSUME TypeOK, NEW kind \in {"commit", "message"}, NEW n \in Nat, NEW late \in BOOLEAN,
         Send(kind, n, late), group' \in Nat
  PROVE  TypeOK'
<1>1. /\ stream' \in Seq(Event) /\ Len(stream') <= MaxEvents /\ Events \subseteq Events'
      /\ Len(stream') = Len(stream) + 1 /\ Len(stream) \in Nat
  <2>1. Len(stream) \in Nat
    BY DEF TypeOK
  <2> QED
    BY <2>1, SendKeepsEvents
<1>2. synced' \in 0..Len(stream')
  BY <1>1 DEF Send, TypeOK, disk
<1> QED
  BY <1>1, <1>2 DEF Send, Event, TypeOK, disk, mls, history

\* Faults stay within their bound.
LEMMA FaultTyped ==
  ASSUME TypeOK, Fault \/ UNCHANGED faults
  PROVE  faults' \in 0..MaxFaults
BY InboundBounds DEF TypeOK, Fault

\* A task goes to one of the places.
LEMMA GotoTyped ==
  ASSUME TypeOK, NEW t \in Tasks, NEW where \in {"idle", "join", "start", "pass", "mark"},
         Goto(t, where)
  PROVE  pc' \in [Tasks -> {"idle", "join", "start", "pass", "mark"}]
BY DEF TypeOK, Goto

\* A step of a pass that has an answer of the device.
LEMMA HandleTyped ==
  ASSUME TypeOK, NEW t \in Tasks, NEW e \in Events, NEW r \in Results, Handle(t, e, r)
  PROVE  /\ result' \in [Tasks -> Results] /\ missed' \subseteq Events /\ Events' = Events
         /\ pc' \in [Tasks -> {"idle", "join", "start", "pass", "mark"}]
<1>1. Overtaken(e) \subseteq Events
  BY DEF Overtaken, Events, TypeOK
<1>2. Goto(t, "mark") /\ Events' = Events
  BY DEF Handle, room, Events
<1>3. pc' \in [Tasks -> {"idle", "join", "start", "pass", "mark"}]
  BY <1>2, GotoTyped
<1> QED
  BY <1>1, <1>2, <1>3 DEF Handle, TypeOK

\* TypeOK is kept by every step.
LEMMA TypeKept ==
  ASSUME TypeOK, [Next]_vars
  PROVE  TypeOK'
<1> USE DEF room, disk, mls, history
<1>1. CASE Invite
  BY <1>1 DEF Invite, TypeOK, Events
<1>2. CASE SendCommit
  <2>1. Send("commit", group, FALSE)
    BY <1>2 DEF SendCommit
  <2>2. group \in Nat /\ group' = group + 1
    BY <1>2 DEF SendCommit, TypeOK
  <2>3. group' \in Nat
    BY <2>2
  <2> QED
    BY <2>1, <2>2, <2>3, SendTyped
<1>3. CASE SendMessage
  <2>1. group \in Nat /\ group' \in Nat /\ Send("message", group, FALSE)
    BY <1>3 DEF SendMessage, TypeOK
  <2> QED
    BY <2>1, SendTyped
<1>4. CASE SendLate
  <2>1. Send("message", group - 1, TRUE)
    BY <1>4 DEF SendLate
  <2>2. group - 1 \in Nat /\ group' \in Nat
    BY <1>4 DEF SendLate, TypeOK
  <2> QED
    BY <2>1, <2>2, SendTyped
<1>5. ASSUME NEW n \in 0..Len(stream), SyncApply(n)
      PROVE  TypeOK'
  <2>1. pc' \in [Tasks -> {"idle", "join", "start", "pass", "mark"}]
    BY <1>5, GotoTyped DEF SyncApply, Tasks
  <2>2. log' \subseteq Events /\ synced' \in 0..Len(stream)
    BY <1>5 DEF SyncApply, TypeOK, Events
  <2> QED
    BY <1>5, <2>1, <2>2 DEF SyncApply, TypeOK, Events
<1>6. ASSUME NEW n \in 0..Len(stream), NEW t \in Openers, FetchApply(t, n)
      PROVE  TypeOK'
  <2>1. pc' \in [Tasks -> {"idle", "join", "start", "pass", "mark"}]
    BY <1>6, GotoTyped DEF FetchApply, Tasks
  <2>2. log' \subseteq log \cup 1..n /\ Len(stream) \in Nat
    BY <1>6 DEF FetchApply, TypeOK
  <2>3. log' \subseteq Events
    BY <2>2 DEF TypeOK, Events
  <2> QED
    BY <1>6, <2>1, <2>3 DEF FetchApply, TypeOK, Events
<1>7. CASE NoWelcome
  BY <1>7, GotoTyped DEF NoWelcome, Tasks, TypeOK, Events
<1>8. CASE Join
  <2>1. faults' \in 0..MaxFaults
    BY <1>8, FaultTyped DEF Join, Saved, Refused
  <2>2. pc' \in [Tasks -> {"idle", "join", "start", "pass", "mark"}]
    BY <1>8, GotoTyped DEF Join, Tasks
  <2>3. device' \in [epoch : Nat, used : SUBSET Events]
        /\ kept' \in [epoch : Nat, used : SUBSET Events]
    BY <1>8 DEF Join, Saved, Refused, TypeOK
  <2> QED
    BY <1>8, <2>1, <2>2, <2>3 DEF Join, TypeOK, Events
<1>9. CASE Crash
  <2>1. faults' \in 0..MaxFaults
    BY <1>9, FaultTyped DEF Crash
  <2>2. InHand(Tasks) \subseteq Events
    BY DEF InHand
  <2> QED
    BY <1>9, <2>1, <2>2 DEF Crash, TypeOK, Events, Results
<1>10. ASSUME NEW t \in Tasks, StoreFails(t)
       PROVE  TypeOK'
  <2>1. faults' \in 0..MaxFaults
    BY <1>10, FaultTyped DEF StoreFails
  <2>2. InHand({t}) \subseteq Events
    BY DEF InHand
  <2>3. pc' \in [Tasks -> {"idle", "join", "start", "pass", "mark"}]
    BY <1>10, GotoTyped DEF StoreFails
  <2> QED
    BY <1>10, <2>1, <2>2, <2>3 DEF StoreFails, TypeOK, Events, Results
<1>11. ASSUME NEW t \in Tasks, StartPass(t) \/ EndPass(t)
       PROVE  TypeOK'
  <2>1. pc' \in [Tasks -> {"idle", "join", "start", "pass", "mark"}]
    BY <1>11, GotoTyped DEF StartPass, EndPass
  <2> QED
    BY <1>11, <2>1 DEF StartPass, EndPass, TypeOK, Events
<1>12. ASSUME NEW t \in Tasks, NEW e \in Events, LeavePending(t, e)
       PROVE  TypeOK'
  BY <1>12 DEF LeavePending, TypeOK, Events
<1>13. ASSUME NEW t \in Tasks, NEW e \in Events, ProcessCommit(t, e)
       PROVE  TypeOK'
  <2>1. faults' \in 0..MaxFaults
    BY <1>13, FaultTyped DEF ProcessCommit, Saved, Refused
  <2>2. Handle(t, e, "done") /\ "done" \in Results
    BY <1>13 DEF ProcessCommit, Results
  <2>3. device' \in [epoch : Nat, used : SUBSET Events]
        /\ kept' \in [epoch : Nat, used : SUBSET Events]
    BY <1>13 DEF ProcessCommit, Saved, Refused, TypeOK
  <2> QED
    BY <1>13, <2>1, <2>2, <2>3, HandleTyped DEF ProcessCommit, Handle, TypeOK, Events
<1>14. ASSUME NEW t \in Tasks, NEW e \in Events, Decrypt(t, e)
       PROVE  TypeOK'
  <2>1. faults' \in 0..MaxFaults
    BY <1>14, FaultTyped DEF Decrypt, Saved, Refused
  <2>2. PICK r \in Results : Handle(t, e, r)
    BY <1>14 DEF Decrypt, Results
  <2>3. device' \in [epoch : Nat, used : SUBSET Events]
        /\ kept' \in [epoch : Nat, used : SUBSET Events]
    BY <1>14 DEF Decrypt, Saved, Refused, TypeOK
  <2>4. cut' \subseteq Events
    BY <1>14 DEF Decrypt, TypeOK
  <2> QED
    BY <2>1, <2>2, <2>3, <2>4, HandleTyped DEF Handle, TypeOK, Events
<1>15. ASSUME NEW t \in Tasks, NEW e \in Events, DecryptFails(t, e)
       PROVE  TypeOK'
  <2>1. Handle(t, e, "failed") /\ "failed" \in Results
    BY <1>15 DEF DecryptFails, Results
  <2> QED
    BY <1>15, <2>1, HandleTyped DEF DecryptFails, Handle, TypeOK, Events
<1>16. ASSUME NEW t \in Tasks, NEW e \in Events, Mark(t, e)
       PROVE  TypeOK'
  <2>1. pc' \in [Tasks -> {"idle", "join", "start", "pass", "mark"}]
    BY <1>16, GotoTyped DEF Mark
  <2> QED
    BY <1>16, <2>1 DEF Mark, TypeOK, States, Results, Events
<1>17. CASE UNCHANGED vars
  BY <1>17 DEF vars, TypeOK, Events
<1> QED
  BY <1>1, <1>2, <1>3, <1>4, <1>5, <1>6, <1>7, <1>8, <1>9, <1>10, <1>11, <1>12, <1>13,
     <1>14, <1>15, <1>16, <1>17 DEF Next, PassStep


------------------------------------------------------------------------------
\* What a step does to the events: nothing, or one is appended, or we are invited.
LEMMA StreamSteps ==
  ASSUME TypeOK, [Next]_vars
  PROVE  \/ UNCHANGED <<stream, group, welcome>>
         \/ Invite
         \/ SendCommit \/ SendMessage \/ SendLate
<1>1. ASSUME NEW t \in Tasks, PassStep(t)
      PROVE  UNCHANGED <<stream, group, welcome>>
  BY <1>1 DEF PassStep, room, StartPass, EndPass, LeavePending, ProcessCommit, Decrypt,
              DecryptFails, Handle, Mark
<1>2. ASSUME NEW n \in 0..Len(stream), SyncApply(n) \/ \E t \in Openers : FetchApply(t, n)
      PROVE  UNCHANGED <<stream, group, welcome>>
  BY <1>2 DEF room, SyncApply, FetchApply
<1>3. NoWelcome \/ Join \/ Crash \/ (\E t \in Tasks : StoreFails(t)) \/ UNCHANGED vars
        => UNCHANGED <<stream, group, welcome>>
  BY DEF vars, room, NoWelcome, Join, Crash, StoreFails
<1> QED
  BY <1>1, <1>2, <1>3 DEF Next

\* Events stay what they are; a new one is of the group's epoch, or a late message.
LEMMA EventsGrow ==
  ASSUME TypeOK, StreamInv, [Next]_vars
  PROVE  /\ Events \subseteq Events'
         /\ \A e \in Events : stream'[e] = stream[e]
         /\ Commits \subseteq Commits' /\ Commits' \cap Events = Commits
         /\ \A e \in Events' \ Events :
              /\ e = Len(stream) + 1 /\ e \in 1..MaxEvents
              /\ stream'[e].late \/ stream'[e].epoch = group
<1>1. CASE UNCHANGED <<stream, group, welcome>>
  BY <1>1 DEF Events, Commits
<1>2. CASE Invite
  BY <1>2 DEF Invite, Events, Commits
<1>3. ASSUME NEW kind \in {"commit", "message"}, NEW n \in Nat, NEW late \in BOOLEAN,
             Send(kind, n, late), late \/ n = group
      PROVE  /\ Events \subseteq Events'
             /\ \A e \in Events : stream'[e] = stream[e]
             /\ Commits \subseteq Commits' /\ Commits' \cap Events = Commits
             /\ \A e \in Events' \ Events :
                  /\ e = Len(stream) + 1 /\ e \in 1..MaxEvents
                  /\ stream'[e].late \/ stream'[e].epoch = group
  <2>1. /\ \A e \in Events : stream'[e] = stream[e]
        /\ stream'[Len(stream')] = [kind |-> kind, epoch |-> n, late |-> late]
        /\ Events \subseteq Events' /\ Events' = Events \cup {Len(stream')}
        /\ Len(stream') = Len(stream) + 1 /\ Len(stream') \in 1..MaxEvents
    BY <1>3, SendKeepsEvents
  <2>2. Commits \subseteq Commits' /\ Commits' \cap Events = Commits
    BY <2>1 DEF Commits
  <2> QED
    BY <1>3, <2>1, <2>2
<1>4. group \in Nat
  BY DEF TypeOK
<1>5. CASE SendCommit
  BY <1>3, <1>4, <1>5 DEF SendCommit
<1>6. CASE SendMessage
  BY <1>3, <1>4, <1>6 DEF SendMessage
<1>7. CASE SendLate
  <2>1. Send("message", group - 1, TRUE)
    BY <1>7 DEF SendLate
  <2>2. group - 1 \in Nat
    BY <1>4, <1>7 DEF SendLate
  <2> QED
    BY <1>3, <2>1, <2>2
<1> QED
  BY <1>1, <1>2, <1>5, <1>6, <1>7, StreamSteps

\* No event becomes ours by our being invited later.
LEMMA OursStays ==
  ASSUME TypeOK, StreamInv, [Next]_vars, NEW e \in Events, Ours(e)'
  PROVE  Ours(e)
<1>1. stream'[e] = stream[e] /\ (e \in Commits' <=> e \in Commits)
  BY EventsGrow
<1>2. CASE welcome' = welcome
  BY <1>1, <1>2 DEF Ours, Epoch
<1>3. CASE Invite
  <2>1. Epoch(e) <= group /\ welcome' = group + 1 /\ Epoch(e) \in Nat /\ group \in Nat
    BY <1>3, EventTyped DEF Invite, StreamInv, TypeOK
  <2> QED
    BY <1>1, <2>1 DEF Ours, Epoch
<1> QED
  BY <1>2, <1>3, StreamSteps DEF SendCommit, SendMessage, SendLate, Send

\* The events stay well ordered.
LEMMA StreamKept ==
  ASSUME TypeOK, StreamInv, [Next]_vars
  PROVE  StreamInv'
<1>1. CASE UNCHANGED <<stream, group, welcome>>
  BY <1>1 DEF StreamInv, Commits, Events, Epoch
<1>2. CASE Invite
  BY <1>2 DEF Invite, StreamInv, Commits, Events, Epoch
<1>3. group \in Nat /\ \A e \in Events : e \in Nat /\ e <= Len(stream) /\ Epoch(e) \in Nat
  <2>1. group \in Nat /\ \A e \in Events : e <= Len(stream)
    BY DEF TypeOK, Events
  <2> QED
    BY <2>1, EventTyped
<1>4. CASE SendCommit
  <2>0. PICK new \in Nat : new = Len(stream')
    BY <1>4, NewIsNat DEF SendCommit
  <2>1. Send("commit", group, FALSE) /\ group' = group + 1
    BY <1>4 DEF SendCommit
  <2>2. /\ \A e \in Events : stream'[e] = stream[e]
        /\ stream'[new] = [kind |-> "commit", epoch |-> group, late |-> FALSE]
        /\ Events' = Events \cup {new} /\ new \notin Events /\ new = Len(stream) + 1
    BY <1>3, <2>0, <2>1, SendKeepsEvents
  <2>3. Commits' = Commits \cup {new}
    BY <2>2 DEF Commits
  <2>4. \A e \in Events : Epoch(e)' = Epoch(e) /\ e < new
    BY <1>3, <2>2 DEF Epoch
  <2>5. Epoch(new)' = group /\ ~ stream'[new].late
    BY <2>2 DEF Epoch
  <2>6. \A c \in Commits' : ~ stream'[c].late /\ Epoch(c)' < group'
    <3>1. \A c \in Commits : c \in Events /\ ~ stream[c].late /\ Epoch(c) < group
      BY DEF StreamInv, Commits
    <3>2. \A c \in Commits : ~ stream'[c].late /\ Epoch(c)' < group'
      BY <1>3, <2>1, <2>2, <2>4, <3>1
    <3>3. ~ stream'[new].late /\ Epoch(new)' < group'
      BY <1>3, <2>1, <2>5
    <3> QED
      BY <2>3, <3>2, <3>3
  <2>7. \A e \in Events' : Epoch(e)' <= group'
    BY <1>3, <2>1, <2>2, <2>4, <2>5 DEF StreamInv
  <2>8. \A n \in 0..(group' - 1) : \E c \in Commits' : Epoch(c)' = n
    <3>1. \A n \in 0..(group' - 1) : n \in 0..(group - 1) \/ n = group
      BY <1>3, <2>1
    <3> QED
      BY <2>3, <2>4, <2>5, <3>1 DEF StreamInv, Commits
  <2>9. ASSUME NEW e \in Events', ~ stream'[e].late
        PROVE  /\ \A n \in 0..(Epoch(e)' - 1) : \E c \in Commits' : c < e /\ Epoch(c)' = n
               /\ \A c \in Commits' : c < e => Epoch(c)' < Epoch(e)'
    <3>1. CASE e = new
      <4>1. /\ \A k \in 0..(group - 1) : \E c \in Commits : Epoch(c) = k
            /\ \A c \in Commits : c \in Events /\ Epoch(c) < group
        BY DEF StreamInv, Commits
      <4>2. \A c \in Commits : c < e /\ Epoch(c)' = Epoch(c)
        BY <2>4, <3>1, <4>1
      <4>3. Epoch(e)' = group
        BY <2>5, <3>1
      <4>4. \A k \in 0..(Epoch(e)' - 1) : \E c \in Commits' : c < e /\ Epoch(c)' = k
        BY <2>3, <4>1, <4>2, <4>3
      <4>5. ~ (new < e)
        BY <2>0, <3>1
      <4>6. \A c \in Commits' : c < e => Epoch(c)' < Epoch(e)'
        BY <2>3, <4>1, <4>2, <4>3, <4>5
      <4> QED
        BY <4>4, <4>6
    <3>2. CASE e \in Events
      <4>1. ~ stream[e].late /\ Epoch(e)' = Epoch(e) /\ Commits \subseteq Events
        BY <2>2, <2>4, <2>9, <3>2 DEF Commits
      <4>2. \A n \in 0..(Epoch(e) - 1) : \E c \in Commits : c < e /\ Epoch(c) = n
        BY <3>2, <4>1 DEF StreamInv
      <4>3. \A c \in Commits : c < e => Epoch(c) < Epoch(e)
        BY <3>2, <4>1 DEF StreamInv
      <4>4. ~ (new < e)
        BY <1>3, <2>4, <3>2
      <4> QED
        BY <2>3, <2>4, <4>1, <4>2, <4>3, <4>4
    <3> QED
      BY <2>2, <3>1, <3>2
  <2> QED
    BY <2>6, <2>7, <2>8, <2>9 DEF StreamInv
<1>5. ASSUME NEW n \in Nat, NEW late \in BOOLEAN, Send("message", n, late), group' = group,
             IF late THEN n <= group ELSE n = group
      PROVE  StreamInv'
  <2>0. PICK new \in Nat : new = Len(stream')
    BY <1>5, NewIsNat
  <2>1. /\ \A e \in Events : stream'[e] = stream[e]
        /\ stream'[new] = [kind |-> "message", epoch |-> n, late |-> late]
        /\ Events' = Events \cup {new} /\ new \notin Events /\ new = Len(stream) + 1
    BY <1>5, <2>0, SendKeepsEvents
  <2>2. Commits' = Commits
    BY <2>1 DEF Commits
  <2>3. \A e \in Events : Epoch(e)' = Epoch(e) /\ e < new
    BY <1>3, <2>1 DEF Epoch
  <2>4. Epoch(new)' = n /\ stream'[new].late = late
    BY <2>1 DEF Epoch
  <2>5. \A c \in Commits' : ~ stream'[c].late /\ Epoch(c)' < group'
    BY <1>5, <2>1, <2>2, <2>3 DEF StreamInv, Commits
  <2>6. \A e \in Events' : Epoch(e)' <= group'
    BY <1>3, <1>5, <2>1, <2>3, <2>4 DEF StreamInv
  <2>7. \A k \in 0..(group' - 1) : \E c \in Commits' : Epoch(c)' = k
    BY <1>5, <2>2, <2>3 DEF StreamInv, Commits
  <2>8. ASSUME NEW e \in Events', ~ stream'[e].late
        PROVE  /\ \A k \in 0..(Epoch(e)' - 1) : \E c \in Commits' : c < e /\ Epoch(c)' = k
               /\ \A c \in Commits' : c < e => Epoch(c)' < Epoch(e)'
    <3>1. CASE e = new
      <4>1. /\ \A k \in 0..(group - 1) : \E c \in Commits : Epoch(c) = k
            /\ \A c \in Commits : c \in Events /\ Epoch(c) < group
        BY DEF StreamInv, Commits
      <4>2. \A c \in Commits : c < e /\ Epoch(c)' = Epoch(c)
        BY <2>3, <3>1, <4>1
      <4>3. Epoch(e)' = group
        BY <1>5, <2>4, <2>8, <3>1
      <4>4. \A k \in 0..(Epoch(e)' - 1) : \E c \in Commits' : c < e /\ Epoch(c)' = k
        BY <2>2, <4>1, <4>2, <4>3
      <4>5. \A c \in Commits' : c < e => Epoch(c)' < Epoch(e)'
        BY <2>2, <4>1, <4>2, <4>3
      <4> QED
        BY <4>4, <4>5
    <3>2. CASE e \in Events
      <4>1. ~ stream[e].late /\ Epoch(e)' = Epoch(e) /\ Commits \subseteq Events
        BY <2>1, <2>3, <2>8, <3>2 DEF Commits
      <4>2. \A k \in 0..(Epoch(e) - 1) : \E c \in Commits : c < e /\ Epoch(c) = k
        BY <3>2, <4>1 DEF StreamInv
      <4>3. \A c \in Commits : c < e => Epoch(c) < Epoch(e)
        BY <3>2, <4>1 DEF StreamInv
      <4> QED
        BY <2>2, <2>3, <4>1, <4>2, <4>3
    <3> QED
      BY <2>1, <3>1, <3>2
  <2> QED
    BY <2>5, <2>6, <2>7, <2>8 DEF StreamInv
<1>6. CASE SendMessage
  BY <1>3, <1>5, <1>6 DEF SendMessage
<1>7. CASE SendLate
  <2>1. Send("message", group - 1, TRUE) /\ group' = group
    BY <1>7 DEF SendLate
  <2>2. group - 1 \in Nat /\ group - 1 <= group
    BY <1>3, <1>7 DEF SendLate
  <2> QED
    BY <1>5, <2>1, <2>2
<1> QED
  BY <1>1, <1>2, <1>4, <1>6, <1>7, StreamSteps

------------------------------------------------------------------------------
\* A step of task t that leaves it with no answer of the device.
Quiet(t) ==
  /\ \A u \in Tasks \ {t} : pc'[u] = pc[u] /\ todo'[u] = todo[u] /\ result'[u] = result[u]
  /\ pc'[t] # "mark" /\ result'[t] = "none"

\* The answer r may be given of event e.
Fits(e, r) == \/ r = "done" /\ e \in Commits
              \/ r \in {"opened", "failed"} /\ e \notin Commits

\* The device gives it.
Answers(t, e, r) == \/ ProcessCommit(t, e) /\ r = "done"
                    \/ DecryptFails(t, e) /\ r = "failed"
                    \/ Decrypt(t, e) /\ (r = "opened" \/ (r = "failed" /\ e \in cut'))

\* What a step does to the places of the tasks.
LEMMA TaskSteps ==
  ASSUME TypeOK, PassInv, [Next]_vars
  PROVE  \/ UNCHANGED <<pc, todo, result>>
         \/ \E t \in Tasks : Quiet(t)
         \/ \E t \in Tasks, e \in Events, r \in Results :
              Handle(t, e, r) /\ Fits(e, r) /\ Answers(t, e, r)
         \/ Crash
<1>1. Invite \/ SendCommit \/ SendMessage \/ SendLate \/ UNCHANGED vars
        => UNCHANGED <<pc, todo, result>>
  BY DEF Invite, SendCommit, SendMessage, SendLate, Send, vars
<1>2. ASSUME NEW t \in Tasks, NEW where, where # "mark", Goto(t, where), result[t] = "none",
             UNCHANGED <<todo, result>>
      PROVE  Quiet(t)
  BY <1>2 DEF Quiet, Goto, TypeOK
<1>3. ASSUME NEW n \in 0..Len(stream), SyncApply(n) PROVE \E t \in Tasks : Quiet(t)
  <2>1. result[SyncTask] = "none" /\ SyncTask \in Tasks
    BY <1>3 DEF SyncApply, PassInv, Tasks
  <2> QED
    BY <1>2, <1>3, <2>1 DEF SyncApply
<1>4. ASSUME NEW n \in 0..Len(stream), NEW t \in Openers, FetchApply(t, n)
      PROVE  \E u \in Tasks : Quiet(u)
  <2>1. result[t] = "none" /\ t \in Tasks
    BY <1>4 DEF FetchApply, PassInv, Tasks
  <2> QED
    BY <1>2, <1>4, <2>1 DEF FetchApply
<1>5. CASE NoWelcome \/ Join
  <2>1. result[SyncTask] = "none" /\ SyncTask \in Tasks
    BY <1>5 DEF NoWelcome, Join, PassInv, Tasks
  <2> QED
    BY <1>2, <1>5, <2>1 DEF NoWelcome, Join
<1>6. ASSUME NEW t \in Tasks, StartPass(t) \/ EndPass(t) PROVE Quiet(t)
  <2>1. result[t] = "none"
    BY <1>6 DEF StartPass, EndPass, PassInv
  <2> QED
    BY <1>6, <2>1 DEF StartPass, EndPass, Quiet, Goto, TypeOK
<1>7. ASSUME NEW t \in Tasks, NEW e \in Events, LeavePending(t, e) PROVE Quiet(t)
  <2>1. result[t] = "none" /\ pc[t] # "mark"
    BY <1>7 DEF LeavePending, At, PassInv
  <2> QED
    BY <1>7, <2>1 DEF LeavePending, Quiet, TypeOK
<1>8. ASSUME NEW t \in Tasks, NEW e \in Events, Mark(t, e) PROVE Quiet(t)
  BY <1>8 DEF Mark, Quiet, Goto, TypeOK
<1>9. ASSUME NEW t \in Tasks, StoreFails(t) PROVE Quiet(t)
  BY <1>9 DEF StoreFails, Quiet, Goto, TypeOK
<1>10. ASSUME NEW t \in Tasks, NEW e \in Events,
              ProcessCommit(t, e) \/ Decrypt(t, e) \/ DecryptFails(t, e)
       PROVE  \E r \in Results : Handle(t, e, r) /\ Fits(e, r) /\ Answers(t, e, r)
  <2>1. CASE ProcessCommit(t, e)
    BY <2>1 DEF ProcessCommit, Results, Fits, Answers
  <2>2. CASE DecryptFails(t, e)
    BY <2>2 DEF DecryptFails, Results, Fits, Answers
  <2>3. CASE Decrypt(t, e)
    <3>1. e \notin Commits /\ (Handle(t, e, "opened") \/ (Handle(t, e, "failed") /\ e \in cut'))
      <4>1. e \notin Commits
        BY <2>3 DEF Decrypt
      <4>2. Handle(t, e, "opened") \/ (Handle(t, e, "failed") /\ cut' = cut \cup {e})
        BY <2>3 DEF Decrypt
      <4> QED
        BY <4>1, <4>2
    <3> QED
      BY <2>3, <3>1 DEF Results, Fits, Answers
  <2> QED
    BY <1>10, <2>1, <2>2, <2>3
<1> QED
  BY <1>1, <1>3, <1>4, <1>5, <1>6, <1>7, <1>8, <1>9, <1>10 DEF Next, PassStep

\* What a task has been told is about an event.
LEMMA SaysEvent ==
  ASSUME TypeOK, NEW u \in Tasks, NEW e, First(u, e)
  PROVE  e \in Events
BY DEF TypeOK, First

\* What the passes have been told stays in order.
LEMMA PassKept ==
  ASSUME TypeOK, StreamInv, PassInv, [Next]_vars
  PROVE  PassInv'
<1> DEFINE Right(u) == /\ pc[u] = "mark" <=> result[u] # "none"
                       /\ \A e \in Events : /\ Says(u, e, "done") => e \in Commits
                                            /\ Says(u, e, "opened") => e \notin Commits
                                            /\ Says(u, e, "failed") => e \notin Commits
<1>1. \A e \in Events : e \in Events' /\ (e \in Commits' <=> e \in Commits)
  BY EventsGrow
<1>2. ASSUME NEW u \in Tasks, pc'[u] = pc[u], todo'[u] = todo[u], result'[u] = result[u]
      PROVE  Right(u)'
  <2>1. Right(u)
    BY DEF PassInv
  <2>2. \A e : First(u, e)' <=> First(u, e)
    BY <1>2 DEF First
  <2>3. \A e : First(u, e) => e \in Events
    BY SaysEvent
  <2> QED
    BY <1>1, <1>2, <2>1, <2>2, <2>3 DEF Says
<1>3. CASE UNCHANGED <<pc, todo, result>>
  BY <1>2, <1>3 DEF PassInv
<1>4. ASSUME NEW t \in Tasks, Quiet(t)
      PROVE  PassInv'
  <2>1. Right(t)'
    BY <1>4 DEF Quiet, Says
  <2>2. \A u \in Tasks \ {t} : Right(u)'
    BY <1>2, <1>4 DEF Quiet
  <2> QED
    BY <2>1, <2>2 DEF PassInv
<1>5. ASSUME NEW t \in Tasks, NEW e \in Events, NEW r \in Results, Handle(t, e, r), Fits(e, r)
      PROVE  PassInv'
  <2>1. \A u \in Tasks \ {t} : Right(u)'
    BY <1>2, <1>5 DEF Handle, Goto, TypeOK
  <2>2. pc'[t] = "mark" /\ result'[t] = r /\ todo' = todo /\ r # "none" /\ First(t, e)
    BY <1>5 DEF Handle, Goto, At, TypeOK, Fits
  <2>3. \A f : First(t, f)' => f = e
    <3>1. \A f : First(t, f)' <=> First(t, f)
      BY <2>2 DEF First
    <3> QED
      BY <2>2, <3>1, FirstUnique
  <2>4. Right(t)'
    BY <1>1, <1>5, <2>2, <2>3 DEF Fits, Says
  <2> QED
    BY <2>1, <2>4 DEF PassInv
<1>6. CASE Crash
  BY <1>6 DEF Crash, PassInv, Says
<1> QED
  BY <1>3, <1>4, <1>5, <1>6, TaskSteps

------------------------------------------------------------------------------
\* Steps that neither take a text nor drop one leave the same texts in hand.
LEMMA HandSame ==
  ASSUME TypeOK, StreamInv, [Next]_vars,
         \A u \in Tasks : (result[u] = "opened" \/ result'[u] = "opened")
                             => todo'[u] = todo[u] /\ result'[u] = result[u]
  PROVE  InHand(Tasks)' = InHand(Tasks)
<1>1. Events \subseteq Events'
  BY EventsGrow
<1>2. \A u \in Tasks : \A e : First(u, e) => e \in Events
  BY SaysEvent
<1>3. \A u \in Tasks : \A e : (result[u] = "opened" /\ First(u, e))
                            <=> (result'[u] = "opened" /\ First(u, e)')
  BY DEF First
<1> QED
  BY <1>1, <1>2, <1>3 DEF InHand

\* Steps that keep the texts in hand.
LEMMA HandSameSteps ==
  ASSUME TypeOK, StreamInv, PassInv, [Next]_vars
  PROVE  \/ InHand(Tasks)' = InHand(Tasks)
         \/ \E t \in Tasks, e \in Events : Decrypt(t, e) \/ Mark(t, e)
         \/ (\E t \in Tasks : StoreFails(t)) \/ Crash
<1> DEFINE Same == \A u \in Tasks : (result[u] = "opened" \/ result'[u] = "opened")
                                      => todo'[u] = todo[u] /\ result'[u] = result[u]
<1>1. UNCHANGED <<todo, result>> => Same
  OBVIOUS
<1>2. Invite \/ SendCommit \/ SendMessage \/ SendLate \/ NoWelcome \/ Join \/ UNCHANGED vars
        => UNCHANGED <<todo, result>>
  BY DEF Invite, SendCommit, SendMessage, SendLate, Send, NoWelcome, Join, vars
<1>3. ASSUME NEW n \in 0..Len(stream), SyncApply(n) \/ \E t \in Openers : FetchApply(t, n)
      PROVE  UNCHANGED <<todo, result>>
  BY <1>3 DEF SyncApply, FetchApply
<1>4. ASSUME NEW t \in Tasks, StartPass(t) \/ EndPass(t)
      PROVE  Same
  <2>1. result[t] = "none"
    BY <1>4 DEF StartPass, EndPass, PassInv
  <2> QED
    BY <1>4, <2>1 DEF StartPass, EndPass, TypeOK
<1>5. ASSUME NEW t \in Tasks, NEW e \in Events, LeavePending(t, e)
      PROVE  Same
  <2>1. result[t] = "none"
    BY <1>5 DEF LeavePending, At, PassInv
  <2> QED
    BY <1>5, <2>1 DEF LeavePending, TypeOK
<1>6. ASSUME NEW t \in Tasks, NEW e \in Events, ProcessCommit(t, e) \/ DecryptFails(t, e)
      PROVE  Same
  <2>1. PICK r \in {"done", "failed"} : Handle(t, e, r)
    BY <1>6 DEF ProcessCommit, DecryptFails
  <2>2. result[t] = "none"
    BY <2>1 DEF Handle, At, PassInv
  <2> QED
    BY <2>1, <2>2 DEF Handle, TypeOK
<1> QED
  BY <1>1, <1>2, <1>3, <1>4, <1>5, <1>6, HandSame DEF Next, PassStep

\* Who holds a text after a step of t at its event e.
LEMMA HandAfter ==
  ASSUME TypeOK, NEW t \in Tasks, NEW e \in Events, First(t, e), UNCHANGED stream,
         \A u \in Tasks \ {t} : todo'[u] = todo[u] /\ result'[u] = result[u]
  PROVE  /\ InHand(Tasks)' \subseteq InHand(Tasks \ {t}) \cup InHand({t})'
         /\ InHand(Tasks) \subseteq InHand(Tasks)' \cup InHand({t})
         /\ result[t] # "opened" => InHand(Tasks) \subseteq InHand(Tasks)'
         /\ result[t] = "opened" => InHand({t}) = {e}
         /\ InHand(Tasks \ {t}) \subseteq InHand(Tasks)
<1>1. \A f : First(t, f) => f = e
  BY FirstUnique
<1> QED
  BY <1>1 DEF InHand, First, Events

\* decrypt.
LEMMA DecryptKeepsKeys ==
  ASSUME TypeOK, StreamInv, PassInv, KeyInv, NEW t \in Tasks, NEW e \in Events, Decrypt(t, e)
  PROVE  /\ KeyInv' /\ (CachedIsSpent => CachedIsSpent')
         /\ text \cup cut \cup InHand(Tasks) \subseteq (text \cup cut \cup InHand(Tasks))'
<1>1. PICK r \in Results : Handle(t, e, r)
  BY DEF Decrypt, Results
<1>2. /\ result[t] = "none" /\ First(t, e) /\ Events' = Events /\ Commits' = Commits
      /\ UNCHANGED <<stream, todo, text, state>> /\ result' = [result EXCEPT ![t] = r]
  BY <1>1 DEF Handle, At, PassInv, room, disk, Events, Commits
<1>3. /\ InHand(Tasks)' \subseteq InHand(Tasks) \cup InHand({t})'
      /\ InHand(Tasks) \subseteq InHand(Tasks)'
  BY <1>2, HandAfter DEF TypeOK
<1>4. device'.used = device.used \cup {e}
  BY DEF Decrypt, TypeOK
<1>5. CASE Handle(t, e, "opened") /\ Saved /\ UNCHANGED cut
  <2>1. result'[t] = "opened"
    BY <1>5 DEF Handle, TypeOK
  <2>2. InHand({t})' = {e} /\ e \in InHand(Tasks)'
    <3>1. \A f : First(t, f)' <=> f = e
      <4>1. \A f : First(t, f)' <=> First(t, f)
        BY <1>2 DEF First
      <4> QED
        BY <1>2, <4>1, FirstUnique
    <3> QED
      BY <1>2, <2>1, <3>1 DEF InHand
  <2> QED
    BY <1>2, <1>3, <1>4, <1>5, <2>2 DEF KeyInv, Saved, CachedIsSpent
<1>6. CASE Handle(t, e, "failed") /\ Refused /\ cut' = cut \cup {e}
  <2>1. InHand({t})' = {}
    BY <1>6 DEF Handle, TypeOK, InHand
  <2> QED
    BY <1>2, <1>3, <1>4, <1>6, <2>1 DEF KeyInv, Refused, CachedIsSpent
<1> QED
  BY <1>5, <1>6 DEF Decrypt

\* set_decrypted, set_decrypt_failed, set_commit_processed.
LEMMA MarkKeepsKeys ==
  ASSUME TypeOK, StreamInv, PassInv, KeyInv, NEW t \in Tasks, NEW e \in Events, Mark(t, e)
  PROVE  /\ KeyInv' /\ (CachedIsSpent => CachedIsSpent')
         /\ text \cup cut \cup InHand(Tasks) \subseteq (text \cup cut \cup InHand(Tasks))'
<1>1. /\ First(t, e) /\ Events' = Events /\ Commits' = Commits
      /\ UNCHANGED <<stream, mls, cut>>
      /\ \A u \in Tasks \ {t} : todo'[u] = todo[u] /\ result'[u] = result[u]
      /\ result'[t] = "none"
  BY DEF Mark, room, history, Events, Commits, TypeOK
<1>2. /\ InHand(Tasks)' \subseteq InHand(Tasks) \cup InHand({t})'
      /\ InHand(Tasks) \subseteq InHand(Tasks)' \cup InHand({t})
      /\ result[t] # "opened" => InHand(Tasks) \subseteq InHand(Tasks)'
      /\ result[t] = "opened" => InHand({t}) = {e}
  BY <1>1, HandAfter
<1>3. InHand({t})' = {}
  BY <1>1 DEF InHand
<1>4. result[t] = "opened" => e \in InHand(Tasks)
  BY <1>1 DEF InHand
<1>5. text' = IF result[t] = "opened" THEN text \cup {e} ELSE text
  BY DEF Mark
<1>6. ASSUME NEW f \in Events' \ Commits', state'[f] = "done"
      PROVE  f \in text'
  <2>1. CASE f = e
    <3>1. result[t] = "opened"
      <4>1. result[t] \in Results \ {"none"}
        BY DEF Mark, PassInv, TypeOK
      <4>2. result[t] # "failed"
        BY <1>6, <2>1, EventInRange DEF Mark, TypeOK
      <4>3. result[t] # "done"
        BY <1>1, <1>6, <2>1 DEF PassInv, Says
      <4> QED
        BY <4>1, <4>2, <4>3 DEF Results
    <3> QED
      BY <1>5, <2>1, <3>1
  <2>2. CASE f # e
    BY <1>1, <1>5, <1>6, <2>2 DEF Mark, TypeOK, KeyInv
  <2> QED
    BY <2>1, <2>2
<1> QED
  BY <1>1, <1>2, <1>3, <1>4, <1>5, <1>6 DEF KeyInv, CachedIsSpent, mls

\* The other steps leave the texts and, but for what they save, the keys alone.
LEMMA RestKeepsKeys ==
  ASSUME TypeOK, StreamInv, PassInv, KeyInv, FreshInv, [Next]_vars,
         InHand(Tasks)' = InHand(Tasks), UNCHANGED <<text, cut, state>>,
         device'.used = device.used, kept'.used \in {kept.used, device.used}
  PROVE  /\ KeyInv' /\ (CachedIsSpent => CachedIsSpent')
         /\ text \cup cut \cup InHand(Tasks) \subseteq (text \cup cut \cup InHand(Tasks))'
<1>1. \A e \in Events' \ Events : state[e] = "pending"
  BY EventsGrow DEF FreshInv
<1>2. Commits \subseteq Commits'
  BY EventsGrow
<1> QED
  BY <1>1, <1>2 DEF KeyInv, CachedIsSpent

\* A used-up key leaves a text, and the key is saved first.
LEMMA KeysKept ==
  ASSUME TypeOK, StreamInv, PassInv, KeyInv, FreshInv, [Next]_vars
  PROVE  /\ KeyInv' /\ (CachedIsSpent => CachedIsSpent')
         /\ text \cup cut \cup InHand(Tasks) \subseteq (text \cup cut \cup InHand(Tasks))'
<1>1. CASE \E t \in Tasks, e \in Events : Decrypt(t, e) \/ Mark(t, e)
  BY <1>1, DecryptKeepsKeys, MarkKeepsKeys
<1>2. ASSUME NEW t \in Tasks, StoreFails(t)
      PROVE  /\ KeyInv' /\ (CachedIsSpent => CachedIsSpent')
             /\ text \cup cut \cup InHand(Tasks) \subseteq (text \cup cut \cup InHand(Tasks))'
  <2>1. /\ \A u \in Tasks \ {t} : todo'[u] = todo[u] /\ result'[u] = result[u]
        /\ result'[t] = "none" /\ Events' = Events /\ Commits' = Commits
        /\ UNCHANGED <<kept, device, text, state>> /\ cut' = cut \cup InHand({t})
    BY <1>2 DEF StoreFails, room, disk, mls, Events, Commits, TypeOK
  <2>2. /\ InHand(Tasks)' \subseteq InHand(Tasks)
        /\ InHand(Tasks) \subseteq InHand(Tasks)' \cup InHand({t})
    BY <2>1 DEF InHand, First
  <2>3. InHand({t}) \subseteq InHand(Tasks)
    BY DEF InHand
  <2> QED
    BY <2>1, <2>2, <2>3 DEF KeyInv, CachedIsSpent
<1>3. CASE Crash
  <2>1. /\ Events' = Events /\ Commits' = Commits /\ device' = kept
        /\ UNCHANGED <<kept, text, state>> /\ cut' = cut \cup InHand(Tasks)
    BY <1>3 DEF Crash, room, disk, Events, Commits
  <2>2. InHand(Tasks)' = {}
    BY <1>3 DEF InHand, Crash
  <2> QED
    BY <2>1, <2>2 DEF KeyInv, CachedIsSpent
<1>4. CASE /\ InHand(Tasks)' = InHand(Tasks)
           /\ ~ \E t \in Tasks, e \in Events : Decrypt(t, e) \/ Mark(t, e)
           /\ ~ \E t \in Tasks : StoreFails(t)
           /\ ~ Crash
  <2>1. UNCHANGED <<text, cut, state>>
    <3>1. ASSUME NEW t \in Tasks, NEW e \in Events,
                 LeavePending(t, e) \/ ProcessCommit(t, e) \/ DecryptFails(t, e)
          PROVE  UNCHANGED <<text, cut, state>>
      BY <3>1 DEF LeavePending, ProcessCommit, DecryptFails, Handle, disk, history
    <3>2. ASSUME NEW t \in Tasks, StartPass(t) \/ EndPass(t)
          PROVE  UNCHANGED <<text, cut, state>>
      BY <3>2 DEF StartPass, EndPass, disk, history
    <3>3. ASSUME NEW n \in 0..Len(stream), SyncApply(n) \/ \E t \in Openers : FetchApply(t, n)
          PROVE  UNCHANGED <<text, cut, state>>
      BY <3>3 DEF SyncApply, FetchApply, history
    <3>4. Invite \/ SendCommit \/ SendMessage \/ SendLate \/ NoWelcome \/ Join \/ UNCHANGED vars
            => UNCHANGED <<text, cut, state>>
      BY DEF Invite, SendCommit, SendMessage, SendLate, Send, NoWelcome, Join, vars, disk, history
    <3> QED
      BY <1>4, <3>1, <3>2, <3>3, <3>4 DEF Next, PassStep
  <2>2. device'.used = device.used /\ kept'.used \in {kept.used, device.used}
    <3>1. ASSUME NEW t \in Tasks, NEW e \in Events,
                 LeavePending(t, e) \/ ProcessCommit(t, e) \/ DecryptFails(t, e)
          PROVE  device'.used = device.used /\ kept'.used \in {kept.used, device.used}
      BY <3>1 DEF LeavePending, ProcessCommit, DecryptFails, mls, Saved, Refused, TypeOK
    <3>2. Join => device'.used = device.used /\ kept'.used \in {kept.used, device.used}
      BY DEF Join, Saved, Refused, TypeOK
    <3>3. ASSUME NEW t \in Tasks, StartPass(t) \/ EndPass(t)
          PROVE  UNCHANGED mls
      BY <3>3 DEF StartPass, EndPass
    <3>4. ASSUME NEW n \in 0..Len(stream), SyncApply(n) \/ \E t \in Openers : FetchApply(t, n)
          PROVE  UNCHANGED mls
      BY <3>4 DEF SyncApply, FetchApply
    <3>5. Invite \/ SendCommit \/ SendMessage \/ SendLate \/ NoWelcome \/ UNCHANGED vars
            => UNCHANGED mls
      BY DEF Invite, SendCommit, SendMessage, SendLate, Send, NoWelcome, vars, mls
    <3>6. UNCHANGED mls => device'.used = device.used /\ kept'.used \in {kept.used, device.used}
      BY DEF mls
    <3> QED
      BY <1>4, <3>1, <3>2, <3>3, <3>4, <3>5, <3>6 DEF Next, PassStep
  <2> QED
    BY <1>4, <2>1, <2>2, RestKeepsKeys
<1> QED
  BY <1>1, <1>2, <1>3, <1>4, HandSameSteps

------------------------------------------------------------------------------
\* How an event comes by a state.
LEMMA StateSteps ==
  ASSUME TypeOK, StreamInv, [Next]_vars
  PROVE  state' = state \/ \E t \in Tasks, e \in Events : Mark(t, e)
BY DEF Next, PassStep, vars, disk, Invite, SendCommit, SendMessage, SendLate, Send, SyncApply,
       FetchApply, NoWelcome, Join, Crash, StoreFails, StartPass, EndPass, LeavePending,
       ProcessCommit, Decrypt, DecryptFails, Handle

\* Only events have a state.
LEMMA FreshKept ==
  ASSUME TypeOK, StreamInv, FreshInv, [Next]_vars
  PROVE  FreshInv'
<1>1. Events \subseteq Events'
  BY EventsGrow
<1>2. state' = state \/ \E t \in Tasks, e \in Events : Mark(t, e)
  BY StateSteps
<1>3. ASSUME NEW t \in Tasks, NEW e \in Events, Mark(t, e)
      PROVE  \A f \in 1..MaxEvents : state'[f] # state[f] => f = e
  BY <1>3, EventInRange DEF Mark, TypeOK
<1> QED
  BY <1>1, <1>2, <1>3 DEF FreshInv

\* The history only grows.
LEMMA HistoryGrows ==
  ASSUME TypeOK, StreamInv, [Next]_vars
  PROVE  missed \subseteq missed' /\ (rolledBack => rolledBack')
<1>1. ASSUME NEW t \in Tasks, PassStep(t)
      PROVE  missed \subseteq missed' /\ rolledBack' = rolledBack
  BY <1>1 DEF PassStep, StartPass, EndPass, LeavePending, ProcessCommit, Decrypt, DecryptFails,
              Handle, Mark, history
<1>2. ASSUME NEW n \in 0..Len(stream), SyncApply(n) \/ \E t \in Openers : FetchApply(t, n)
      PROVE  UNCHANGED <<missed, rolledBack>>
  BY <1>2 DEF SyncApply, FetchApply, history
<1>3. Invite \/ SendCommit \/ SendMessage \/ SendLate \/ NoWelcome \/ Join \/ UNCHANGED vars
        => UNCHANGED <<missed, rolledBack>>
  BY DEF Invite, SendCommit, SendMessage, SendLate, Send, NoWelcome, Join, vars, history
<1>4. ASSUME NEW t \in Tasks, StoreFails(t)
      PROVE  UNCHANGED <<missed, rolledBack>>
  BY <1>4 DEF StoreFails
<1>5. Crash => missed' = missed /\ (rolledBack => rolledBack')
  BY DEF Crash
<1> QED
  BY <1>1, <1>2, <1>3, <1>4, <1>5 DEF Next

\* An excuse stays one.
LEMMA ExcusedStays ==
  ASSUME TypeOK, StreamInv, [Next]_vars, NEW e, Excused(e)
  PROVE  Excused(e)'
BY HistoryGrows, EventsGrow DEF Excused

\* An excuse for a commit is one for what follows it.
LEMMA ExcusedAfter ==
  ASSUME TypeOK, NEW c \in Commits, NEW e \in Events, c < e, Excused(c)
  PROVE  Excused(e)
<1>1. c \in Nat /\ e \in Nat /\ \A d \in Commits : d \in Nat
  BY EventTyped DEF Commits
<1>2. ASSUME NEW d \in missed \cap Commits, d <= c
      PROVE  Excused(e)
  <2>1. d \in Nat /\ c \in Nat /\ e \in Nat
    BY <1>1
  <2>2. d < e
    BY <1>2, <2>1
  <2> QED
    BY <2>2 DEF Excused
<1>3. rolledBack => Excused(e)
  BY DEF Excused
<1>4. c <= c /\ \A d \in Commits : d < c => d <= c
  BY <1>1
<1> QED
  BY <1>2, <1>3, <1>4 DEF Excused

\* An event handled after a commit that the device is still to apply is excused.
LEMMA LateCommit ==
  ASSUME TypeOK, StreamInv, CommitInv, [Next]_vars, NEW t \in Tasks, NEW e \in Events,
         NEW r \in Results, Handle(t, e, r), ~ stream[e].late, Epoch(e) > device.epoch
  PROVE  Excused(e)'
<1>1. device.epoch \in Nat \ {0} /\ Epoch(e) \in Nat /\ e \in Nat
  BY EventTyped DEF Handle, TypeOK
<1>2. PICK c \in Commits : c < e /\ Epoch(c) = device.epoch
  BY <1>1 DEF StreamInv
<1>3. c \in Events /\ c \in Nat \ {0}
  BY EventTyped DEF Commits
<1>4. CASE state[c] = "pending"
  <2>1. c \in Overtaken(e)
    BY <1>1, <1>2, <1>3, <1>4 DEF Overtaken
  <2>2. c \in missed' /\ c \in Commits'
    BY <2>1, <1>2, EventsGrow DEF Handle
  <2> QED
    BY <1>2, <2>2 DEF Excused
<1>5. CASE state[c] # "pending"
  <2>1. Excused(c)
    BY <1>1, <1>2, <1>5 DEF CommitInv, Handled
  <2>2. Excused(e)
    BY <1>2, <2>1, ExcusedAfter
  <2> QED
    BY <2>2, ExcusedStays
<1> QED
  BY <1>4, <1>5

\* How the device's epoch moves.
LEMMA DeviceSteps ==
  ASSUME TypeOK, [Next]_vars
  PROVE  \/ device'.epoch = device.epoch
         \/ Join /\ device.epoch = 0
         \/ /\ device'.epoch = device.epoch + 1
            /\ \E t \in Tasks, e \in Events : ProcessCommit(t, e) /\ Epoch(e) = device.epoch
         \/ Crash /\ device'.epoch = kept.epoch
<1>1. ASSUME NEW t \in Tasks, NEW e \in Events, ProcessCommit(t, e)
      PROVE  \/ device'.epoch = device.epoch
             \/ device'.epoch = device.epoch + 1 /\ Epoch(e) = device.epoch
  BY <1>1 DEF ProcessCommit, mls, TypeOK
<1>2. ASSUME NEW t \in Tasks, NEW e \in Events,
             LeavePending(t, e) \/ Decrypt(t, e) \/ DecryptFails(t, e) \/ Mark(t, e)
      PROVE  device'.epoch = device.epoch
  BY <1>2 DEF LeavePending, Decrypt, DecryptFails, Mark, mls, TypeOK
<1>3. ASSUME NEW t \in Tasks, StartPass(t) \/ EndPass(t) \/ StoreFails(t)
      PROVE  device' = device
  BY <1>3 DEF StartPass, EndPass, StoreFails, mls
<1>4. ASSUME NEW n \in 0..Len(stream), SyncApply(n) \/ \E t \in Openers : FetchApply(t, n)
      PROVE  device' = device
  BY <1>4 DEF SyncApply, FetchApply, mls
<1>5. Invite \/ SendCommit \/ SendMessage \/ SendLate \/ NoWelcome \/ UNCHANGED vars
        => device' = device
  BY DEF Invite, SendCommit, SendMessage, SendLate, Send, NoWelcome, vars, mls
<1>6. Join => device.epoch = 0
  BY DEF Join
<1>7. Crash => device'.epoch = kept.epoch
  BY DEF Crash
<1> QED
  BY <1>1, <1>2, <1>3, <1>4, <1>5, <1>6, <1>7 DEF Next, PassStep

\* How a task comes by an answer.
LEMMA SaysSteps ==
  ASSUME TypeOK, PassInv, [Next]_vars, NEW u \in Tasks, NEW e, NEW r, r # "none", Says(u, e, r)'
  PROVE  Says(u, e, r) \/ (e \in Events /\ Answers(u, e, r))
<1>1. ASSUME todo'[u] = todo[u], result'[u] = result[u]
      PROVE  Says(u, e, r)
  BY <1>1 DEF Says, First
<1>2. CASE UNCHANGED <<pc, todo, result>>
  BY <1>1, <1>2
<1>3. ASSUME NEW t \in Tasks, Quiet(t)
      PROVE  Says(u, e, r)
  <2>1. u # t
    BY <1>3 DEF Quiet, Says
  <2> QED
    BY <1>1, <1>3, <2>1 DEF Quiet
<1>4. ASSUME NEW t \in Tasks, NEW f \in Events, NEW q \in Results,
             Handle(t, f, q), Answers(t, f, q)
      PROVE  Says(u, e, r) \/ (e \in Events /\ Answers(u, e, r))
  <2>1. CASE u # t
    BY <1>1, <1>4, <2>1 DEF Handle, TypeOK
  <2>2. CASE u = t
    <3>1. q = r
      BY <1>4, <2>2 DEF Handle, TypeOK, Says
    <3>2. First(t, f) /\ First(t, e)
      BY <1>4, <2>2 DEF Handle, At, Says, First
    <3>3. e = f
      BY <3>2, FirstUnique
    <3> QED
      BY <1>4, <2>2, <3>1, <3>3
  <2> QED
    BY <2>1, <2>2
<1>5. CASE Crash
  BY <1>5 DEF Crash, Says
<1> QED
  BY <1>2, <1>3, <1>4, <1>5, TaskSteps

\* A commit is handled by process_commit.
LEMMA HandledSteps ==
  ASSUME TypeOK, StreamInv, PassInv, FreshInv, [Next]_vars, NEW c \in Commits', Handled(c)'
  PROVE  c \in Commits /\ (Handled(c) \/ \E t \in Tasks : ProcessCommit(t, c))
<1>1. c \in Events => c \in Commits
  BY EventsGrow
<1>2. CASE \E u \in Tasks : Says(u, c, "done")'
  <2>1. PICK u \in Tasks : Says(u, c, "done")'
    BY <1>2
  <2>2. Says(u, c, "done") \/ (c \in Events /\ Answers(u, c, "done"))
    BY <2>1, SaysSteps
  <2>3. c \in Events
    BY <2>2, SaysEvent DEF Says
  <2> QED
    BY <1>1, <2>2, <2>3 DEF Handled, Answers
<1>3. CASE state'[c] # "pending"
  <2>1. c \in Events' /\ c \in 1..MaxEvents
    <3>1. TypeOK'
      BY TypeKept
    <3> QED
      BY <3>1, InboundBounds DEF TypeOK, Commits, Events
  <2>2. CASE state'[c] = state[c]
    BY <1>1, <1>3, <2>1, <2>2 DEF FreshInv, Handled
  <2>3. CASE state'[c] # state[c]
    <3>1. PICK t \in Tasks, e \in Events : Mark(t, e)
      BY <2>3, StateSteps
    <3>2. c = e
      BY <2>1, <2>3, <3>1 DEF Mark, TypeOK
    <3>3. result[t] # "none" /\ First(t, c) /\ c \in Commits
      BY <1>1, <3>1, <3>2 DEF Mark, PassInv
    <3>4. result[t] = "done"
      BY <3>1, <3>2, <3>3 DEF PassInv, Says, TypeOK, Results
    <3> QED
      BY <3>3, <3>4 DEF Handled, Says
  <2> QED
    BY <2>2, <2>3
<1> QED
  BY <1>2, <1>3 DEF Handled

\* A message fails in decrypt.
LEMMA FailedSteps ==
  ASSUME TypeOK, StreamInv, PassInv, FreshInv, [Next]_vars, NEW e \in Events', Failed(e)'
  PROVE  e \in Events /\ (Failed(e) \/ e \in cut' \/ \E t \in Tasks : DecryptFails(t, e))
<1>1. CASE \E u \in Tasks : Says(u, e, "failed")'
  <2>1. PICK u \in Tasks : Says(u, e, "failed")'
    BY <1>1
  <2>2. Says(u, e, "failed") \/ (e \in Events /\ Answers(u, e, "failed"))
    BY <2>1, SaysSteps
  <2>3. e \in Events
    BY <2>2, SaysEvent DEF Says
  <2> QED
    BY <2>2, <2>3 DEF Failed, Answers
<1>2. CASE state'[e] = "failed"
  <2>1. e \in 1..MaxEvents
    <3>1. TypeOK'
      BY TypeKept
    <3> QED
      BY <3>1, InboundBounds DEF TypeOK, Events
  <2>2. CASE state'[e] = state[e]
    BY <1>2, <2>1, <2>2 DEF FreshInv, Failed
  <2>3. CASE state'[e] # state[e]
    <3>1. PICK t \in Tasks, f \in Events : Mark(t, f)
      BY <2>3, StateSteps
    <3>2. e = f
      BY <2>1, <2>3, <3>1 DEF Mark, TypeOK
    <3>3. result[t] = "failed" /\ First(t, e)
      BY <1>2, <2>1, <3>1, <3>2 DEF Mark, TypeOK
    <3> QED
      BY <3>2, <3>3 DEF Failed, Says
  <2> QED
    BY <2>2, <2>3
<1> QED
  BY <1>1, <1>2 DEF Failed

------------------------------------------------------------------------------
\* A device that leaves no message behind keeps to it.
LEMMA EpochKept ==
  ASSUME TypeOK, StreamInv, PassInv, EpochInv, FreshInv, [Next]_vars
  PROVE  EpochInv'
<1> SUFFICES ASSUME ~ rolledBack'
             PROVE  EpochInv'
  BY DEF EpochInv
<1>1. ~ rolledBack /\ missed \subseteq missed'
  BY HistoryGrows
<1>2. /\ device.epoch <= group \/ device.epoch = welcome
      /\ device.epoch \in Nat /\ group \in Nat /\ welcome \in Nat
  BY <1>1 DEF EpochInv, TypeOK
<1>3. group <= group' /\ group' \in Nat /\ (welcome' = welcome \/ (Invite /\ welcome = 0))
  BY <1>2, StreamSteps DEF Invite, SendCommit, SendMessage, SendLate, Send
<1>4. \A e \in Events' \ Events : state[e] = "pending" /\ state'[e] = "pending"
  <2>1. \A e \in Events' \ Events : state[e] = "pending"
    BY EventsGrow DEF FreshInv
  <2>2. state' = state \/ Events' = Events
    BY StateSteps DEF Mark, room, Events
  <2> QED
    BY <2>1, <2>2
<1>5. \A e \in Events : Ours(e)' => Ours(e) /\ Epoch(e)' = Epoch(e)
  BY OursStays, EventsGrow DEF Epoch
<1>6. \A e \in Events' \ Events : Ours(e)' => Epoch(e)' = group /\ welcome' <= group
  BY EventsGrow DEF Ours, Epoch
<1>7. \/ device'.epoch = device.epoch
      \/ Join /\ device.epoch = 0 /\ device'.epoch = welcome /\ welcome # 0
      \/ /\ device'.epoch = device.epoch + 1
         /\ \E t \in Tasks, c \in Events : ProcessCommit(t, c) /\ Epoch(c) = device.epoch
  <2>1. Crash => kept.epoch = device.epoch
    BY DEF Crash
  <2>2. Join => device'.epoch = welcome /\ welcome # 0
    BY DEF Join, TypeOK
  <2> QED
    BY <2>1, <2>2, DeviceSteps
<1>8. device'.epoch <= group' \/ device'.epoch = welcome'
  <2>1. CASE device'.epoch = device.epoch
    BY <1>2, <1>3, <2>1
  <2>2. CASE Join /\ device'.epoch = welcome
    BY <2>2 DEF Join, room
  <2>3. ASSUME NEW t \in Tasks, NEW c \in Events, ProcessCommit(t, c), Epoch(c) = device.epoch,
               device'.epoch = device.epoch + 1
        PROVE  device'.epoch <= group'
    <3>1. Epoch(c) < group
      BY <2>3 DEF StreamInv, ProcessCommit
    <3> QED
      BY <1>2, <1>3, <2>3, <3>1
  <2> QED
    BY <1>7, <2>1, <2>2, <2>3
<1>9. ASSUME device'.epoch = 0
      PROVE  (\A e \in Events' : state'[e] = "pending") /\ (\A t \in Tasks : result'[t] = "none")
  <2>1. device.epoch = 0
    BY <1>2, <1>7, <1>9
  <2>2. (\A e \in Events : state[e] = "pending") /\ (\A t \in Tasks : result[t] = "none")
    BY <1>1, <2>1 DEF EpochInv
  <2>3. state' = state
    BY <2>2, StateSteps DEF Mark, PassInv
  <2>4. \A t \in Tasks : result'[t] = "none"
    BY <2>1, <2>2, TaskSteps DEF Quiet, Handle, Crash
  <2> QED
    BY <1>4, <2>2, <2>3, <2>4
<1>10. ASSUME NEW e \in Events, Ours(e)', state'[e] = "pending", Epoch(e)' < device'.epoch
       PROVE  e \in missed'
  <2>1. Ours(e) /\ Epoch(e) < device'.epoch /\ Epoch(e) \in Nat /\ e \in Nat /\ e \in 1..MaxEvents
    BY <1>5, <1>10, EventTyped, EventInRange
  <2>2. state[e] = "pending"
    BY <1>10, <2>1, StateSteps DEF Mark, TypeOK
  <2>3. CASE Epoch(e) < device.epoch
    BY <1>1, <2>1, <2>2, <2>3 DEF EpochInv
  <2>4. CASE Join /\ device'.epoch = welcome
    BY <1>2, <2>1, <2>4 DEF Ours
  <2>5. ASSUME NEW t \in Tasks, NEW c \in Events, ProcessCommit(t, c), Epoch(c) = device.epoch,
               device'.epoch = device.epoch + 1, ~ (Epoch(e) < device.epoch)
        PROVE  e \in missed'
    <3>1. c \in Commits /\ e \notin Commits /\ c \in Nat
      BY <2>1, <2>5, EventTyped DEF ProcessCommit, Ours
    <3>2. ~ (c < e)
      BY <1>2, <2>1, <2>5, <3>1 DEF StreamInv, Ours
    <3>3. e < c
      BY <2>1, <3>1, <3>2
    <3>4. e \in 1..(c - 1)
      BY <2>1, <3>1, <3>3
    <3>5. e \in Overtaken(c)
      BY <2>2, <3>1, <3>4 DEF Overtaken
    <3> QED
      BY <2>5, <3>5 DEF ProcessCommit, Handle
  <2> QED
    BY <1>7, <2>1, <2>3, <2>4, <2>5
<1>11. ASSUME NEW e \in Events' \ Events, Ours(e)', Epoch(e)' < device'.epoch
       PROVE  FALSE
  <2>1. Epoch(e)' = group /\ welcome' <= group
    BY <1>6, <1>11
  <2>2. Events' # Events
    BY <1>11
  <2>3. ~ Invite /\ ~ Join /\ \A t \in Tasks, c \in Events : ~ ProcessCommit(t, c)
    BY <2>2 DEF Invite, Join, ProcessCommit, Handle, room, Events
  <2>4. device'.epoch = device.epoch /\ welcome' = welcome
    BY <1>3, <1>7, <2>3
  <2> QED
    BY <1>2, <1>11, <2>1, <2>4
<1> QED
  BY <1>8, <1>9, <1>10, <1>11 DEF EpochInv

\* A commit is not consumed before its turn without an excuse.
LEMMA CommitKept ==
  ASSUME TypeOK, StreamInv, PassInv, EpochInv, CommitInv, FreshInv, [Next]_vars
  PROVE  CommitInv'
<1> SUFFICES ASSUME NEW c \in Commits', Handled(c)', device'.epoch # 0,
                    Epoch(c)' >= device'.epoch, ~ rolledBack'
             PROVE  Excused(c)'
  BY DEF CommitInv, Excused
<1>1. c \in Commits /\ (Handled(c) \/ \E t \in Tasks : ProcessCommit(t, c))
  BY HandledSteps
<1>2. /\ c \in Events /\ Epoch(c)' = Epoch(c) /\ Epoch(c) \in Nat /\ ~ stream[c].late
      /\ device.epoch \in Nat /\ ~ rolledBack
  <2>1. c \in Events
    BY <1>1 DEF Commits
  <2> QED
    BY <1>1, <2>1, EventsGrow, EventTyped, HistoryGrows DEF StreamInv, Epoch, TypeOK
<1>3. CASE Handled(c)
  <2>1. device.epoch # 0
    BY <1>2, <1>3 DEF EpochInv, Handled, Says
  <2>2. device'.epoch = device.epoch \/ device'.epoch = device.epoch + 1
    BY <1>2, <2>1, DeviceSteps DEF Crash
  <2>3. Epoch(c) >= device.epoch
    BY <1>2, <2>2
  <2>4. Excused(c)
    BY <1>1, <1>3, <2>1, <2>3 DEF CommitInv
  <2> QED
    BY <2>4, ExcusedStays
<1>4. ASSUME NEW t \in Tasks, ProcessCommit(t, c)
      PROVE  Excused(c)'
  <2>1. CASE Epoch(c) = device.epoch
    BY <1>2, <1>4, <2>1 DEF ProcessCommit, TypeOK
  <2>2. CASE Epoch(c) # device.epoch
    <3>1. device'.epoch = device.epoch
      BY <1>4, <2>2 DEF ProcessCommit, mls
    <3>2. Epoch(c) > device.epoch
      BY <1>2, <2>2, <3>1
    <3>3. Handle(t, c, "done") /\ "done" \in Results
      BY <1>4 DEF ProcessCommit, Results
    <3> QED
      BY <1>2, <3>2, <3>3, LateCommit
  <2> QED
    BY <2>1, <2>2
<1> QED
  BY <1>1, <1>3, <1>4

\* A message for us that failed is accounted for.
LEMMA MessageKept ==
  ASSUME IInv, [Next]_vars
  PROVE  MessageInv'
<1> USE DEF IInv
<1> SUFFICES ASSUME NEW e \in Events', Ours(e)', Failed(e)'
             PROVE  Accounted(e)'
  BY DEF MessageInv
<1>1. e \in Events /\ (Failed(e) \/ e \in cut' \/ \E t \in Tasks : DecryptFails(t, e))
  BY FailedSteps
<1>2. Ours(e)
  BY <1>1, OursStays
<1>3. ASSUME Accounted(e)
      PROVE  Accounted(e)'
  BY <1>3, KeysKept, ExcusedStays DEF Accounted
<1>4. CASE Failed(e)
  BY <1>1, <1>2, <1>3, <1>4 DEF MessageInv
<1>5. CASE e \in cut'
  BY <1>5 DEF Accounted
<1>6. ASSUME NEW t \in Tasks, DecryptFails(t, e)
      PROVE  Accounted(e)'
  <2>1. /\ e \notin Commits /\ ~ stream[e].late /\ Epoch(e) \in Nat /\ device.epoch \in Nat
        /\ e \in 1..MaxEvents
    BY <1>1, <1>2, EventTyped, EventInRange DEF Ours, TypeOK
  <2>2. CASE e \in device.used
    BY <1>3, <2>2 DEF KeyInv, Accounted
  <2>3. CASE Epoch(e) > device.epoch
    <3>1. Handle(t, e, "failed") /\ "failed" \in Results
      BY <1>6 DEF DecryptFails, Results
    <3>2. Excused(e)'
      BY <1>1, <2>1, <2>3, <3>1, LateCommit
    <3> QED
      BY <3>2 DEF Accounted
  <2>4. CASE Epoch(e) < device.epoch
    <3>1. CASE rolledBack
      BY <1>3, <3>1 DEF Accounted, Excused
    <3>2. CASE state[e] = "pending" /\ ~ rolledBack
      <4>1. e \in missed
        BY <1>1, <1>2, <2>4, <3>2 DEF EpochInv
      <4> QED
        BY <1>3, <4>1 DEF Accounted, Excused
    <3>3. CASE state[e] = "done"
      <4>1. e \in text
        BY <1>1, <2>1, <3>3 DEF KeyInv
      <4> QED
        BY <1>3, <4>1 DEF Accounted
    <3>4. CASE state[e] = "failed"
      BY <1>1, <1>2, <1>3, <3>4 DEF MessageInv, Failed
    <3>5. state[e] \in States
      BY <2>1 DEF TypeOK
    <3> QED
      BY <3>1, <3>2, <3>3, <3>4, <3>5 DEF States
  <2>5. Epoch(e) # device.epoch \/ e \in device.used
    BY <1>6 DEF DecryptFails, Opens
  <2> QED
    BY <2>1, <2>2, <2>3, <2>4, <2>5
<1> QED
  BY <1>1, <1>4, <1>5, <1>6

------------------------------------------------------------------------------
\* The invariant holds at first.
LEMMA Initial == Init => IInv /\ CachedIsSpent
<1> SUFFICES ASSUME Init PROVE IInv /\ CachedIsSpent
  OBVIOUS
<1>1. Events = {} /\ Commits = {} /\ InHand(Tasks) = {}
  BY DEF Init, Events, Commits, InHand
<1>2. TypeOK
  <2>1. /\ stream \in Seq([kind : {"commit", "message"}, epoch : Nat, late : BOOLEAN])
        /\ Len(stream) <= MaxEvents /\ synced \in 0..Len(stream)
    BY InboundBounds DEF Init
  <2>2. state \in [1..MaxEvents -> States] /\ result \in [Tasks -> Results]
        /\ pc \in [Tasks -> {"idle", "join", "start", "pass", "mark"}]
        /\ todo \in [Tasks -> SUBSET Events]
    BY DEF Init, States, Results
  <2>3. NoDevice \in [epoch : Nat, used : SUBSET Events]
    BY DEF NoDevice
  <2>4. /\ kept = NoDevice /\ device = NoDevice /\ group = 0 /\ welcome = 0 /\ log = {}
        /\ text = {} /\ missed = {} /\ cut = {} /\ rolledBack = FALSE /\ faults = 0
    BY DEF Init
  <2>5. 0 \in 0..MaxFaults
    BY InboundBounds
  <2> QED
    BY <2>1, <2>2, <2>3, <2>4, <2>5 DEF TypeOK
<1>3. StreamInv /\ PassInv
  BY <1>1 DEF Init, StreamInv, PassInv
<1>4. KeyInv /\ FreshInv /\ CachedIsSpent
  BY <1>1 DEF Init, KeyInv, FreshInv, NoDevice, CachedIsSpent
<1>5. EpochInv /\ CommitInv /\ MessageInv
  BY <1>1 DEF Init, EpochInv, CommitInv, MessageInv, NoDevice
<1> QED
  BY <1>2, <1>3, <1>4, <1>5 DEF IInv

\* Every behaviour keeps the inductive invariant.
THEOREM Invariance == Spec => [](IInv /\ CachedIsSpent)
<1>1. IInv /\ CachedIsSpent /\ [Next]_vars => (IInv /\ CachedIsSpent)'
  <2> SUFFICES ASSUME IInv, CachedIsSpent, [Next]_vars
               PROVE  (IInv /\ CachedIsSpent)'
    OBVIOUS
  <2>1. TypeOK /\ StreamInv /\ PassInv /\ KeyInv /\ EpochInv /\ CommitInv /\ FreshInv
    BY DEF IInv
  <2>2. TypeOK' /\ StreamInv' /\ PassInv' /\ FreshInv'
    BY <2>1, TypeKept, StreamKept, PassKept, FreshKept
  <2>3. KeyInv' /\ CachedIsSpent'
    BY <2>1, KeysKept
  <2>4. EpochInv' /\ CommitInv' /\ MessageInv'
    BY <2>1, EpochKept, CommitKept, MessageKept
  <2> QED
    BY <2>2, <2>3, <2>4 DEF IInv
<1> QED
  BY <1>1, Initial, PTL DEF Spec

\* TypeOK, for any openers and bounds.
THEOREM Typed == Spec => []TypeOK
BY Invariance, PTL DEF IInv

\* process_inbound_mls: a message for us is shown as undecryptable only for the causes
\* UnreadableHasCause names; two passes at once lose nothing.
THEOREM FailuresHaveCauses == Spec => []UnreadableHasCause
<1>1. IInv => UnreadableHasCause
  BY DEF IInv, TypeOK, MessageInv, Failed, Accounted, UnreadableHasCause, Unreadable
<1> QED
  BY <1>1, Invariance, PTL

\* process_commit: the group stays behind only for the causes StuckHasCause names.
THEOREM CommitsAreNotLost == Spec => []StuckHasCause
<1>1. IInv => StuckHasCause
  BY DEF IInv, CommitInv, Handled, StuckHasCause
<1> QED
  BY <1>1, Invariance, PTL

\* decrypt saves the ratchet before its caller caches the text.
THEOREM CacheAfterKeystore == Spec => []CachedIsSpent
BY Invariance, PTL

------------------------------------------------------------------------------
\* While nothing has failed, no text is dropped and no epoch rolled back.
CleanInv == faults = 0 => cut = {} /\ rolledBack = FALSE

\* So only the order of the events is left as a reason.
UnreadableByOrder == faults = 0 => \A e \in log :
  (Ours(e) /\ Unreadable(e)) => e \in missed \/ \E d \in missed \cap Commits : d < e

\* A step that is no fault drops no text.
LEMMA CleanKept == TypeOK /\ CleanInv /\ [Next]_vars => CleanInv'
<1> SUFFICES ASSUME TypeOK, CleanInv, [Next]_vars, faults' = 0
             PROVE  cut' = {} /\ rolledBack' = FALSE
  BY DEF CleanInv
<1>1. faults \in Nat
  BY InboundBounds DEF TypeOK
<1>2. ASSUME Fault PROVE FALSE
  BY <1>1, <1>2 DEF Fault
<1>3. CASE UNCHANGED <<cut, rolledBack, faults>>
  BY <1>3 DEF CleanInv
<1>4. CASE \/ Invite \/ NoWelcome \/ SendCommit \/ SendMessage \/ SendLate \/ UNCHANGED vars
           \/ \E n \in 0..Len(stream) : SyncApply(n) \/ \E t \in Openers : FetchApply(t, n)
  BY <1>3, <1>4 DEF Invite, NoWelcome, SendCommit, SendMessage, SendLate, Send, SyncApply,
                    FetchApply, history, vars
<1>5. CASE Join
  BY <1>2, <1>3, <1>5 DEF Join, Saved, Refused, history
<1>6. ASSUME NEW t \in Tasks, PassStep(t) PROVE UNCHANGED <<cut, rolledBack, faults>>
  BY <1>2, <1>6 DEF PassStep, StartPass, EndPass, LeavePending, ProcessCommit, Decrypt,
                    DecryptFails, Mark, Handle, Saved, Refused, mls, history
<1>7. ASSUME NEW t \in Tasks, StoreFails(t) PROVE FALSE
  BY <1>2, <1>7 DEF StoreFails
<1>8. CASE Crash
  BY <1>2, <1>8 DEF Crash
<1> QED
  BY <1>3, <1>4, <1>5, <1>6, <1>7, <1>8 DEF Next

\* process_inbound_mls: while nothing fails, a message for us is undecryptable only when an
\* event up to it was overtaken, however many passes there are at once.
THEOREM OnlyOrderIsLeft == Spec => []UnreadableByOrder
<1>1. Init => CleanInv
  BY DEF Init, CleanInv
<1>2. CleanInv /\ UnreadableHasCause => UnreadableByOrder
  BY DEF CleanInv, UnreadableHasCause, Excused, UnreadableByOrder
<1> QED
  BY <1>1, <1>2, CleanKept, Typed, FailuresHaveCauses, PTL DEF Spec

------------------------------------------------------------------------------
\* The sync task's pass has every event before those it has still to do, but for those it
\* left pending for want of the group; and it has overtaken none.
InOrderInv ==
  /\ log = 1..synced
  /\ todo[SyncTask] \subseteq log
  /\ pc[SyncTask] = "mark" => device.epoch # 0
  /\ pc[SyncTask] \in {"pass", "mark"} /\ device.epoch # 0 =>
       \A e \in todo[SyncTask], d \in Events : d < e /\ state[d] = "pending" => d \in todo[SyncTask]
  /\ missed = {}

\* The event a pass handles comes first of all that are pending.
LEMMA FirstPending ==
  ASSUME TypeOK, InOrderInv, pc[SyncTask] \in {"pass", "mark"}, device.epoch # 0,
         NEW e, First(SyncTask, e), NEW d \in Events, d < e
  PROVE  state[d] # "pending"
<1>1. e \in Events /\ Len(stream) \in Nat
  BY DEF InOrderInv, First, TypeOK
<1>2. e \in Nat /\ d \in Nat
  BY <1>1 DEF Events
<1>3. d \notin todo[SyncTask]
  BY <1>2 DEF First
<1> QED
  BY <1>3 DEF InOrderInv, First

\* A pass that handles an event overtakes none.
LEMMA HandleInOrder ==
  ASSUME TypeOK, InOrderInv, NEW e \in Events, NEW r \in Results, Handle(SyncTask, e, r),
         device' \in [epoch : Nat, used : SUBSET Events], device'.epoch # 0
  PROVE  InOrderInv'
<1>1. /\ pc[SyncTask] = "pass" /\ First(SyncTask, e) /\ device.epoch # 0
      /\ missed' = missed \cup Overtaken(e) /\ pc'[SyncTask] = "mark"
      /\ UNCHANGED <<stream, log, synced, todo, state>>
  BY DEF Handle, At, Goto, TypeOK, Tasks, room, disk
<1>2. Overtaken(e) = {}
  <2>1. \A d \in 1..(e - 1) : d \in Events /\ d < e
    BY DEF Events, TypeOK
  <2> QED
    BY <1>1, <2>1, FirstPending DEF Overtaken
<1> QED
  BY <1>1, <1>2 DEF InOrderInv, Events

\* Where only the sync task reads, every step keeps the order.
LEMMA InOrderKept ==
  ASSUME Openers = {}, TypeOK, InOrderInv, [Next]_vars
  PROVE  InOrderInv'
<1>0. /\ pc \in [Tasks -> {"idle", "join", "start", "pass", "mark"}]
      /\ todo \in [Tasks -> SUBSET Events] /\ Tasks = {SyncTask}
      /\ Len(stream) \in Nat /\ synced \in 0..Len(stream) /\ device.epoch \in Nat
  BY DEF TypeOK, Tasks
<1>1. CASE Invite \/ UNCHANGED vars
  BY <1>1 DEF Invite, vars, disk, mls, history, room, InOrderInv, Events
<1>2. ASSUME NEW kind, NEW n, NEW late, Send(kind, n, late)
      PROVE  InOrderInv'
  <2>1. \A d \in Events' : d \in Events \/ d = Len(stream) + 1
    BY <1>2 DEF Send, TypeOK, Events
  <2>2. \A e \in todo[SyncTask] : e \in Nat /\ ~ (Len(stream) + 1 < e)
    BY <1>0 DEF Events
  <2>3. UNCHANGED <<log, synced, todo, pc, device, state, missed>>
    BY <1>2 DEF Send, disk, mls, history
  <2> QED
    BY <2>1, <2>2, <2>3 DEF InOrderInv
<1>3. CASE SendCommit \/ SendMessage \/ SendLate
  BY <1>2, <1>3 DEF SendCommit, SendMessage, SendLate
<1>4. CASE NoWelcome \/ Join
  <2>1. pc'[SyncTask] = "start" /\ UNCHANGED <<log, synced, todo, missed>>
    BY <1>0, <1>4 DEF NoWelcome, Join, Goto, disk, history
  <2> QED
    BY <2>1 DEF InOrderInv
<1>5. ASSUME NEW n \in 0..Len(stream), SyncApply(n) PROVE InOrderInv'
  <2>1. log' = log \cup 1..n /\ synced' = n /\ synced <= n /\ UNCHANGED <<todo, missed>>
        /\ pc'[SyncTask] = "join"
    BY <1>0, <1>5 DEF SyncApply, Goto, history
  <2>2. log' = 1..synced'
    BY <1>0, <2>1 DEF InOrderInv
  <2> QED
    BY <2>1, <2>2 DEF InOrderInv
<1>6. CASE Crash
  <2>1. pc'[SyncTask] = "idle" /\ todo'[SyncTask] = {} /\ UNCHANGED <<log, synced, missed>>
    BY <1>0, <1>6 DEF Crash, disk
  <2> QED
    BY <2>1 DEF InOrderInv
<1>7. CASE StoreFails(SyncTask)
  <2>1. pc'[SyncTask] = "idle" /\ todo'[SyncTask] = {} /\ UNCHANGED <<log, synced, missed>>
    BY <1>0, <1>7 DEF StoreFails, Goto, disk
  <2> QED
    BY <2>1 DEF InOrderInv
<1>8. CASE StartPass(SyncTask)
  <2>1. /\ todo'[SyncTask] = {e \in log : state[e] = "pending"}
        /\ pc'[SyncTask] = "pass" /\ UNCHANGED <<stream, log, synced, state, missed>>
    BY <1>0, <1>8 DEF StartPass, Goto, room, disk, history
  <2>2. \A e \in log, d \in Events : d < e => d \in log
    BY <1>0 DEF InOrderInv, Events
  <2> QED
    BY <2>1, <2>2 DEF InOrderInv, Events
<1>9. CASE EndPass(SyncTask)
  <2>1. pc'[SyncTask] = "idle" /\ UNCHANGED <<log, synced, todo, missed>>
    BY <1>0, <1>9 DEF EndPass, Goto, disk, history
  <2> QED
    BY <2>1 DEF InOrderInv
<1>10. ASSUME NEW e \in Events, LeavePending(SyncTask, e) PROVE InOrderInv'
  <2>1. /\ todo'[SyncTask] \subseteq todo[SyncTask] /\ pc[SyncTask] = "pass"
        /\ device.epoch = 0 /\ UNCHANGED <<log, synced, pc, device, missed>>
    BY <1>0, <1>10 DEF LeavePending, At, disk, mls, history
  <2> QED
    BY <2>1 DEF InOrderInv
<1>11. ASSUME NEW e \in Events,
              ProcessCommit(SyncTask, e) \/ Decrypt(SyncTask, e) \/ DecryptFails(SyncTask, e)
       PROVE  InOrderInv'
  <2>1. PICK r \in Results : Handle(SyncTask, e, r)
    BY <1>11 DEF ProcessCommit, Decrypt, DecryptFails, Results
  <2>2. device.epoch # 0
    BY <2>1 DEF Handle
  <2>3. device'.epoch \in {device.epoch, device.epoch + 1}
    BY <1>11 DEF ProcessCommit, Decrypt, DecryptFails, mls, TypeOK
  <2>4. device' \in [epoch : Nat, used : SUBSET Events]
    BY <1>11 DEF ProcessCommit, Decrypt, DecryptFails, mls, TypeOK
  <2>5. device'.epoch # 0
    BY <1>0, <2>2, <2>3
  <2> QED
    BY <2>1, <2>4, <2>5, HandleInOrder
<1>12. ASSUME NEW e \in Events, Mark(SyncTask, e) PROVE InOrderInv'
  <2>1. e \in 1..MaxEvents /\ SyncTask \in Tasks
    BY <1>12, InboundBounds DEF TypeOK, Events, Tasks
  <2>2. state'[e] # "pending" /\ \A d \in 1..MaxEvents : d # e => state'[d] = state[d]
    BY <1>12, <2>1 DEF Mark, TypeOK
  <2>3. todo'[SyncTask] = todo[SyncTask] \ {e} /\ pc'[SyncTask] = "pass"
    BY <1>12, <2>1 DEF Mark, Goto, TypeOK
  <2>4. pc[SyncTask] = "mark" /\ UNCHANGED <<stream, log, synced, device, missed>>
    BY <1>12 DEF Mark, room, mls, history
  <2>5. Events \subseteq 1..MaxEvents
    BY InboundBounds DEF TypeOK, Events
  <2>6. Events' = Events
    BY <2>4 DEF Events
  <2>7. \A d \in Events : state'[d] = "pending" => d # e /\ state[d] = "pending"
    BY <2>2, <2>5
  <2> QED
    BY <2>3, <2>4, <2>6, <2>7 DEF InOrderInv
<1> QED
  BY <1>0, <1>1, <1>3, <1>4, <1>5, <1>6, <1>7, <1>8, <1>9, <1>10, <1>11, <1>12
     DEF Next, PassStep

\* process_inbound_mls, "a commit that changes the epoch is applied before the encrypted messages
\* that follow it": that is so as long as only the sync loop runs it; a pass of a room that is
\* opened meanwhile is what it takes to overtake a commit.
THEOREM InOrderAlone ==
  ASSUME Openers = {}
  PROVE  Spec => [](missed = {}) /\ CommitsFirst
<1>1. Init => InOrderInv
  BY DEF Init, InOrderInv, Tasks
<1>2. TypeOK /\ InOrderInv /\ [Next]_vars =>
        [\A e \in Events : (state[e] = "pending" /\ state'[e] # "pending") =>
           \A c \in Commits : (c < e /\ Epoch(c) >= welcome) => state[c] # "pending"]_vars
  <2> SUFFICES ASSUME TypeOK, InOrderInv, Next, NEW e \in Events, state[e] = "pending",
                      state'[e] # "pending", NEW c \in Commits, c < e
               PROVE  state[c] # "pending"
    BY DEF vars, disk
  <2>1. Mark(SyncTask, e)
    <3>1. ASSUME NEW f \in Events, Mark(SyncTask, f) PROVE f = e
      BY <3>1 DEF Mark, TypeOK, Events
    <3> QED
      BY <3>1
         DEF Next, PassStep, Tasks, Invite, NoWelcome, Join, Crash, SendCommit, SendMessage,
             SendLate, Send, SyncApply, FetchApply, StoreFails, StartPass, EndPass, LeavePending,
             ProcessCommit, Decrypt, DecryptFails, Handle, disk
  <2>2. pc[SyncTask] = "mark" /\ First(SyncTask, e) /\ device.epoch # 0
    BY <2>1 DEF Mark, InOrderInv
  <2> QED
    BY <2>2, FirstPending DEF Commits
<1>3. TypeOK /\ InOrderInv /\ [Next]_vars => InOrderInv'
  BY InOrderKept
<1>4. InOrderInv => missed = {}
  BY DEF InOrderInv
<1> QED
  BY <1>1, <1>2, <1>3, <1>4, Typed, PTL DEF Spec, CommitsFirst
===============================================================================
