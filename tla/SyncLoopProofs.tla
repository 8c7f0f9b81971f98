----------------------------- MODULE SyncLoopProofs -----------------------------
(***************************************************************************)
(* Proofs about SyncLoop, for any number of loops, rooms, events, Welcomes *)
(* and faults: what the homeserver was told it may delete survives a       *)
(* crash.  The argument: Safe(tok) says that everything tok covers is      *)
(* durable, or in one of the two histories that name why it is not; no     *)
(* action takes a group from disk \cup unsaved \cup passed or an event      *)
(* from the log, except that a new identity has no Welcomes yet; so what   *)
(* is safe stays safe, and an answer's next_batch is safe once its events  *)
(* are stored and its Welcomes gone through.                               *)
(***************************************************************************)
EXTENDS SyncLoop, SequenceTheorems, TLAPS

\* A Welcome of the inbox has a room.
LEMMA WelcomeHasRoom ==
  ASSUME TypeOK, NEW i \in 1..Len(inbox)
  PROVE  inbox[i].room \in Rooms /\ inbox[i].good \in BOOLEAN
<1>1. inbox[i] \in [room : Rooms, good : BOOLEAN]
  BY ElementOfSeq DEF TypeOK
<1> QED
  BY <1>1

\* The homeserver's streams only grow.
LEMMA StreamsGrow ==
  ASSUME TypeOK, [Next]_vars
  PROVE  /\ events' \in events..MaxEvents
         /\ inbox' \in Seq([room : Rooms, good : BOOLEAN]) /\ Len(inbox') <= MaxWelcomes
         /\ Len(inbox) <= Len(inbox') /\ \A i \in 1..Len(inbox) : inbox'[i] = inbox[i]
         /\ Tokens \subseteq Tokens'
<1> USE BoundsAssumption DEF server, device, missing
<1>1. CASE SendEvent
  BY <1>1 DEF SendEvent, TypeOK, Tokens
<1>2. ASSUME NEW r \in Rooms, NEW good \in BOOLEAN, SendWelcome(r, good)
      PROVE  /\ events' \in events..MaxEvents
             /\ inbox' \in Seq([room : Rooms, good : BOOLEAN]) /\ Len(inbox') <= MaxWelcomes
             /\ Len(inbox) <= Len(inbox') /\ \A i \in 1..Len(inbox) : inbox'[i] = inbox[i]
             /\ Tokens \subseteq Tokens'
  BY <1>2 DEF SendWelcome, TypeOK, Tokens
<1>3. CASE UNCHANGED <<events, inbox>>
  BY <1>3 DEF TypeOK, Tokens
<1>4. [Next]_vars => \/ SendEvent
                     \/ \E r \in Rooms, good \in BOOLEAN : SendWelcome(r, good)
                     \/ UNCHANGED <<events, inbox>>
  BY DEF Next, Step, vars, SaveDevice, Crash, Start, Ask, Answer, ApplySync, PassOver,
         Skip, Join, JoinUnsaved, JoinFails, JoinsDone, PersistToken, EndCycle, Backoff,
         Transient, Fatal, Cancel
<1> QED
  BY <1>1, <1>2, <1>3, <1>4

\* Which steps touch the groups the device has, or should have.
LEMMA GroupsChange ==
  ASSUME [Next]_vars
  PROVE  \/ SaveDevice
         \/ \E l \in Loops : PassOver(l)
         \/ \E l \in Loops, i \in 1..Len(inbox) :
              Join(l, i) \/ JoinUnsaved(l, i) \/ JoinFails(l, i)
         \/ Crash /\ Replaced
         \/ /\ UNCHANGED <<disk, unsaved, passed, born>>
            /\ UNCHANGED log \/ \E l \in Loops : log' = log \cup Fetched(l)
<1> USE DEF server, store, device, missing, cycle
<1> DEFINE Same == UNCHANGED <<disk, unsaved, passed, born>>
<1>1. Crash => (Replaced \/ Same) /\ UNCHANGED log
  BY DEF Crash, Restored, Unavailable
<1>2. SendEvent \/ (\E r \in Rooms, good \in BOOLEAN : SendWelcome(r, good)) \/ UNCHANGED vars
        => Same /\ UNCHANGED log
  BY DEF SendEvent, SendWelcome, vars
<1>3. ASSUME NEW l \in Loops, ApplySync(l)
      PROVE  Same /\ log' = log \cup Fetched(l)
  BY <1>3 DEF ApplySync
<1>4. ASSUME NEW l \in Loops,
             \/ Start(l) \/ Ask(l) \/ Answer(l) \/ JoinsDone(l) \/ PersistToken(l)
             \/ EndCycle(l) \/ Backoff(l) \/ Transient(l) \/ Fatal(l) \/ Cancel(l)
             \/ \E i \in 1..Len(inbox) : Skip(l, i)
      PROVE  Same /\ UNCHANGED log
  BY <1>4 DEF Start, Ask, Answer, Skip, JoinsDone, PersistToken, EndCycle, Backoff,
              Transient, Fatal, Cancel
<1> HIDE DEF Same
<1>5. \/ SaveDevice
      \/ \E l \in Loops : PassOver(l)
      \/ \E l \in Loops, i \in 1..Len(inbox) :
           Join(l, i) \/ JoinUnsaved(l, i) \/ JoinFails(l, i)
      \/ Crash /\ Replaced
      \/ Same /\ (UNCHANGED log \/ \E l \in Loops : log' = log \cup Fetched(l))
  <2> USE <1>1, <1>2, <1>3, <1>4
  <2>1. CASE UNCHANGED vars
    BY <2>1
  <2>2. CASE \E l \in Loops : Start(l) \/ Step(l) \/ Transient(l) \/ Fatal(l) \/ Cancel(l)
    BY <2>2 DEF Step
  <2>3. CASE \/ SendEvent \/ SaveDevice \/ Crash
             \/ \E r \in Rooms, good \in BOOLEAN : SendWelcome(r, good)
    BY <2>3
  <2>4. CASE \E l \in Loops, i \in 1..Len(inbox) : JoinUnsaved(l, i) \/ JoinFails(l, i)
    BY <2>4
  <2> QED
    BY <2>1, <2>2, <2>3, <2>4 DEF Next
<1> QED
  BY <1>5 DEF Same

\* No event is ever taken back, nor a group that is durable or missing for a reason, while
\* the device keeps its identity: what Join and SaveDevice take from the histories they
\* hand to the keystore.
LEMMA NothingTakenBack ==
  ASSUME TypeOK, HandInv, [Next]_vars
  PROVE  /\ log \subseteq log'
         /\ \/ Replaced
            \/ /\ born' = born
               /\ disk \cup unsaved \cup passed \subseteq disk' \cup unsaved' \cup passed'
<1> USE DEF server, store, device, missing, cycle
<1> DEFINE Kept == /\ log \subseteq log' /\ born' = born
                   /\ disk \cup unsaved \cup passed \subseteq disk' \cup unsaved' \cup passed'
<1>1. CASE SaveDevice
  <2>1. Kept
    BY <1>1 DEF SaveDevice, HandInv, MemInv
  <2> QED
    BY <2>1
<1>2. ASSUME NEW l \in Loops, NEW i \in 1..Len(inbox), Join(l, i)
      PROVE  Kept
  BY <1>2 DEF Join, At, HandInv, MemInv
<1>3. ASSUME NEW l \in Loops, NEW i \in 1..Len(inbox), JoinUnsaved(l, i) \/ JoinFails(l, i)
      PROVE  Kept
  BY <1>3 DEF JoinUnsaved, JoinFails
<1>4. ASSUME NEW l \in Loops, PassOver(l)
      PROVE  Kept
  BY <1>4 DEF PassOver
<1>5. CASE Crash /\ Replaced
  BY <1>5 DEF Crash
<1>6. CASE /\ UNCHANGED <<disk, unsaved, passed, born>>
           /\ UNCHANGED log \/ \E l \in Loops : log' = log \cup Fetched(l)
  BY <1>6
<1> QED
  BY <1>1, <1>2, <1>3, <1>4, <1>5, <1>6, GroupsChange

\* What is durable stays durable, and so does what a token covers.
LEMMA DurableStays ==
  ASSUME TypeOK, HandInv, [Next]_vars
  PROVE  /\ \A i \in 1..Len(inbox) : Durable(i) => Durable(i)'
         /\ \A tok \in Tokens : Safe(tok) => /\ \A i \in 1..tok.td : Durable(i)'
                                            /\ 1..tok.ev \subseteq log'
<1>1. Len(inbox) \in Nat /\ \A i \in 1..Len(inbox) : inbox'[i] = inbox[i]
  BY StreamsGrow DEF TypeOK
<1>2. ASSUME NEW i \in 1..Len(inbox), Durable(i)
      PROVE  Durable(i)'
  <2>1. CASE Replaced
    BY <1>1, <2>1 DEF Replaced, Durable, Usable
  <2>2. CASE /\ born' = born
             /\ disk \cup unsaved \cup passed \subseteq disk' \cup unsaved' \cup passed'
    BY <1>1, <1>2, <2>2 DEF Durable, Usable
  <2> QED
    BY <2>1, <2>2, NothingTakenBack
<1>3. ASSUME NEW tok \in Tokens, Safe(tok)
      PROVE  /\ \A i \in 1..tok.td : Durable(i)'
             /\ 1..tok.ev \subseteq log'
  <2>1. tok.td \in 0..Len(inbox)
    BY DEF Tokens
  <2>2. 1..tok.td \subseteq 1..Len(inbox)
    BY <1>1, <2>1
  <2> QED
    BY <1>2, <1>3, <2>2, NothingTakenBack DEF Safe
<1> QED
  BY <1>2, <1>3

\* The locals of a loop that left its cycle.
LEMMA ForgetTyped ==
  ASSUME TypeOK, UNCHANGED <<events, inbox>>, NEW l \in Loops, Forget(l)
  PROVE  CycleOK'
<1>1. NoToken \in Tokens /\ Tokens' = Tokens
  BY DEF TypeOK, NoToken, Tokens
<1>2. CycleOK
  BY DEF TypeOK
<1>3. since' \in [Loops -> Tokens] /\ next' \in [Loops -> Tokens]
  BY <1>1, <1>2 DEF Forget, CycleOK
<1>4. rest' \in [Loops -> SUBSET (1..Len(inbox))]
  BY <1>2 DEF Forget, CycleOK
<1>5. changed' \in [Loops -> BOOLEAN]
  BY <1>2 DEF Forget, CycleOK
<1> QED
  BY <1>1, <1>3, <1>4, <1>5 DEF CycleOK

\* A step moves a loop to one of its places.
LEMMA GotoTyped ==
  ASSUME TypeOK, NEW l \in Loops, NEW where \in Places, Goto(l, where)
  PROVE  pc' \in [Loops -> Places]
BY DEF TypeOK, Goto

\* Faults are counted up to their bound.
LEMMA FaultTyped ==
  ASSUME TypeOK
  PROVE  /\ faults \in 0..MaxFaults
         /\ Fault => faults' \in 0..MaxFaults
BY BoundsAssumption DEF TypeOK, Fault

\* Each action keeps the types.
LEMMA TypeCorrect ==
  ASSUME IInv, [Next]_vars
  PROVE  TypeOK'
<1> USE BoundsAssumption DEF IInv, server, store, device, missing, cycle
<1>1. /\ events' \in events..MaxEvents
      /\ inbox' \in Seq([room : Rooms, good : BOOLEAN]) /\ Len(inbox') <= MaxWelcomes
      /\ Len(inbox) <= Len(inbox') /\ \A i \in 1..Len(inbox) : inbox'[i] = inbox[i]
      /\ Tokens \subseteq Tokens'
  BY StreamsGrow
<1>2. /\ events \in Nat /\ Len(inbox) \in Nat /\ Len(inbox') \in Nat /\ acked \in Nat
      /\ 1..events \subseteq 1..events' /\ 1..Len(inbox) \subseteq 1..Len(inbox')
  BY <1>1 DEF TypeOK
<1>3. NoToken \in Tokens /\ [ev |-> events, td |-> Len(inbox)] \in Tokens
  BY <1>2 DEF NoToken, Tokens
<1>4. CASE SendEvent
  BY <1>1, <1>2, <1>4 DEF SendEvent, TypeOK, CycleOK
<1>5. ASSUME NEW r \in Rooms, NEW good \in BOOLEAN, SendWelcome(r, good)
      PROVE  TypeOK'
  BY <1>1, <1>2, <1>5 DEF SendWelcome, TypeOK, CycleOK
<1>6. ASSUME UNCHANGED <<events, inbox>>
      PROVE  /\ Tokens' = Tokens /\ events' = events /\ inbox' = inbox
             /\ UNCHANGED cycle => CycleOK'
             /\ \A l \in Loops : Forget(l) => CycleOK'
  BY <1>6, ForgetTyped DEF Tokens, TypeOK, CycleOK
<1>7. CASE SaveDevice
  BY <1>6, <1>7 DEF SaveDevice, TypeOK
<1>8. CASE Crash
  <2>1. UNCHANGED <<events, inbox>>
    BY <1>8 DEF Crash
  <2>2. CycleOK'
    BY <1>3, <1>6, <1>8, <2>1 DEF Crash, CycleOK
  <2>3. pc' \in [Loops -> Places]
    BY <1>8 DEF Crash, Places
  <2>4. /\ engine' \in BOOLEAN /\ born' \in 0..Len(inbox')
        /\ disk' \subseteq Rooms /\ mem' \subseteq Rooms
        /\ unsaved' \subseteq Rooms /\ passed' \subseteq Rooms
    <3> USE <1>8 DEF TypeOK
    <3>1. CASE Restored
      BY <2>1, <3>1 DEF Restored
    <3>2. CASE Unavailable
      BY <2>1, <3>2 DEF Unavailable
    <3>3. CASE Replaced
      BY <1>2, <2>1, <3>3 DEF Replaced
    <3> QED
      BY <3>1, <3>2, <3>3 DEF Crash
  <2> QED
    BY <1>6, <1>8, <2>1, <2>2, <2>3, <2>4, FaultTyped DEF Crash, TypeOK
<1>9. ASSUME NEW l \in Loops, Answer(l)
      PROVE  TypeOK'
  <2>1. acked' \in 0..Len(inbox)
    BY <1>2, <1>9 DEF Answer, Acknowledge, TypeOK, CycleOK, Tokens
  <2>2. UNCHANGED <<events, inbox>> /\ Tokens' = Tokens
    BY <1>9 DEF Answer, Tokens
  <2>3. CycleOK'
    BY <1>3, <1>9, <2>2 DEF Answer, TypeOK, CycleOK
  <2>4. pc' \in [Loops -> Places]
    BY <1>9, GotoTyped DEF Answer, Places
  <2> QED
    BY <1>9, <2>1, <2>2, <2>3, <2>4 DEF Answer, TypeOK
<1>10. ASSUME NEW l \in Loops, Transient(l)
       PROVE  TypeOK'
  <2>1. acked' \in 0..Len(inbox)
    BY <1>2, <1>10 DEF Transient, Acknowledge, TypeOK, CycleOK, Tokens
  <2>2. UNCHANGED <<events, inbox>>
    BY <1>10 DEF Transient
  <2>3. pc' \in [Loops -> Places]
    BY <1>10, GotoTyped DEF Transient, Places
  <2> QED
    BY <1>6, <1>10, <2>1, <2>2, <2>3, FaultTyped DEF Transient, TypeOK
<1>11. ASSUME NEW l \in Loops, ApplySync(l)
       PROVE  TypeOK'
  <2>1. Fetched(l) \subseteq 1..events /\ UNCHANGED <<events, inbox>> /\ Tokens' = Tokens
    BY <1>11 DEF Fetched, ApplySync, Tokens
  <2>2. pc' \in [Loops -> Places]
    BY <1>11, GotoTyped DEF ApplySync, Places
  <2>3. CycleOK'
    BY <1>11, <2>1 DEF ApplySync, TypeOK, CycleOK
  <2> QED
    BY <1>11, <2>1, <2>2, <2>3 DEF ApplySync, TypeOK
<1>12. ASSUME NEW l \in Loops, NEW i \in 1..Len(inbox),
              Skip(l, i) \/ Join(l, i) \/ JoinUnsaved(l, i) \/ JoinFails(l, i)
       PROVE  TypeOK'
  <2>1. inbox[i].room \in Rooms
    BY WelcomeHasRoom
  <2>2. UNCHANGED <<events, inbox>> /\ Tokens' = Tokens
    BY <1>12 DEF Skip, Join, JoinUnsaved, JoinFails, Tokens
  <2>3. CycleOK'
    BY <1>12, <2>2 DEF Skip, Join, JoinUnsaved, JoinFails, Done, TypeOK, CycleOK
  <2>4. CASE Skip(l, i)
    BY <2>2, <2>3, <2>4 DEF Skip, TypeOK
  <2>5. CASE Join(l, i)
    BY <2>1, <2>2, <2>3, <2>5 DEF Join, TypeOK
  <2>6. CASE JoinUnsaved(l, i)
    BY <2>1, <2>2, <2>3, <2>6, FaultTyped DEF JoinUnsaved, TypeOK
  <2>7. CASE JoinFails(l, i)
    <3>1. passed' \subseteq Rooms
      BY <2>1, <2>7 DEF JoinFails, Missed, TypeOK
    <3> QED
      BY <2>2, <2>3, <2>7, <3>1, FaultTyped DEF JoinFails, TypeOK
  <2> QED
    BY <1>12, <2>4, <2>5, <2>6, <2>7
<1>13. ASSUME NEW l \in Loops, Start(l) \/ Ask(l) \/ JoinsDone(l) \/ PersistToken(l)
       PROVE  TypeOK'
  <2>1. UNCHANGED <<events, inbox>> /\ Tokens' = Tokens
    BY <1>13 DEF Start, Ask, JoinsDone, PersistToken, Tokens
  <2>2. pc' \in [Loops -> Places]
    BY <1>13, GotoTyped DEF Start, Ask, JoinsDone, PersistToken, Places
  <2>3. CycleOK'
    BY <1>13, <2>1 DEF Start, Ask, JoinsDone, PersistToken, TypeOK, CycleOK
  <2>4. token' \in Tokens
    BY <1>13 DEF Start, Ask, JoinsDone, PersistToken, TypeOK, CycleOK
  <2> QED
    BY <1>13, <2>1, <2>2, <2>3, <2>4 DEF Start, Ask, JoinsDone, PersistToken, TypeOK
<1>14. ASSUME NEW l \in Loops, EndCycle(l) \/ Backoff(l) \/ Fatal(l) \/ Cancel(l)
       PROVE  TypeOK'
  <2>1. UNCHANGED <<events, inbox>>
    BY <1>14 DEF EndCycle, Backoff, Fatal, Cancel
  <2>2. pc' \in [Loops -> Places]
    BY <1>14, GotoTyped DEF EndCycle, Backoff, Fatal, Cancel, Places
  <2>3. CycleOK'
    BY <1>6, <1>14, <2>1 DEF EndCycle, Backoff, Fatal, Cancel
  <2>4. unseen' \in BOOLEAN
    BY <1>14 DEF EndCycle, Backoff, Fatal, Cancel, TypeOK
  <2>5. faults' \in 0..MaxFaults
    BY <1>14, FaultTyped DEF EndCycle, Backoff, Fatal, Cancel
  <2>6. UNCHANGED <<acked, token, log, disk, engine, mem, born, unsaved, passed>>
    BY <1>14 DEF EndCycle, Backoff, Fatal, Cancel
  <2> QED
    BY <1>6, <2>1, <2>2, <2>3, <2>4, <2>5, <2>6 DEF TypeOK
<1>15. ASSUME NEW l \in Loops, PassOver(l)
       PROVE  TypeOK'
  <2>1. UNCHANGED <<events, inbox>> /\ Tokens' = Tokens
    BY <1>15 DEF PassOver, Tokens
  <2>2. CycleOK'
    BY <1>15, <2>1 DEF PassOver, TypeOK, CycleOK
  <2>3. \A i \in rest[l] : inbox[i].room \in Rooms
    BY WelcomeHasRoom DEF TypeOK, CycleOK
  <2>4. passed' \subseteq Rooms
    BY <1>15, <2>3 DEF PassOver, Missed, TypeOK
  <2> QED
    BY <1>15, <2>1, <2>2, <2>4 DEF PassOver, TypeOK
<1>16. CASE UNCHANGED vars
  BY <1>6, <1>16 DEF vars, TypeOK
<1> QED
  BY <1>4, <1>5, <1>7, <1>8, <1>9, <1>10, <1>11, <1>12, <1>13, <1>14, <1>15, <1>16
  DEF Next, Step

\* A loop that does not move, or only forgets what it had, has nothing new in hand.
LEMMA HandStays ==
  ASSUME IInv, [Next]_vars, NEW l \in Loops,
         pc'[l] \in {"join", "persist"} => pc'[l] = pc[l],
         \/ since'[l] = since[l] /\ next'[l] = next[l] /\ rest'[l] = rest[l]
         \/ /\ since'[l] = NoToken /\ next'[l] = NoToken /\ rest'[l] = {}
            /\ pc'[l] \notin {"join", "persist"}
  PROVE  Hand(l)'
<1>1. TypeOK /\ HandInv /\ Hand(l) /\ since[l] \in Tokens /\ next[l] \in Tokens
  BY DEF IInv, HandInv, TypeOK, CycleOK
<1>2. CASE since'[l] = since[l] /\ next'[l] = next[l] /\ rest'[l] = rest[l]
  <2>1. Safe(since[l])'
    BY <1>1, <1>2, DurableStays DEF Hand, Safe
  <2>2. \A i \in 1..next'[l].td : i \in rest'[l] \/ Durable(i)'
    <3>1. 1..next[l].td \subseteq 1..Len(inbox)
      BY <1>1 DEF Tokens, TypeOK
    <3> QED
      BY <1>1, <1>2, <3>1, DurableStays DEF Hand
  <2>3. log \subseteq log'
    BY <1>1, NothingTakenBack
  <2> QED
    BY <1>1, <1>2, <2>1, <2>2, <2>3 DEF Hand
<1>3. CASE /\ since'[l] = NoToken /\ next'[l] = NoToken /\ rest'[l] = {}
           /\ pc'[l] \notin {"join", "persist"}
  BY <1>3 DEF Hand, Safe, NoToken
<1> QED
  BY <1>2, <1>3

\* Each action keeps the inductive invariant.
LEMMA Inductive == IInv /\ [Next]_vars => IInv'
<1> SUFFICES ASSUME IInv, [Next]_vars PROVE IInv'
  OBVIOUS
<1> USE DEF server, store, device, missing, cycle
<1>1. TypeOK /\ HandInv /\ MemInv /\ AckedIsDurable /\ TypeOK'
  BY TypeCorrect DEF IInv, HandInv
<1>2. \A i \in 1..Len(inbox) : Durable(i) => Durable(i)'
  BY <1>1, DurableStays
<1>3. ASSUME NEW tok \in Tokens, Safe(tok)
      PROVE  /\ \A i \in 1..tok.td : Durable(i)'
             /\ 1..tok.ev \subseteq log'
  BY <1>1, <1>3, DurableStays
\* The homeserver deletes no more than a request's token or what it had deleted.
<1>4. ASSUME token' = token \/ \E l \in Loops : token' = next[l] /\ Safe(next[l]),
             acked' = acked \/ \E l \in Loops : acked' = since[l].td
      PROVE  AckedIsDurable'
  <2>1. Safe(token)'
    <3>1. token \in Tokens /\ Safe(token) /\ \A l \in Loops : next[l] \in Tokens
      BY <1>1 DEF TypeOK, CycleOK, AckedIsDurable
    <3> QED
      BY <1>3, <1>4, <3>1 DEF Safe
  <2>2. \A i \in 1..acked' : Durable(i)'
    <3>1. CASE acked' = acked
      <4>1. \A i \in 1..acked : i \in 1..Len(inbox) /\ Durable(i)
        BY <1>1 DEF TypeOK, AckedIsDurable
      <4> QED
        BY <1>2, <3>1, <4>1
    <3>2. ASSUME NEW l \in Loops, acked' = since[l].td
          PROVE  \A i \in 1..acked' : Durable(i)'
      <4>1. since[l] \in Tokens /\ Safe(since[l])
        BY <1>1 DEF TypeOK, CycleOK, HandInv, Hand
      <4> QED
        BY <1>3, <3>2, <4>1
    <3> QED
      BY <1>4, <3>1, <3>2
  <2> QED
    BY <2>1, <2>2 DEF AckedIsDurable
\* In the other loops, and in the loops of other actions, nothing moves.
<1>5. ASSUME NEW l \in Loops,
             \A k \in Loops \ {l} : UNCHANGED <<pc[k], since[k], next[k], rest[k]>>,
             Hand(l)'
      PROVE  \A k \in Loops : Hand(k)'
  <2> TAKE k \in Loops
  <2>1. CASE k = l
    BY <1>5, <2>1
  <2>2. CASE k # l
    BY <1>5, <2>2, HandStays
  <2> QED
    BY <2>1, <2>2
<1>6. ASSUME UNCHANGED <<pc, since, next, rest>>
      PROVE  \A k \in Loops : Hand(k)'
  BY <1>6, HandStays
<1>7. CASE SendEvent \/ (\E r \in Rooms, good \in BOOLEAN : SendWelcome(r, good))
  <2>1. UNCHANGED <<acked, token, log, disk, device, missing, pc, since, next, rest>>
    BY <1>7 DEF SendEvent, SendWelcome
  <2> QED
    BY <1>1, <1>4, <1>6, <2>1 DEF IInv, HandInv, MemInv
<1>8. CASE SaveDevice
  <2>1. UNCHANGED <<acked, token, pc, since, next, rest>> /\ MemInv'
    BY <1>8 DEF SaveDevice, MemInv
  <2> QED
    BY <1>1, <1>4, <1>6, <2>1 DEF IInv, HandInv
<1>9. CASE Crash
  <2>1. UNCHANGED <<acked, token>> /\ MemInv'
    BY <1>1, <1>9 DEF Crash, Restored, Unavailable, Replaced, MemInv
  <2>2. ASSUME NEW k \in Loops PROVE Hand(k)'
    <3>1. /\ since'[k] = NoToken /\ next'[k] = NoToken /\ rest'[k] = {}
          /\ pc'[k] \notin {"join", "persist"}
      BY <1>9 DEF Crash
    <3> QED
      BY <3>1, HandStays
  <2> QED
    BY <1>1, <1>4, <2>1, <2>2 DEF IInv, HandInv
<1>10. ASSUME NEW l \in Loops, Answer(l)
       PROVE  IInv'
  <2>1. /\ UNCHANGED <<events, inbox, token, log, disk, device, missing, since>>
        /\ acked' = acked \/ acked' = since[l].td
        /\ \A k \in Loops \ {l} : UNCHANGED <<pc[k], since[k], next[k], rest[k]>>
        /\ pc'[l] = "apply" /\ next'[l].td = Len(inbox)
        /\ rest'[l] = {i \in 1..Len(inbox) : i > acked'}
    BY <1>1, <1>10 DEF Answer, Acknowledge, Goto, TypeOK, CycleOK
  <2>2. AckedIsDurable' /\ MemInv'
    BY <1>1, <1>4, <2>1 DEF MemInv
  <2>3. Hand(l)'
    <3>1. Safe(since[l])'
      BY <1>1, <1>3, <2>1 DEF TypeOK, CycleOK, HandInv, Hand, Safe
    <3>2. ASSUME NEW i \in 1..Len(inbox) PROVE i \in rest'[l] \/ Durable(i)'
      BY <1>1, <2>1, <2>2 DEF AckedIsDurable, TypeOK
    <3> QED
      BY <2>1, <3>1, <3>2 DEF Hand
  <2> QED
    BY <1>1, <1>5, <2>1, <2>2, <2>3 DEF IInv, HandInv
<1>11. ASSUME NEW l \in Loops, Transient(l)
       PROVE  IInv'
  <2>1. /\ UNCHANGED <<token, disk, device, missing>>
        /\ acked' = acked \/ acked' = since[l].td
        /\ \A k \in Loops \ {l} : UNCHANGED <<pc[k], since[k], next[k], rest[k]>>
        /\ since'[l] = NoToken /\ next'[l] = NoToken /\ rest'[l] = {}
        /\ pc'[l] \notin {"join", "persist"}
    BY <1>1, <1>11 DEF Transient, Acknowledge, Goto, Forget, TypeOK, CycleOK
  <2>2. Hand(l)'
    BY <2>1, HandStays
  <2> QED
    BY <1>1, <1>4, <1>5, <2>1, <2>2 DEF IInv, HandInv, MemInv
<1>12. ASSUME NEW l \in Loops, EndCycle(l) \/ Fatal(l) \/ Cancel(l) \/ Backoff(l)
       PROVE  IInv'
  <2>1. /\ UNCHANGED <<acked, token, disk, device, missing>>
        /\ \A k \in Loops \ {l} : UNCHANGED <<pc[k], since[k], next[k], rest[k]>>
        /\ pc'[l] \notin {"join", "persist"}
    BY <1>1, <1>12 DEF EndCycle, Fatal, Cancel, Backoff, Goto, Forget, TypeOK, CycleOK
  <2>2. \/ since'[l] = since[l] /\ next'[l] = next[l] /\ rest'[l] = rest[l]
        \/ since'[l] = NoToken /\ next'[l] = NoToken /\ rest'[l] = {}
    BY <1>1, <1>12 DEF EndCycle, Fatal, Cancel, Backoff, Forget, TypeOK, CycleOK
  <2>3. Hand(l)'
    BY <2>1, <2>2, HandStays
  <2> QED
    BY <1>1, <1>4, <1>5, <2>1, <2>3 DEF IInv, HandInv, MemInv
<1>13. ASSUME NEW l \in Loops, Start(l)
       PROVE  IInv'
  <2>1. /\ UNCHANGED <<acked, token, disk, device, missing, since, next, rest>>
        /\ \A k \in Loops \ {l} : UNCHANGED <<pc[k], since[k], next[k], rest[k]>>
        /\ pc'[l] \notin {"join", "persist"}
    BY <1>1, <1>13 DEF Start, Goto, TypeOK
  <2>2. Hand(l)'
    BY <2>1, HandStays
  <2> QED
    BY <1>1, <1>4, <1>5, <2>1, <2>2 DEF IInv, HandInv, MemInv
<1>14. ASSUME NEW l \in Loops, Ask(l)
       PROVE  IInv'
  <2>1. /\ UNCHANGED <<inbox, acked, token, log, disk, device, missing, next, rest>>
        /\ \A k \in Loops \ {l} : UNCHANGED <<pc[k], since[k], next[k], rest[k]>>
        /\ pc'[l] = "wait" /\ since'[l] = token
    BY <1>1, <1>14 DEF Ask, Goto, TypeOK, CycleOK
  <2>2. Hand(l)'
    BY <1>1, <2>1 DEF HandInv, Hand, AckedIsDurable, Safe, Durable, Usable
  <2> QED
    BY <1>1, <1>4, <1>5, <2>1, <2>2 DEF IInv, HandInv, MemInv
<1>15. ASSUME NEW l \in Loops, ApplySync(l)
       PROVE  IInv'
  <2>1. /\ UNCHANGED <<inbox, acked, token, disk, device, missing, since, next, rest>>
        /\ \A k \in Loops \ {l} : UNCHANGED <<pc[k], since[k], next[k], rest[k]>>
        /\ pc'[l] = "join" /\ log' = log \cup Fetched(l)
    BY <1>1, <1>15 DEF ApplySync, Goto, TypeOK
  <2>2. 1..next[l].ev \subseteq log'
    <3>1. since[l] \in Tokens /\ next[l] \in Tokens /\ events \in Nat
      BY <1>1 DEF TypeOK, CycleOK
    <3>2. since[l].ev \in 0..events /\ next[l].ev \in 0..events
      BY <3>1 DEF Tokens
    <3>3. 1..since[l].ev \subseteq log
      BY <1>1 DEF HandInv, Hand, Safe
    <3> QED
      BY <2>1, <3>1, <3>2, <3>3 DEF Fetched
  <2>3. Hand(l)'
    BY <1>1, <2>1, <2>2 DEF HandInv, Hand, Safe, Durable, Usable
  <2> QED
    BY <1>1, <1>4, <1>5, <2>1, <2>3 DEF IInv, HandInv, MemInv
<1>16. ASSUME NEW l \in Loops, NEW i \in 1..Len(inbox),
              Skip(l, i) \/ Join(l, i) \/ JoinUnsaved(l, i) \/ JoinFails(l, i)
       PROVE  IInv'
  <2>1. /\ UNCHANGED <<inbox, acked, token, log, pc, since, next>>
        /\ \A k \in Loops \ {l} : UNCHANGED <<pc[k], since[k], next[k], rest[k]>>
        /\ pc[l] = "join" /\ rest'[l] = rest[l] \ {i}
    BY <1>1, <1>16 DEF Skip, Join, JoinUnsaved, JoinFails, At, Done, TypeOK, CycleOK
  <2>2. MemInv'
    BY <1>1, <1>16 DEF Skip, Join, JoinUnsaved, JoinFails, At, MemInv
  <2>3. Durable(i)'
    BY <1>1, <1>16 DEF Skip, Join, JoinUnsaved, JoinFails, At, Missed, MemInv, Durable, Usable
  <2>4. Hand(l)'
    <3>1. Hand(l) /\ since[l] \in Tokens
      BY <1>1 DEF HandInv, TypeOK, CycleOK
    <3>2. Safe(since[l])'
      BY <1>3, <2>1, <3>1 DEF Hand, Safe
    <3>3. 1..next[l].td \subseteq 1..Len(inbox)
      <4>1. next[l] \in Tokens /\ Len(inbox) \in Nat
        BY <1>1 DEF TypeOK, CycleOK
      <4> QED
        BY <4>1 DEF Tokens
    <3>4. \A j \in 1..next[l].td : j \in rest'[l] \/ Durable(j)'
      BY <1>2, <2>1, <2>3, <3>1, <3>3 DEF Hand
    <3> QED
      BY <2>1, <3>1, <3>2, <3>4 DEF Hand
  <2> QED
    BY <1>1, <1>4, <1>5, <2>1, <2>2, <2>4 DEF IInv, HandInv
<1>17. ASSUME NEW l \in Loops, JoinsDone(l)
       PROVE  IInv'
  <2>1. /\ UNCHANGED <<inbox, acked, token, log, disk, device, missing, since, next, rest>>
        /\ \A k \in Loops \ {l} : UNCHANGED <<pc[k], since[k], next[k], rest[k]>>
        /\ pc[l] = "join" /\ pc'[l] = "persist" /\ rest[l] = {}
    BY <1>1, <1>17 DEF JoinsDone, Goto, TypeOK
  <2>2. Hand(l)'
    BY <1>1, <2>1 DEF HandInv, Hand, Safe, Durable, Usable
  <2> QED
    BY <1>1, <1>4, <1>5, <2>1, <2>2 DEF IInv, HandInv, MemInv
<1>18. ASSUME NEW l \in Loops, PersistToken(l)
       PROVE  IInv'
  <2>1. /\ UNCHANGED <<acked, disk, device, missing, since, next, rest>>
        /\ \A k \in Loops \ {l} : UNCHANGED <<pc[k], since[k], next[k], rest[k]>>
        /\ pc[l] = "persist" /\ pc'[l] = "flush" /\ token' = next[l]
    BY <1>1, <1>18 DEF PersistToken, Goto, TypeOK
  <2>2. Hand(l)'
    BY <2>1, HandStays
  <2>3. Safe(next[l])
    BY <1>1, <2>1 DEF HandInv, Hand, Safe
  <2> QED
    BY <1>1, <1>4, <1>5, <2>1, <2>2, <2>3 DEF IInv, HandInv, MemInv
<1>19. ASSUME NEW l \in Loops, PassOver(l)
       PROVE  IInv'
  <2>1. /\ UNCHANGED <<inbox, acked, token, log, disk, device, unsaved, pc, since, next>>
        /\ \A k \in Loops \ {l} : UNCHANGED <<pc[k], since[k], next[k], rest[k]>>
        /\ pc[l] = "join" /\ rest'[l] = {}
    BY <1>1, <1>19 DEF PassOver, TypeOK, CycleOK
  <2>2. MemInv'
    BY <1>1, <2>1 DEF MemInv
  <2>3. \A i \in rest[l] : Durable(i)'
    BY <1>1, <1>19, <2>1 DEF PassOver, Missed, MemInv, Durable, Usable
  <2>4. Hand(l)'
    <3>1. Hand(l) /\ since[l] \in Tokens
      BY <1>1 DEF HandInv, TypeOK, CycleOK
    <3>2. Safe(since[l])'
      BY <1>3, <2>1, <3>1 DEF Hand, Safe
    <3>3. 1..next[l].td \subseteq 1..Len(inbox)
      <4>1. next[l] \in Tokens /\ Len(inbox) \in Nat
        BY <1>1 DEF TypeOK, CycleOK
      <4> QED
        BY <4>1 DEF Tokens
    <3>4. \A j \in 1..next[l].td : Durable(j)'
      BY <1>2, <2>1, <2>3, <3>1, <3>3 DEF Hand
    <3> QED
      BY <2>1, <3>1, <3>2, <3>4 DEF Hand
  <2> QED
    BY <1>1, <1>4, <1>5, <2>1, <2>2, <2>4 DEF IInv, HandInv
<1>20. CASE UNCHANGED vars
  BY <1>1, <1>4, <1>6, <1>20 DEF vars, IInv, HandInv, MemInv
<1> QED
  BY <1>7, <1>8, <1>9, <1>10, <1>11, <1>12, <1>13, <1>14, <1>15, <1>16, <1>17, <1>18, <1>19,
     <1>20
  DEF Next, Step

\* Every behaviour keeps the inductive invariant.
THEOREM Invariance == Spec => []IInv
<1>1. Init => IInv
  <2> SUFFICES ASSUME Init PROVE IInv
    OBVIOUS
  <2>1. NoToken \in Tokens /\ Len(inbox) = 0
    BY DEF Init, NoToken, Tokens
  <2>2. CycleOK
    BY <2>1 DEF Init, CycleOK
  <2>3. TypeOK
    <3>1. inbox \in Seq([room : Rooms, good : BOOLEAN]) /\ Len(inbox) <= MaxWelcomes
      BY <2>1, BoundsAssumption DEF Init
    <3>2. pc \in [Loops -> Places] /\ token \in Tokens
      BY <2>1 DEF Init, Places
    <3>3. events \in 0..MaxEvents /\ acked \in 0..Len(inbox) /\ faults \in 0..MaxFaults
      BY <2>1, BoundsAssumption DEF Init
    <3> QED
      BY <2>2, <3>1, <3>2, <3>3 DEF Init, TypeOK
  <2>4. HandInv /\ AckedIsDurable
    BY DEF Init, HandInv, MemInv, Hand, AckedIsDurable, Safe, NoToken
  <2> QED
    BY <2>3, <2>4 DEF IInv
<1> QED
  BY <1>1, Inductive, PTL DEF Spec

\* TypeOK, for any number of loops, rooms, events, Welcomes and faults.
THEOREM Typed == Spec => []TypeOK
BY Invariance, PTL DEF IInv

\* persist_sync_token comes last: whatever is acknowledged, and so may be deleted by the
\* homeserver, is in the store or in the keystore, unless the keystore refused the group,
\* or apply_to_device passed the Welcome over for want of an engine or on an error.
THEOREM NothingAckedIsLost == Spec => []AckedIsDurable
BY Invariance, PTL DEF IInv

\* A change is in hand only between apply_sync and the end of the cycle.
InCycle == \A l \in Loops : changed[l] => pc[l] \in {"join", "persist", "flush"}

\* No step leaves a change in hand outside a cycle.
LEMMA InCycleKept ==
  ASSUME TypeOK, InCycle, [Next]_vars
  PROVE  InCycle'
<1> USE DEF server, store, device, missing, cycle
<1> USE DEF InCycle, TypeOK, CycleOK, Goto
<1>1. CASE SendEvent \/ SaveDevice \/ UNCHANGED vars
  BY <1>1 DEF SendEvent, SaveDevice, vars
<1>2. CASE \E r \in Rooms, good \in BOOLEAN : SendWelcome(r, good)
  BY <1>2 DEF SendWelcome
<1>3. CASE Crash
  BY <1>3 DEF Crash
<1>4. ASSUME NEW l \in Loops, Start(l) \/ Ask(l) \/ Answer(l) \/ JoinsDone(l) \/ PersistToken(l)
      PROVE  InCycle'
  BY <1>4 DEF Start, Ask, Answer, JoinsDone, PersistToken
<1>5. ASSUME NEW l \in Loops, ApplySync(l)
      PROVE  InCycle'
  BY <1>5 DEF ApplySync
<1>6. ASSUME NEW l \in Loops, EndCycle(l) \/ Transient(l) \/ Backoff(l) \/ Fatal(l) \/ Cancel(l)
      PROVE  InCycle'
  BY <1>6 DEF EndCycle, Transient, Backoff, Fatal, Cancel, Forget
<1>7. ASSUME NEW l \in Loops, NEW i \in 1..Len(inbox),
             Skip(l, i) \/ Join(l, i) \/ JoinUnsaved(l, i)
             \/ JoinFails(l, i)
      PROVE  InCycle'
  BY <1>7 DEF Skip, Join, JoinUnsaved, JoinFails, At
<1>8. ASSUME NEW l \in Loops, PassOver(l)
      PROVE  InCycle'
  BY <1>8 DEF PassOver
<1> QED
  BY <1>1, <1>2, <1>3, <1>4, <1>5, <1>6, <1>7, <1>8 DEF Next, Step

\* What a step can do to the promise that every change is signalled.
LEMMA PromiseKept ==
  ASSUME TypeOK, InCycle, [Next]_vars, Owned, ~ Owned'
  PROVE  \E l \in Loops : changed[l] /\ pc'[l] \in {"off", "ended"}
<1> USE DEF server, store, device, missing, cycle
<1> USE DEF InCycle, TypeOK, CycleOK, Goto, Owned
<1>1. CASE SendEvent \/ SaveDevice \/ Crash \/ UNCHANGED vars
  BY <1>1 DEF SendEvent, SaveDevice, Crash, vars
<1>2. CASE \E r \in Rooms, good \in BOOLEAN : SendWelcome(r, good)
  BY <1>2 DEF SendWelcome
<1>3. CASE \E l \in Loops : Start(l) \/ Ask(l) \/ Answer(l) \/ JoinsDone(l) \/ PersistToken(l)
                            \/ Backoff(l)
  BY <1>3 DEF Start, Ask, Answer, JoinsDone, PersistToken, Backoff
<1>4. ASSUME NEW l \in Loops, ApplySync(l)
      PROVE  FALSE
  <2>1. ~ changed[l] /\ unseen' = (unseen \/ changed'[l])
    BY <1>4 DEF ApplySync
  <2>2. \A k \in Loops : changed[k] => changed'[k]
    BY <1>4, <2>1 DEF ApplySync
  <2> QED
    BY <2>1, <2>2
<1>5. ASSUME NEW l \in Loops, EndCycle(l) \/ Transient(l)
      PROVE  FALSE
  <2>1. unseen' => unseen /\ ~ changed[l]
    BY <1>5 DEF EndCycle, Transient
  <2>2. \A k \in Loops : k # l => changed'[k] = changed[k]
    BY <1>5 DEF EndCycle, Transient, Forget
  <2> QED
    BY <2>1, <2>2
<1>6. ASSUME NEW l \in Loops, Fatal(l) \/ Cancel(l)
      PROVE  changed[l] /\ pc'[l] \in {"off", "ended"}
  <2>1. unseen' = unseen /\ pc'[l] \in {"off", "ended"}
    BY <1>6 DEF Fatal, Cancel
  <2>2. \A k \in Loops : k # l => changed'[k] = changed[k]
    BY <1>6 DEF Fatal, Cancel, Forget
  <2> QED
    BY <2>1, <2>2
<1>7. ASSUME NEW l \in Loops, NEW i \in 1..Len(inbox),
             Skip(l, i) \/ Join(l, i) \/ JoinUnsaved(l, i)
             \/ JoinFails(l, i)
      PROVE  FALSE
  BY <1>7 DEF Skip, Join, JoinUnsaved, JoinFails
<1>8. ASSUME NEW l \in Loops, PassOver(l)
      PROVE  FALSE
  BY <1>8 DEF PassOver
<1> QED
  BY <1>1, <1>2, <1>3, <1>4, <1>5, <1>6, <1>7, <1>8 DEF Next, Step

\* on_change is not forgotten: a change nobody signals was in the hands of a call that was
\* cancelled or ended with an error.
THEOREM AnnouncedUnlessEnded == Spec => ChangesAnnounced
<1>1. Init => InCycle
  BY DEF Init, InCycle
<1>2. TypeOK /\ InCycle /\ [Next]_vars =>
        [Owned /\ ~ Owned' => \E l \in Loops : changed[l] /\ pc'[l] \in {"off", "ended"}]_vars
  BY PromiseKept
<1> QED
  BY <1>1, <1>2, InCycleKept, Typed, PTL DEF Spec, ChangesAnnounced

\* run_sync, "persisting it before a Welcome is folded into MLS state would lose that Welcome":
\* with any number of loops, cancellations, crashes and relaunches, a Welcome the device could
\* use is deleted without its group only after the keystore refused a group, or
\* apply_to_device passed a Welcome over: the order of the steps loses none.
THEOREM LossHasCause == Spec => [](unsaved = {} /\ passed = {} => WelcomeNeverLost)
<1>1. IInv => (unsaved = {} /\ passed = {} => WelcomeNeverLost)
  BY DEF IInv, AckedIsDurable, Durable, HandInv, MemInv, WelcomeNeverLost
<1> QED
  BY <1>1, Invariance, PTL
==============================================================================
