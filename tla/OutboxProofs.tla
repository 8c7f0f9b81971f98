----------------------------- MODULE OutboxProofs -----------------------------
(***************************************************************************)
(* Proofs about Outbox, for any messages, rooms, tasks and number of       *)
(* faults: the inductive invariant IInv, the safety properties that follow *)
(* from it, the order in plaintext rooms, the one way to a wrong verdict,  *)
(* and the refinement of SendQueue.                                        *)
(***************************************************************************)
EXTENDS Outbox, TLAPS

\* Each action keeps the variables in their types.
LEMMA TypeCorrect == TypeOK /\ [Next]_vars => TypeOK'
<1> SUFFICES ASSUME TypeOK, [Next]_vars PROVE TypeOK'
  OBVIOUS
<1> USE RoomsAssumption, TasksAssumption, StampsAssumption, FaultsAssumption
        DEF TypeOK, disk, pass, Fault, Requests, Kinds, RowStates
<1>1. ASSUME NEW t \in Senders, NEW m \in Msgs, NEW r \in Rooms, SendMessage(t, m, r)
      PROVE  TypeOK'
  BY <1>1 DEF SendMessage, QueueSend, Tasks
<1>2. CASE SyncCycle
  BY <1>2 DEF SyncCycle, Tasks
<1>3. ASSUME NEW t \in Tasks, BeginPass(t) PROVE TypeOK'
  BY <1>3 DEF BeginPass
<1>4. ASSUME NEW t \in Tasks, EndPass(t) PROVE TypeOK'
  BY <1>4 DEF EndPass
<1>5. ASSUME NEW t \in Tasks, NEW m \in Msgs, SendEncrypted(t, m) PROVE TypeOK'
  BY <1>5 DEF SendEncrypted, Transmit
<1>6. ASSUME NEW t \in Tasks, NEW m \in Msgs, NoGroup(t, m) PROVE TypeOK'
  BY <1>6 DEF NoGroup
<1>7. ASSUME NEW t \in Tasks, NEW m \in Msgs, Hold(t, m) PROVE TypeOK'
  BY <1>7 DEF Hold, NextInPass
<1>8. ASSUME NEW t \in Tasks, NEW m \in Msgs, SendPlain(t, m) PROVE TypeOK'
  BY <1>8 DEF SendPlain, Transmit
<1>9. ASSUME NEW t \in Tasks, NEW m \in Msgs, Acked(t, m) PROVE TypeOK'
  BY <1>9 DEF Acked, ResolveSend, NextInPass
<1>10. ASSUME NEW t \in Tasks, NEW m \in Msgs, Rejected(t, m) PROVE TypeOK'
  BY <1>10 DEF Rejected, FailSend, NextInPass
<1>11. ASSUME NEW t \in Tasks, NEW m \in Msgs, EncryptFails(t, m) PROVE TypeOK'
  BY <1>11 DEF EncryptFails, FailSend, NextInPass
<1>12. ASSUME NEW t \in Tasks, TransientError(t) \/ Cancelled(t) PROVE TypeOK'
  BY <1>12 DEF TransientError, Cancelled, Abandon, Orphaned, Orphan
<1>13. CASE Crash
  BY <1>13 DEF Crash, Orphan
<1>14. ASSUME NEW r \in net, Accept(r) \/ Refuse(r) \/ AnswerCutOff(r) \/ Lose(r)
       PROVE  TypeOK'
  <2>1. CASE Accept(r)
    BY <2>1 DEF Accept, StoreOnce, Answer
  <2>2. CASE Refuse(r)
    BY <2>2 DEF Refuse, Answer
  <2>3. CASE AnswerCutOff(r)
    BY <2>3 DEF AnswerCutOff, StoreOnce, Answer
  <2>4. CASE Lose(r)
    BY <2>4 DEF Lose
  <2> QED
    BY <1>14, <2>1, <2>2, <2>3, <2>4
<1>15. ASSUME NEW m \in Msgs, Deliver(m) \/ DecryptCheck(m) \/ DecryptFails(m) PROVE TypeOK'
  BY <1>15 DEF Deliver, DecryptCheck, DecryptFails
<1>16. ASSUME NEW r \in Rooms, FoldMarker(r) \/ JoinGroup(r) PROVE TypeOK'
  BY <1>16 DEF FoldMarker, JoinGroup
<1>17. CASE DecryptPass
  BY <1>17 DEF DecryptPass
<1>18. CASE UNCHANGED vars
  BY <1>18 DEF vars
<1> QED
  BY <1>1, <1>2, <1>3, <1>4, <1>5, <1>6, <1>7, <1>8, <1>9, <1>10, <1>11, <1>12,
     <1>13, <1>14, <1>15, <1>16, <1>17, <1>18 DEF Next, PassStep

\* Positions are distinct, so a pass is at one message at a time.
LEMMA OneCurrent ==
  ASSUME TypeOK, LockInv, StampInv, NEW t \in Tasks, NEW m, NEW n, Current(t, m), Current(t, n)
  PROVE  n = m
<1>1. m \in queue /\ n \in queue /\ stamp[m] <= stamp[n] /\ stamp[n] <= stamp[m]
  BY DEF LockInv, Current
<1>2. m \in Msgs /\ n \in Msgs /\ stamp[m] \in Nat /\ stamp[n] \in Nat
  BY <1>1 DEF TypeOK
<1>3. stamp[n] = stamp[m] /\ stamp[n] # 0
  BY <1>1, <1>2 DEF StampInv
<1> QED
  BY <1>2, <1>3 DEF StampInv

\* Each action keeps the inductive invariant.
LEMMA Inductive == IInv /\ [Next]_vars => IInv'
<1> SUFFICES ASSUME IInv, [Next]_vars PROVE IInv'
  OBVIOUS
<1> USE RoomsAssumption, TasksAssumption, StampsAssumption, FaultsAssumption
        DEF IInv, TypeOK, LockInv, StampInv, EchoInv, RequestInv, RowInv, SealInv,
            OwnTextSurvives, NoDowngrade, Requests, disk, pass, Fault, Running, Current
<1>0. TypeOK'
  BY TypeCorrect
<1>1. ASSUME NEW t \in Senders, NEW m \in Msgs, NEW r \in Rooms, SendMessage(t, m, r)
      PROVE  IInv'
  <2>1. /\ LockInv' /\ StampInv' /\ EchoInv' /\ RowInv' /\ SealInv'
        /\ OwnTextSurvives' /\ NoDowngrade'
    BY <1>1, <1>0 DEF SendMessage, QueueSend
  <2>2. RequestInv'
    <3>1. ASSUME NEW p \in net', p.task # NoTask
          PROVE  /\ pc'[p.task] = "sending" /\ reply'[p.task] = "none"
                 /\ Current(p.task, p.msg)'
      BY <1>1, <1>0, <3>1 DEF SendMessage, QueueSend, Tasks
    <3>2. ASSUME NEW p \in net', NEW q \in net', p.task # NoTask, q.task # NoTask
          PROVE  p = q
      BY <1>1, <1>0, <3>2 DEF SendMessage, QueueSend, Tasks
    <3>3. ASSUME NEW u \in Tasks, reply'[u] # "none" PROVE pc'[u] = "sending"
      BY <1>1, <1>0, <3>3 DEF SendMessage, QueueSend, Tasks
    <3>4. ASSUME NEW u \in Tasks, NEW n \in Msgs, reply'[u] = "ok", Current(u, n)'
          PROVE  server'[n] # "none"
      <4>1. /\ UNCHANGED <<todo, server>> /\ stamp[m] = 0 /\ u \in Tasks /\ reply[u] = "ok"
            /\ \A k \in Msgs \ {m} : stamp'[k] = stamp[k]
        BY <1>1, <3>4 DEF SendMessage, QueueSend, Tasks
      <4>2. \A k \in todo[u] : k \in Msgs \ {m}
        BY <4>1
      <4>3. Current(u, n)
        BY <3>4, <4>1, <4>2
      <4> QED
        BY <4>1, <4>3
    <3> QED
      BY <3>1, <3>2, <3>3, <3>4
  <2> QED
    BY <1>0, <2>1, <2>2
<1>2. CASE SyncCycle
  BY <1>2, <1>0 DEF SyncCycle
<1>3. ASSUME NEW t \in Tasks, BeginPass(t) PROVE IInv'
  BY <1>3, <1>0 DEF BeginPass
<1>4. ASSUME NEW t \in Tasks, EndPass(t) PROVE IInv'
  BY <1>4, <1>0 DEF EndPass
<1>5. ASSUME NEW t \in Tasks, NEW m \in Msgs, SendEncrypted(t, m) PROVE IInv'
  <2>1. /\ LockInv' /\ StampInv' /\ EchoInv' /\ RowInv' /\ SealInv'
        /\ OwnTextSurvives' /\ NoDowngrade'
    BY <1>5, <1>0 DEF SendEncrypted, Transmit
  <2>2. RequestInv'
    <3>1. ASSUME NEW r \in net', r.task # NoTask
          PROVE  /\ pc'[r.task] = "sending" /\ reply'[r.task] = "none"
                 /\ Current(r.task, r.msg)'
      BY <1>5, <1>0, <3>1 DEF SendEncrypted, Transmit
    <3>2. ASSUME NEW r \in net', NEW q \in net', r.task # NoTask, q.task # NoTask
          PROVE  r = q
      BY <1>5, <1>0, <3>2 DEF SendEncrypted, Transmit
    <3>3. ASSUME NEW u \in Tasks, reply'[u] # "none" PROVE pc'[u] = "sending"
      BY <1>5, <1>0, <3>3 DEF SendEncrypted, Transmit
    <3>4. ASSUME NEW u \in Tasks, NEW n \in Msgs, reply'[u] = "ok", Current(u, n)'
          PROVE  server'[n] # "none"
      BY <1>5, <1>0, <3>4 DEF SendEncrypted, Transmit
    <3> QED
      BY <3>1, <3>2, <3>3, <3>4
  <2> QED
    BY <1>0, <2>1, <2>2
<1>6. ASSUME NEW t \in Tasks, NEW m \in Msgs, NoGroup(t, m) PROVE IInv'
  BY <1>6, <1>0 DEF NoGroup
<1>7. ASSUME NEW t \in Tasks, NEW m \in Msgs, Hold(t, m) PROVE IInv'
  BY <1>7, <1>0 DEF Hold, NextInPass
<1>8. ASSUME NEW t \in Tasks, NEW m \in Msgs, SendPlain(t, m) PROVE IInv'
  <2>1. /\ LockInv' /\ StampInv' /\ EchoInv' /\ RowInv' /\ SealInv'
        /\ OwnTextSurvives' /\ NoDowngrade'
    BY <1>8, <1>0 DEF SendPlain, Transmit
  <2>2. RequestInv'
    <3>1. ASSUME NEW r \in net', r.task # NoTask
          PROVE  /\ pc'[r.task] = "sending" /\ reply'[r.task] = "none"
                 /\ Current(r.task, r.msg)'
      BY <1>8, <1>0, <3>1 DEF SendPlain, Transmit
    <3>2. ASSUME NEW r \in net', NEW q \in net', r.task # NoTask, q.task # NoTask
          PROVE  r = q
      BY <1>8, <1>0, <3>2 DEF SendPlain, Transmit
    <3>3. ASSUME NEW u \in Tasks, reply'[u] # "none" PROVE pc'[u] = "sending"
      BY <1>8, <1>0, <3>3 DEF SendPlain, Transmit
    <3>4. ASSUME NEW u \in Tasks, NEW n \in Msgs, reply'[u] = "ok", Current(u, n)'
          PROVE  server'[n] # "none"
      BY <1>8, <1>0, <3>4 DEF SendPlain, Transmit
    <3> QED
      BY <3>1, <3>2, <3>3, <3>4
  <2> QED
    BY <1>0, <2>1, <2>2
<1>9. ASSUME NEW t \in Tasks, NEW m \in Msgs, Acked(t, m) PROVE IInv'
  <2>1. /\ LockInv' /\ StampInv' /\ EchoInv' /\ RequestInv' /\ SealInv'
        /\ OwnTextSurvives' /\ NoDowngrade'
    BY <1>9, <1>0 DEF Acked, ResolveSend, NextInPass
  <2>2. m \in queue /\ server[m] # "none"
    BY <1>9 DEF Acked
  <2>3. RowInv'
    BY <1>9, <1>0, <2>2 DEF Acked, ResolveSend, NextInPass, RowStates
  <2> QED
    BY <1>0, <2>1, <2>3
<1>10. ASSUME NEW t \in Tasks, NEW m \in Msgs, Rejected(t, m) PROVE IInv'
  BY <1>10, <1>0 DEF Rejected, FailSend, NextInPass
<1>11. ASSUME NEW t \in Tasks, NEW m \in Msgs, EncryptFails(t, m) PROVE IInv'
  BY <1>11, <1>0 DEF EncryptFails, FailSend, NextInPass
<1>12. ASSUME NEW t \in Tasks, TransientError(t) \/ Cancelled(t) PROVE IInv'
  <2>1. (EchoInv /\ RowInv)'
    BY <1>12, <1>0 DEF TransientError, Cancelled, Abandon
  <2>2. LockInv'
    <3>1. /\ UNCHANGED queue /\ lock' = IF lock = t THEN NoTask ELSE lock
          /\ pc' = [pc EXCEPT ![t] = "idle"] /\ todo' = [todo EXCEPT ![t] = {}]
      BY <1>12 DEF TransientError, Cancelled, Abandon
    <3> QED
      BY <3>1
  <2>3. (SealInv /\ OwnTextSurvives)'
    BY <1>12, <1>0 DEF TransientError, Cancelled, Abandon
  <2>4. /\ UNCHANGED <<queue, room, stamp, ahead, echo, chk, server, sealed>>
        /\ pc' = [pc EXCEPT ![t] = "idle"]
        /\ todo' = [todo EXCEPT ![t] = {}]
        /\ reply' = [reply EXCEPT ![t] = "none"]
    BY <1>12 DEF TransientError, Cancelled, Abandon
  <2>5. ASSUME NEW r \in net'
        PROVE  \E q \in net : /\ r.msg = q.msg /\ r.kind = q.kind
                              /\ r.task # NoTask => r = q /\ q.task # t
    BY <1>12 DEF TransientError, Cancelled, Abandon, Orphaned, Orphan
  <2>6. StampInv'
    <3>1. \A r \in net' : stamp'[r.msg] # 0
      BY <2>4, <2>5
    <3> QED
      BY <2>4, <3>1
  <2>7. NoDowngrade'
    <3>1. ASSUME NEW n \in sealed', NEW r \in net', r.msg = n PROVE r.kind = "cipher"
      BY <2>4, <2>5, <3>1
    <3> QED
      BY <2>4, <3>1
  <2>8. RequestInv'
    <3>1. ASSUME NEW r \in net', r.task # NoTask PROVE r \in net /\ r.task \in Tasks \ {t}
      BY <2>5, <3>1
    <3>2. ASSUME NEW r \in net', r.task # NoTask
          PROVE  /\ pc'[r.task] = "sending" /\ reply'[r.task] = "none"
                 /\ Current(r.task, r.msg)'
      BY <2>4, <3>1, <3>2
    <3>3. \A r, q \in net' : (r.task # NoTask /\ q.task # NoTask) => r = q
      BY <3>1
    <3>4. /\ \A u \in Tasks : reply'[u] # "none" => pc'[u] = "sending"
          /\ \A u \in Tasks, n \in Msgs :
               (reply'[u] = "ok" /\ Current(u, n)') => server'[n] # "none"
      BY <2>4
    <3> QED
      BY <3>2, <3>3, <3>4
  <2> QED
    BY <1>0, <2>1, <2>2, <2>3, <2>6, <2>7, <2>8
<1>13. CASE Crash
  BY <1>13, <1>0 DEF Crash, Orphan
<1>14. ASSUME NEW r \in net, Accept(r) \/ Refuse(r) \/ AnswerCutOff(r) PROVE IInv'
  <2>1. /\ LockInv' /\ StampInv' /\ EchoInv' /\ RowInv' /\ SealInv'
        /\ OwnTextSurvives' /\ NoDowngrade'
    BY <1>14, <1>0 DEF Accept, Refuse, AnswerCutOff, StoreOnce, Answer
  <2>2. RequestInv'
    <3>1. ASSUME NEW p \in net', p.task # NoTask
          PROVE  /\ pc'[p.task] = "sending" /\ reply'[p.task] = "none"
                 /\ Current(p.task, p.msg)'
      BY <1>14, <1>0, <3>1 DEF Accept, Refuse, AnswerCutOff, StoreOnce, Answer
    <3>2. ASSUME NEW p \in net', NEW q \in net', p.task # NoTask, q.task # NoTask
          PROVE  p = q
      BY <1>14, <1>0, <3>2 DEF Accept, Refuse, AnswerCutOff, StoreOnce, Answer
    <3>3. ASSUME NEW u \in Tasks, reply'[u] # "none" PROVE pc'[u] = "sending"
      BY <1>14, <1>0, <3>3 DEF Accept, Refuse, AnswerCutOff, StoreOnce, Answer
    <3>4. ASSUME NEW u \in Tasks, NEW n \in Msgs, reply'[u] = "ok", Current(u, n)'
          PROVE  server'[n] # "none"
      <4>1. CASE u = r.task
        <5>1. r.task # NoTask /\ Current(u, r.msg) /\ todo[u] \subseteq queue
          BY <4>1 DEF Tasks
        <5>2. n = r.msg
          <6>1. UNCHANGED <<todo, stamp>>
            BY <1>14 DEF Accept, Refuse, AnswerCutOff, Answer
          <6>2. Current(u, n)
            BY <3>4, <6>1
          <6> QED
            BY <5>1, <6>2, OneCurrent
        <5>3. StoreOnce(r)
          BY <1>14, <3>4, <4>1 DEF Accept, Refuse, AnswerCutOff, Answer
        <5> QED
          BY <5>2, <5>3 DEF StoreOnce, Kinds
      <4>2. CASE u # r.task
        BY <1>14, <3>4, <4>2 DEF Accept, Refuse, AnswerCutOff, StoreOnce, Answer, Kinds
      <4> QED
        BY <4>1, <4>2
    <3> QED
      BY <3>1, <3>2, <3>3, <3>4
  <2> QED
    BY <1>0, <2>1, <2>2
<1>15. ASSUME NEW r \in net, Lose(r) PROVE IInv'
  BY <1>15, <1>0 DEF Lose
<1>16. ASSUME NEW m \in Msgs, Deliver(m) PROVE IInv'
  BY <1>16, <1>0 DEF Deliver
<1>17. ASSUME NEW m \in Msgs, DecryptCheck(m) PROVE IInv'
  BY <1>17, <1>0 DEF DecryptCheck
<1>18. ASSUME NEW m \in Msgs, DecryptFails(m) PROVE IInv'
  BY <1>18, <1>0 DEF DecryptFails
<1>19. ASSUME NEW r \in Rooms, FoldMarker(r) \/ JoinGroup(r) PROVE IInv'
  BY <1>19, <1>0 DEF FoldMarker, JoinGroup
<1>20. CASE DecryptPass
  BY <1>20, <1>0 DEF DecryptPass
<1>21. CASE UNCHANGED vars
  BY <1>21, <1>0 DEF vars
<1> QED
  BY <1>1, <1>2, <1>3, <1>4, <1>5, <1>6, <1>7, <1>8, <1>9, <1>10, <1>11, <1>12, <1>13,
     <1>14, <1>15, <1>16, <1>17, <1>18, <1>19, <1>20, <1>21 DEF Next, PassStep

\* Every behaviour of the queue satisfies the inductive invariant, whatever the
\* number of messages, rooms, tasks and faults.
THEOREM Invariance == Spec => []IInv
<1>1. Init => IInv
  BY RoomsAssumption, TasksAssumption, StampsAssumption, FaultsAssumption
     DEF Init, IInv, TypeOK, LockInv, StampInv, EchoInv, RequestInv, RowInv, SealInv,
         OwnTextSurvives, NoDowngrade, Running, RowStates, Kinds, Tasks
<1> QED
  BY <1>1, Inductive, PTL DEF Spec

------------------------------------------------------------------------------
(* What the invariant says to a reader.                                        *)

\* TypeOK, for every value of the constants.
THEOREM Typed == Spec => []TypeOK
<1>1. IInv => TypeOK
  BY DEF IInv
<1> QED
  BY <1>1, Invariance, PTL

\* resolve_send's contract: a confirmed message is in the timeline once, readable,
\* and on the homeserver; a queued one shows as sending.
THEOREM ConfirmedOnceAndReadable == Spec => []OneReadableCopy
<1>1. IInv => OneReadableCopy
  BY DEF IInv, OneReadableCopy, Status, TypeOK, RowStates, EchoInv, RowInv
<1> QED
  BY <1>1, Invariance, PTL

\* The decrypt pass never makes a confirmed message of ours unreadable.
THEOREM OwnTextKept == Spec => []OwnTextSurvives
<1>1. IInv => OwnTextSurvives
  BY DEF IInv
<1> QED
  BY <1>1, Invariance, PTL

\* send_lock: one request at a time, and only for a message still queued.
THEOREM PassesExclude == Spec => []NoOverlappingSend
<1>1. IInv => NoOverlappingSend
  BY DEF IInv, NoOverlappingSend, TypeOK, Requests, LockInv, RequestInv, Running, Current
<1> QED
  BY <1>1, Invariance, PTL

\* flush_pending's hold: no plaintext of a message queued in a room known to be
\* encrypted, ever.
THEOREM NeverDowngraded == Spec => []NoDowngrade
<1>1. IInv => NoDowngrade
  BY DEF IInv
<1> QED
  BY <1>1, Invariance, PTL

------------------------------------------------------------------------------
(* The order in plaintext rooms.                                               *)

\* n was queued before m in the same plaintext room, and its clock reading and id say so too.
Earlier(n, m) == /\ n \in ahead[m] /\ stamp[n] < stamp[m]
                 /\ room[n] \notin EncRooms

\* A pass that has a message still to do has every queued earlier one to do too, and none is
\* queued behind a request: nothing leaves a plaintext room's queue for the network before
\* what was queued ahead of it is resolved.
OrderInv ==
  /\ \A t \in Tasks : \A m \in todo[t], n \in queue : Earlier(n, m) => n \in todo[t]
  /\ \A r \in net, n \in queue : ~ Earlier(n, r.msg)

\* The queue only loses rows, nobody's snapshot changes but t's, which drops m and m is of an
\* encrypted room or leaves the queue with it.
LEMMA DropKeepsOrder ==
  ASSUME TypeOK, OrderInv, NEW t \in Tasks, NEW m, NextInPass(t, m), queue' \subseteq queue,
         m \notin queue' \/ room[m] \in EncRooms, UNCHANGED <<room, stamp, ahead, net>>
  PROVE  OrderInv'
<1>1. \A u \in Tasks : todo'[u] = IF u = t THEN todo[u] \ {m} ELSE todo[u]
  BY DEF NextInPass, TypeOK
<1>2. \A n, k : Earlier(n, k)' <=> Earlier(n, k)
  BY DEF Earlier
<1>3. ASSUME NEW u \in Tasks, NEW k \in todo'[u], NEW n \in queue', Earlier(n, k)
      PROVE  n \in todo'[u]
  <2>1. n \in todo[u]
    BY <1>1, <1>3 DEF OrderInv
  <2>2. n # m
    BY <1>3 DEF Earlier
  <2> QED
    BY <1>1, <2>1, <2>2
<1> QED
  BY <1>2, <1>3 DEF OrderInv

\* The messages a step leaves queued, the snapshots it leaves and the requests it leaves on
\* their way are ones there were.
LEMMA LessKeepsOrder ==
  ASSUME OrderInv, UNCHANGED <<room, stamp, ahead, queue>>,
         \A t \in Tasks : todo'[t] \in {todo[t], {}},
         \A r \in net' : \E q \in net : r.msg = q.msg
  PROVE  OrderInv'
<1>1. \A n, k : Earlier(n, k)' <=> Earlier(n, k)
  BY DEF Earlier
<1> QED
  BY <1>1 DEF OrderInv

\* A request for the message a pass is at.
LEMMA TransmitKeepsOrder ==
  ASSUME TypeOK, LockInv, OrderInv, NEW t \in Tasks, NEW m \in Msgs, Current(t, m),
         NEW k, Transmit(t, m, k)
  PROVE  OrderInv'
<1>1. \A n, i : Earlier(n, i)' <=> Earlier(n, i)
  BY DEF Earlier, Transmit, disk
<1>2. UNCHANGED <<queue, todo>>
  BY DEF Transmit, disk
<1>3. ASSUME NEW r \in net' PROVE r \in net \/ r.msg = m
  BY DEF Transmit
<1>4. ASSUME NEW n \in queue, Earlier(n, m) PROVE FALSE
  <2>1. n \in todo[t] /\ m \in todo[t]
    BY <1>4 DEF OrderInv, Current
  <2>2. stamp[m] <= stamp[n] /\ stamp[m] \in Nat /\ stamp[n] \in Nat
    BY <1>4, <2>1 DEF Current, TypeOK
  <2> QED
    BY <1>4, <2>2 DEF Earlier
<1> QED
  BY <1>1, <1>2, <1>3, <1>4 DEF OrderInv

\* A message that is only now queued is ahead of no other, whatever its position.
LEMMA SubmitKeepsOrder ==
  ASSUME IInv, OrderInv, NEW t \in Senders, NEW m \in Msgs, NEW r \in Rooms, SendMessage(t, m, r)
  PROVE  OrderInv'
<1>1. /\ UNCHANGED <<todo, net>> /\ queue' = queue \cup {m} /\ stamp[m] = 0
      /\ \A n \in Msgs \ {m} : /\ stamp'[n] = stamp[n] /\ room'[n] = room[n]
                              /\ ahead'[n] = ahead[n]
  BY DEF SendMessage, QueueSend, IInv, TypeOK
<1>2. m \notin queue /\ queue \subseteq Msgs
  BY <1>1 DEF IInv, StampInv, TypeOK
<1>3. \A u \in Tasks : \A k \in todo[u] : k \in Msgs \ {m}
  BY <1>2 DEF IInv, LockInv
<1>4. \A q \in net : q.msg \in Msgs \ {m}
  BY <1>1 DEF IInv, StampInv, TypeOK, Requests
<1>5. \A n, k \in Msgs \ {m} : Earlier(n, k)' <=> Earlier(n, k)
  BY <1>1 DEF Earlier
<1>6. \A k \in Msgs \ {m} : ~ Earlier(m, k)'
  BY <1>1 DEF Earlier, IInv, StampInv
<1>7. ASSUME NEW u \in Tasks, NEW k \in todo'[u], NEW n \in queue', Earlier(n, k)'
      PROVE  n \in todo'[u]
  <2>1. k \in Msgs \ {m} /\ k \in todo[u] /\ n # m
    BY <1>1, <1>3, <1>6, <1>7
  <2>2. n \in queue /\ n \in Msgs \ {m}
    BY <1>1, <1>2, <2>1
  <2> QED
    BY <1>1, <1>5, <1>7, <2>1, <2>2 DEF OrderInv
<1>8. ASSUME NEW q \in net', NEW n \in queue' PROVE ~ Earlier(n, q.msg)'
  <2>1. q \in net /\ q.msg \in Msgs \ {m}
    BY <1>1, <1>4
  <2>2. CASE n = m
    BY <1>6, <2>1, <2>2
  <2>3. CASE n # m
    BY <1>1, <1>2, <1>5, <2>1, <2>3 DEF OrderInv
  <2> QED
    BY <2>2, <2>3
<1> QED
  BY <1>7, <1>8 DEF OrderInv

\* Each action keeps it.
LEMMA OrderKept == IInv /\ OrderInv /\ [Next]_vars => OrderInv'
<1> SUFFICES ASSUME IInv, OrderInv, [Next]_vars PROVE OrderInv'
  OBVIOUS
<1> USE DEF disk, pass
<1>0. TypeOK /\ LockInv
  BY DEF IInv
<1>1. ASSUME NEW t \in Senders, NEW m \in Msgs, NEW r \in Rooms, SendMessage(t, m, r)
      PROVE  OrderInv'
  BY <1>1, SubmitKeepsOrder
<1>2. ASSUME UNCHANGED <<queue, room, stamp, ahead, todo, net>> PROVE OrderInv'
  BY <1>2, LessKeepsOrder
<1>3. ASSUME NEW t \in Tasks, BeginPass(t) PROVE OrderInv'
  <2>1. /\ UNCHANGED <<queue, room, stamp, ahead, net>>
        /\ \A u \in Tasks : todo'[u] = IF u = t THEN queue ELSE todo[u]
    BY <1>0, <1>3 DEF BeginPass, TypeOK
  <2>2. \A n, k : Earlier(n, k)' <=> Earlier(n, k)
    BY <2>1 DEF Earlier
  <2> QED
    BY <2>1, <2>2 DEF OrderInv
<1>4. ASSUME NEW t \in Tasks, NEW m \in Msgs, SendEncrypted(t, m) \/ SendPlain(t, m)
      PROVE  OrderInv'
  BY <1>0, <1>4, TransmitKeepsOrder DEF SendEncrypted, SendPlain
<1>5. ASSUME NEW t \in Tasks, NEW m \in Msgs, Hold(t, m) PROVE OrderInv'
  <2>1. NextInPass(t, m) /\ room[m] \in EncRooms /\ UNCHANGED <<queue, room, stamp, ahead, net>>
    BY <1>0, <1>5 DEF Hold, TypeOK
  <2> QED
    BY <1>0, <2>1, DropKeepsOrder
<1>6. ASSUME NEW t \in Tasks, NEW m \in Msgs,
             Acked(t, m) \/ Rejected(t, m) \/ EncryptFails(t, m)
      PROVE  OrderInv'
  <2>1. NextInPass(t, m) /\ queue' = queue \ {m} /\ UNCHANGED <<room, stamp, ahead, net>>
    BY <1>6 DEF Acked, Rejected, EncryptFails, ResolveSend, FailSend
  <2> QED
    BY <1>0, <2>1, DropKeepsOrder
<1>7. ASSUME NEW t \in Tasks, TransientError(t) \/ Cancelled(t) PROVE OrderInv'
  <2>1. Abandon(t) /\ UNCHANGED <<queue, room, stamp, ahead>>
    BY <1>7 DEF TransientError, Cancelled
  <2>2. \A u \in Tasks : todo'[u] \in {todo[u], {}}
    BY <1>0, <2>1 DEF Abandon, TypeOK
  <2>3. \A r \in net' : \E q \in net : r.msg = q.msg
    BY <2>1 DEF Abandon, Orphaned, Orphan
  <2> QED
    BY <2>1, <2>2, <2>3, LessKeepsOrder
<1>8. CASE Crash
  <2>1. /\ UNCHANGED <<queue, room, stamp, ahead>> /\ \A u \in Tasks : todo'[u] = {}
        /\ \A r \in net' : \E q \in net : r.msg = q.msg
    BY <1>8 DEF Crash, Orphan
  <2> QED
    BY <2>1, LessKeepsOrder
<1>9. ASSUME NEW r \in net, Accept(r) \/ Refuse(r) \/ AnswerCutOff(r) \/ Lose(r)
      PROVE  OrderInv'
  <2>1. UNCHANGED <<queue, room, stamp, ahead, todo>> /\ net' = net \ {r}
    BY <1>9 DEF Accept, Refuse, AnswerCutOff, Lose, Answer
  <2> QED
    BY <2>1, LessKeepsOrder
<1>10. ASSUME NEW t \in Tasks, EndPass(t) \/ \E m \in Msgs : NoGroup(t, m) PROVE OrderInv'
  BY <1>2, <1>10 DEF EndPass, NoGroup
<1>11. CASE \/ SyncCycle \/ DecryptPass \/ UNCHANGED vars
            \/ \E m \in Msgs : Deliver(m) \/ DecryptCheck(m) \/ DecryptFails(m)
            \/ \E r \in Rooms : FoldMarker(r) \/ JoinGroup(r)
  BY <1>2, <1>11 DEF SyncCycle, DecryptPass, Deliver, DecryptCheck, DecryptFails, FoldMarker,
                     JoinGroup, vars
<1> QED
  BY <1>1, <1>3, <1>4, <1>5, <1>6, <1>7, <1>8, <1>9, <1>10, <1>11 DEF Next, PassStep

\* The homeserver gets a message only from a request for it.
LEMMA StoredOnRequest ==
  ASSUME TypeOK, [Next]_vars, NEW m \in Msgs, server'[m] # server[m]
  PROVE  \E r \in net : r.msg = m
<1>1. ASSUME NEW r \in net, StoreOnce(r) PROVE r.msg = m
  BY <1>1 DEF StoreOnce, TypeOK, Requests
<1>2. CASE \E r \in net : Accept(r) \/ AnswerCutOff(r)
  BY <1>1, <1>2 DEF Accept, AnswerCutOff
<1>3. CASE UNCHANGED server
  BY <1>3
<1> QED
  BY <1>2, <1>3
     DEF Next, PassStep, SendMessage, SyncCycle, BeginPass, EndPass, SendEncrypted, SendPlain,
         Transmit, NoGroup, Hold, Acked, Rejected, EncryptFails, TransientError, Cancelled,
         Crash, Refuse, Lose, Deliver, DecryptCheck, DecryptFails, FoldMarker, JoinGroup,
         DecryptPass, vars

\* flush_pending stops at a transient failure: messages of a plaintext room whose clock
\* readings and ids are in the order they were queued reach the homeserver in that order,
\* whatever fails, is cancelled or restarts, and whatever positions the others have.
THEOREM PlainOrder == Spec => PlainRoomsInOrder
<1>1. Init => OrderInv
  BY DEF Init, OrderInv
<1>2. IInv /\ OrderInv /\ [Next]_vars => [\A r \in Rooms \ EncRooms : InOrder(r)]_vars
  <2> SUFFICES ASSUME IInv, OrderInv, [Next]_vars, NEW in \in Rooms \ EncRooms,
                      NEW m \in Msgs, server[m] = "none", server'[m] # "none", room[m] = in,
                      NEW n \in queue, n \in ahead[m], stamp[n] < stamp[m]
               PROVE  FALSE
    BY DEF InOrder
  <2>1. PICK r \in net : r.msg = m
    BY StoredOnRequest DEF IInv
  <2>2. Earlier(n, r.msg)
    BY <2>1 DEF Earlier, IInv, StampInv, TypeOK
  <2> QED
    BY <2>2 DEF OrderInv
<1> QED
  BY <1>1, <1>2, OrderKept, Invariance, PTL DEF Spec, PlainRoomsInOrder

------------------------------------------------------------------------------
(* When a message shown as failed may be on the homeserver after all.          *)

\* The pass at m has been told that the homeserver stored it.
Heard(m) == \E t \in Tasks : Current(t, m) /\ reply[t] = "ok"

\* While nothing has failed, each message is transmitted once, and what the homeserver
\* stores is confirmed by the same pass.
OnceInv == faults = 0 =>
  /\ \A r \in net : r.task # NoTask /\ server[r.msg] = "none"
  /\ \A m \in queue : server[m] # "none" => Heard(m)
  /\ FailedMeansUnsent

\* Only the pass that runs has an answer, and it is about the message it is at.
LEMMA HeardByHolder ==
  ASSUME IInv, NEW m \in Msgs, Heard(m)
  PROVE  /\ lock \in Tasks /\ pc[lock] = "sending" /\ reply[lock] = "ok"
         /\ Current(lock, m)
         /\ \A n \in Msgs : Current(lock, n) => n = m
<1>1. PICK t \in Tasks : Current(t, m) /\ reply[t] = "ok"
  BY DEF Heard
<1>2. lock = t
  BY <1>1 DEF IInv, LockInv, Current
<1>3. pc[t] = "sending"
  BY <1>1 DEF IInv, RequestInv
<1>4. ASSUME NEW n \in Msgs, Current(t, n) PROVE n = m
  BY <1>1, <1>4, OneCurrent DEF IInv
<1> QED
  BY <1>1, <1>2, <1>3, <1>4

\* A request somebody waits for has no answer yet, and is the only one.
LEMMA AskedByHolder ==
  ASSUME IInv, NEW r \in net, r.task # NoTask
  PROVE  /\ r.task \in Tasks /\ r.msg \in Msgs /\ lock = r.task
         /\ reply[lock] = "none" /\ Current(lock, r.msg) /\ r.msg \in queue
         /\ \A q \in net : q.task # NoTask => q = r
<1>1. r.task \in Tasks /\ r.msg \in Msgs
  BY DEF IInv, TypeOK, Requests
<1>2. lock = r.task /\ reply[lock] = "none" /\ Current(lock, r.msg)
  BY <1>1 DEF IInv, RequestInv, LockInv, Running
<1>3. r.msg \in queue
  BY <1>1, <1>2 DEF IInv, LockInv, Current
<1> QED
  BY <1>1, <1>2, <1>3 DEF IInv, RequestInv

\* A step without a fault keeps OnceInv.
LEMMA OnceKept == IInv /\ OnceInv /\ [Next]_vars => OnceInv'
<1> SUFFICES ASSUME IInv, OnceInv, [Next]_vars, faults' = 0 PROVE OnceInv'
  BY DEF OnceInv
<1> USE DEF disk, pass
<1>0. TypeOK /\ LockInv /\ StampInv /\ EchoInv /\ NoTask \notin Tasks
  BY TasksAssumption DEF IInv
<1>1. ASSUME faults = 0
      PROVE  /\ \A r \in net : r.task # NoTask /\ server[r.msg] = "none"
             /\ \A m \in queue : server[m] # "none" => Heard(m)
             /\ FailedMeansUnsent
  BY <1>1 DEF OnceInv
<1>2. ASSUME UNCHANGED <<queue, stamp, todo, reply, echo, net, server, faults>> PROVE OnceInv'
  BY <1>1, <1>2 DEF OnceInv, Heard, Current, FailedMeansUnsent
<1>3. ASSUME faults = 0, NEW t \in Tasks, pc[t] \in {"pass", "marker"} \/ lock = NoTask
      PROVE  \A m \in queue : server[m] = "none"
  <2> SUFFICES ASSUME NEW m \in queue, server[m] # "none" PROVE FALSE
    OBVIOUS
  <2>1. m \in Msgs /\ Heard(m)
    BY <1>0, <1>1, <1>3 DEF TypeOK
  <2>2. lock \in Tasks /\ pc[lock] = "sending"
    BY <2>1, HeardByHolder
  <2>3. pc[t] \in {"pass", "marker"} => lock = t
    BY <1>0 DEF LockInv, Running
  <2> QED
    BY <1>0, <1>3, <2>2, <2>3
<1>4. ASSUME NEW t \in Senders, NEW m \in Msgs, NEW r \in Rooms, SendMessage(t, m, r)
      PROVE  OnceInv'
  <2>1. /\ faults = 0 /\ queue' = queue \cup {m} /\ stamp[m] = 0
        /\ \A n \in Msgs \ {m} : stamp'[n] = stamp[n] /\ echo'[n] = echo[n]
        /\ echo'[m] = "sending" /\ UNCHANGED <<todo, reply, net, server>>
    BY <1>0, <1>4 DEF SendMessage, QueueSend, TypeOK
  <2>2. m \notin queue /\ server[m] = "none"
    BY <1>0, <2>1 DEF StampInv
  <2>3. ASSUME NEW n \in queue, Heard(n) PROVE Heard(n)'
    <3>1. \A u \in Tasks : \A k \in todo[u] : stamp'[k] = stamp[k]
      BY <1>0, <2>1, <2>2 DEF LockInv, TypeOK
    <3> QED
      BY <2>1, <2>3, <3>1 DEF Heard, Current
  <2>4. FailedMeansUnsent'
    BY <1>1, <2>1 DEF FailedMeansUnsent
  <2> QED
    BY <1>1, <2>1, <2>2, <2>3, <2>4 DEF OnceInv
<1>5. ASSUME NEW t \in Tasks, BeginPass(t) PROVE OnceInv'
  <2>1. faults = 0 /\ lock = NoTask /\ UNCHANGED <<queue, echo, net, server>>
    BY <1>5 DEF BeginPass
  <2> QED
    BY <1>1, <1>3, <2>1 DEF OnceInv, FailedMeansUnsent
<1>6. ASSUME NEW t \in Tasks, NEW m \in Msgs, SendEncrypted(t, m) \/ SendPlain(t, m)
      PROVE  OnceInv'
  <2>1. PICK k \in Kinds : Transmit(t, m, k)
    BY <1>6 DEF SendEncrypted, SendPlain, Kinds
  <2>2. faults = 0 /\ pc[t] \in {"pass", "marker"} /\ m \in queue
    BY <1>0, <1>6, <2>1 DEF SendEncrypted, SendPlain, Transmit, Current, LockInv
  <2>3. \A r \in net' : r \in net \/ (r.msg = m /\ r.task = t)
    BY <2>1 DEF Transmit
  <2>4. UNCHANGED <<queue, echo, server>>
    BY <2>1 DEF Transmit
  <2> QED
    BY <1>0, <1>1, <1>3, <2>2, <2>3, <2>4 DEF OnceInv, FailedMeansUnsent
<1>7. ASSUME NEW t \in Tasks, NEW m \in Msgs, Hold(t, m) PROVE OnceInv'
  <2>1. faults = 0 /\ pc[t] = "marker" /\ UNCHANGED <<queue, echo, net, server>>
    BY <1>7 DEF Hold
  <2> QED
    BY <1>1, <1>3, <2>1 DEF OnceInv, FailedMeansUnsent
<1>8. ASSUME NEW t \in Tasks, NEW m \in Msgs, Acked(t, m) \/ Rejected(t, m) PROVE OnceInv'
  <2>1. /\ faults = 0 /\ pc[t] = "sending" /\ Current(t, m) /\ UNCHANGED <<net, server>>
        /\ queue' = queue \ {m} /\ m \in queue
    BY <1>0, <1>8 DEF Acked, Rejected, ResolveSend, FailSend, Current, LockInv
  <2>2. lock = t
    BY <1>0, <2>1 DEF LockInv, Running
  <2>3. \A n \in queue : server[n] # "none" => n = m /\ reply[t] = "ok"
    BY <1>0, <1>1, <2>1, <2>2, HeardByHolder DEF TypeOK
  <2>4. \A n \in Msgs : echo'[n] = "failed" => echo[n] = "failed" \/ (n = m /\ reply[t] # "ok")
    BY <1>0, <1>8 DEF Acked, Rejected, ResolveSend, FailSend, TypeOK
  <2>5. FailedMeansUnsent'
    BY <1>1, <2>1, <2>3, <2>4 DEF FailedMeansUnsent
  <2> QED
    BY <1>1, <2>1, <2>3, <2>5 DEF OnceInv
<1>9. ASSUME NEW r \in net, Accept(r) \/ Refuse(r) PROVE OnceInv'
  <2>1. faults = 0 /\ net' = net \ {r} /\ UNCHANGED <<queue, stamp, todo, echo>>
    BY <1>9 DEF Accept, Refuse, Answer
  <2>2. r.task # NoTask
    BY <1>1, <2>1
  <2>3. net' = {}
    BY <1>1, <2>1, <2>2, AskedByHolder
  <2>4. \A n \in queue : server[n] = "none"
    BY <1>0, <1>1, <2>1, <2>2, AskedByHolder, HeardByHolder DEF TypeOK
  <2>5. CASE Refuse(r)
    BY <1>1, <2>1, <2>3, <2>4, <2>5 DEF Refuse, OnceInv, FailedMeansUnsent
  <2>6. CASE Accept(r)
    <3>1. r.task \in Tasks /\ r.msg \in Msgs /\ Current(r.task, r.msg) /\ r.msg \in queue
      BY <2>2, AskedByHolder
    <3>2. /\ reply'[r.task] = "ok"
          /\ \A n \in Msgs \ {r.msg} : server'[n] = server[n]
      BY <1>0, <2>6, <3>1 DEF Accept, Answer, StoreOnce, TypeOK
    <3>3. Heard(r.msg)'
      BY <2>1, <3>1, <3>2 DEF Heard, Current
    <3>4. echo[r.msg] = "sending"
      BY <1>0, <3>1 DEF EchoInv
    <3>5. FailedMeansUnsent'
      BY <1>1, <2>1, <3>2, <3>4 DEF FailedMeansUnsent
    <3>6. \A n \in queue' : server'[n] # "none" => n = r.msg
      BY <1>0, <2>1, <2>4, <3>2 DEF TypeOK
    <3> QED
      BY <2>3, <3>3, <3>5, <3>6 DEF OnceInv
  <2> QED
    BY <1>9, <2>5, <2>6
<1>10. ASSUME NEW r \in net, Lose(r) PROVE OnceInv'
  BY <1>1, <1>10 DEF Lose
<1>11. ASSUME Fault PROVE FALSE
  BY <1>0, <1>11 DEF Fault, TypeOK
<1>12. ASSUME NEW t \in Tasks, EndPass(t) \/ \E m \in Msgs : NoGroup(t, m) PROVE OnceInv'
  BY <1>2, <1>12 DEF EndPass, NoGroup
<1>13. CASE \/ SyncCycle \/ DecryptPass \/ UNCHANGED vars
            \/ \E m \in Msgs : Deliver(m) \/ DecryptCheck(m) \/ DecryptFails(m)
            \/ \E r \in Rooms : FoldMarker(r) \/ JoinGroup(r)
  BY <1>2, <1>13 DEF SyncCycle, DecryptPass, Deliver, DecryptCheck, DecryptFails, FoldMarker,
                     JoinGroup, vars
<1> QED
  BY <1>4, <1>5, <1>6, <1>7, <1>8, <1>9, <1>10, <1>11, <1>12, <1>13
     DEF Next, PassStep, TransientError, Cancelled, EncryptFails, Crash, AnswerCutOff

\* fail_send, "the user sees the message didn't send": the verdict can be wrong only after a
\* failure - a lost or unreadable answer, a cancelled pass, a crash.
THEOREM WrongVerdictNeedsFault == Spec => [](faults = 0 => FailedMeansUnsent)
<1>1. Init => OnceInv
  BY DEF Init, OnceInv, FailedMeansUnsent
<1>2. OnceInv => (faults = 0 => FailedMeansUnsent)
  BY DEF OnceInv
<1> QED
  BY <1>1, <1>2, OnceKept, Invariance, PTL DEF Spec

------------------------------------------------------------------------------
(* The queue implements SendQueue.                                             *)

\* A step that leaves the queue row, the order, the provisional row and the
\* homeserver's events alone is a stuttering step of the promise.
LEMMA Stutter ==
  UNCHANGED <<queue, stamp, echo, server>> => UNCHANGED Promise!vars
BY DEF Promise!vars, Status

\* A step that gives message m the verdict s and no other message another one.
LEMMA OneVerdict ==
  ASSUME NEW m \in Msgs, NEW s, Status(m)' = s,
         \A n \in Msgs \ {m} : Status(n)' = Status(n)
  PROVE  [n \in Msgs |-> Status(n)]' = [[n \in Msgs |-> Status(n)] EXCEPT ![m] = s]
OBVIOUS

\* The queue keeps its promise.
THEOREM Refinement == Spec => KeepsPromise
<1>1. Init => Promise!Init
  BY DEF Init, Promise!Init, Status
<1>2. IInv /\ [Next]_vars => [Promise!Next]_(Promise!vars)
  <2> SUFFICES ASSUME IInv, [Next]_vars PROVE [Promise!Next]_(Promise!vars)
    OBVIOUS
  <2> USE DEF IInv, TypeOK, Status, disk, pass
  <2>1. ASSUME NEW t \in Senders, NEW m \in Msgs, NEW r \in Rooms, SendMessage(t, m, r)
        PROVE  Promise!Submit(m)
    <3>1. Status(m) = "unsent" /\ Status(m)' = "queued" /\ UNCHANGED server
      BY <2>1 DEF SendMessage, QueueSend
    <3>2. \A n \in Msgs \ {m} : Status(n)' = Status(n)
      BY <2>1 DEF SendMessage, QueueSend
    <3> QED
      BY <3>1, <3>2, OneVerdict DEF Promise!Submit
  <2>2. ASSUME NEW r \in net, Accept(r) \/ AnswerCutOff(r)
        PROVE  Promise!Store(r.msg) \/ UNCHANGED Promise!vars
    <3>1. CASE server[r.msg] = "none"
      <4>1. /\ r.msg \in Msgs
            /\ \A n \in Msgs : server'[n] # "none" <=> (server[n] # "none" \/ n = r.msg)
        BY <2>2, <3>1 DEF Accept, AnswerCutOff, StoreOnce, Requests, Kinds
      <4>2. \A n \in Msgs : Status(n)' = Status(n)
        BY <2>2 DEF Accept, AnswerCutOff, StoreOnce, Answer
      <4>3. Status(r.msg) \in {"queued", "failed"}
        BY <3>1, <4>1 DEF StampInv, EchoInv, RowInv
      <4> QED
        BY <3>1, <4>1, <4>2, <4>3 DEF Promise!Store
    <3>2. CASE server[r.msg] # "none"
      BY <2>2, <3>2, Stutter DEF Accept, AnswerCutOff, StoreOnce, Answer, Requests
    <3> QED
      BY <3>1, <3>2
  <2>3. ASSUME NEW t \in Tasks, NEW m \in Msgs, Acked(t, m)
        PROVE  Promise!Confirm(m)
    <3>1. m \in queue /\ server[m] # "none"
      BY <2>3 DEF Acked, Current, LockInv, RequestInv
    <3>2. /\ Status(m) = "queued" /\ Status(m)' = "confirmed"
          /\ \A n \in Msgs \ {m} : Status(n)' = Status(n)
      BY <2>3, <3>1 DEF Acked, ResolveSend, StampInv
    <3>3. UNCHANGED server
      BY <2>3 DEF Acked
    <3> QED
      BY <3>1, <3>2, <3>3, OneVerdict DEF Promise!Confirm
  <2>4. ASSUME NEW t \in Tasks, NEW m \in Msgs, Rejected(t, m) \/ EncryptFails(t, m)
        PROVE  Promise!Fail(m)
    <3>1. m \in queue /\ FailSend(m) /\ UNCHANGED <<stamp, server>>
      BY <2>4 DEF Rejected, EncryptFails, LockInv, Current
    <3>2. /\ Status(m) = "queued" /\ Status(m)' = "failed"
          /\ \A n \in Msgs \ {m} : Status(n)' = Status(n)
      BY <3>1 DEF FailSend, StampInv
    <3> QED
      BY <3>1, <3>2, OneVerdict DEF Promise!Fail
  <2>5. CASE UNCHANGED <<queue, stamp, echo, server>>
    BY <2>5, Stutter
  <2> QED
    BY <2>1, <2>2, <2>3, <2>4, <2>5
       DEF Next, PassStep, SyncCycle, BeginPass, EndPass, SendEncrypted, SendPlain,
           Transmit, NoGroup, Hold, TransientError, Cancelled, Crash, Refuse, Answer,
           Lose, Deliver, DecryptCheck, DecryptFails, FoldMarker, JoinGroup, DecryptPass,
           vars, Promise!Next, Requests
<1> QED
  BY <1>1, <1>2, Invariance, PTL DEF Spec, KeepsPromise, Promise!Spec
===============================================================================
