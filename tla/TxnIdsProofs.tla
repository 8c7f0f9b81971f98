----------------------------- MODULE TxnIdsProofs -----------------------------
(***************************************************************************)
(* Proof about TxnIds, for any sends, clock readings and attempts: a       *)
(* homeserver that deduplicates has every send once.  The key is that an   *)
(* id in use was taken by an earlier process, at an earlier reading of the *)
(* clock, or has a counter that this process is past.                      *)
(***************************************************************************)
EXTENDS TxnIds, SequenceTheorems, TLAPS

\* Ids of this process are below its counters, those of earlier ones from before it; so no
\* two sends share one.
IdInv ==
  /\ born <= now
  /\ \A s \in Sends : id[s] # NoId => /\ id[s].prefix = Prefix(s) /\ id[s].ms <= now
                                      /\ id[s].ms < born \/ id[s].n < count[Prefix(s)]
  /\ \A s, q \in Sends : id[s] = id[q] => s = q \/ id[s] = NoId

\* A send is attempted only under its id, and a request or an event has the id of its send.
SentInv ==
  /\ \A s \in pending : id[s] # NoId
  /\ \A s \in Sends : id[s] = NoId => tries[s] = 0
  /\ \A r \in net : r.id = id[r.send]
  /\ \A k \in DOMAIN stored : stored[k].id = id[stored[k].send]

\* With deduplication there is one event per id, and one for what was answered.
EventInv ==
  /\ \A i, k \in DOMAIN stored : stored[i].id = stored[k].id => i = k
  /\ NothingSwallowed

IInv == TypeOK /\ IdInv /\ SentInv /\ EventInv

\* Each action keeps the variables in their types.
LEMMA TypeCorrect == TypeOK /\ SentInv /\ [Next]_vars => TypeOK'
<1> SUFFICES ASSUME TypeOK, SentInv, [Next]_vars PROVE TypeOK'
  OBVIOUS
<1> USE SendsAssumption, BoundsAssumption DEF TypeOK
<1>1. \A s \in Sends : Prefix(s) \in Prefixes /\ FreshId(s) \in Ids
  BY DEF Prefix, Prefixes, FreshId, Ids
<1>2. ASSUME NEW s \in Sends, NEW i \in Ids, tries[s] < MaxTries, Request(s, i)
      PROVE  /\ tries' \in [Sends -> 0..MaxTries] /\ wait' \in [Sends -> 0..MaxTries]
             /\ net' \subseteq Requests
  BY <1>2 DEF Request, Requests
<1>3. ASSUME NEW s \in Sends, Queue(s) PROVE TypeOK'
  BY <1>1, <1>3 DEF Queue, TakeId
<1>4. ASSUME NEW s \in Sends, Transmit(s) PROVE TypeOK'
  <2>1. id[s] \in Ids
    BY <1>4 DEF Transmit, SentInv
  <2> QED
    BY <1>2, <1>4, <2>1 DEF Transmit
<1>5. ASSUME NEW s \in Sends, SendOnce(s) PROVE TypeOK'
  <2>1. tries[s] < MaxTries
    BY <1>5 DEF SendOnce, SentInv
  <2> QED
    BY <1>1, <1>2, <1>5, <2>1 DEF SendOnce, TakeId
<1>6. ASSUME NEW s \in Sends, GiveUp(s) PROVE TypeOK'
  BY <1>6 DEF GiveUp
<1>7. ASSUME NEW r \in net, Answer(r), stored' \in Seq(Events) PROVE TypeOK'
  <2>1. net' \subseteq Requests /\ r.send \in Sends /\ UNCHANGED <<id, tries, now, count, born>>
    BY <1>7 DEF Answer, Requests
  <2>2. /\ wait' \in [Sends -> 0..MaxTries] /\ acked' \subseteq Sends
        /\ pending' \subseteq Queued
    <3>1. CASE wait[r.send] = r.try
      <4>1. /\ wait' = [wait EXCEPT ![r.send] = 0] /\ acked' = acked \cup {r.send}
            /\ pending' = pending \ {r.send}
        BY <1>7, <3>1 DEF Answer
      <4> QED
        BY <2>1, <4>1
    <3>2. CASE wait[r.send] # r.try
      BY <1>7, <2>1, <3>2 DEF Answer
    <3> QED
      BY <3>1, <3>2
  <2> QED
    BY <1>7, <2>1, <2>2
<1>8. ASSUME NEW r \in net, Store(r) PROVE TypeOK'
  <2>1. [send |-> r.send, id |-> r.id] \in Events
    BY DEF Requests, Events
  <2> QED
    BY <1>7, <1>8, <2>1 DEF Store
<1>9. ASSUME NEW r \in net, Repeat(r) PROVE TypeOK'
  BY <1>7, <1>9 DEF Repeat
<1>10. ASSUME NEW r \in net, Lose(r) PROVE TypeOK'
  BY <1>10 DEF Lose
<1>11. CASE Tick
  BY <1>11 DEF Tick
<1>12. CASE Restart
  BY <1>12 DEF Restart
<1>13. CASE UNCHANGED vars
  BY <1>13 DEF vars
<1> QED
  BY <1>3, <1>4, <1>5, <1>6, <1>8, <1>9, <1>10, <1>11, <1>12, <1>13 DEF Next

\* An id that is taken is new, and then below the counter.
LEMMA FreshIsNew ==
  ASSUME IInv, NEW s \in Sends, id[s] = NoId, TakeId(s), UNCHANGED <<now, born>>
  PROVE  /\ IdInv' /\ id'[s] = FreshId(s)
         /\ \A q \in Sends \ {s} : id'[q] = id[q]
<1> USE DEF IInv, TypeOK
<1>1. /\ id'[s] = FreshId(s) /\ \A q \in Sends \ {s} : id'[q] = id[q]
      /\ Prefix(s) \in Prefixes
  BY DEF TakeId, Prefix, Prefixes
<1>2. /\ count'[Prefix(s)] = count[Prefix(s)] + 1
      /\ \A p \in Prefixes \ {Prefix(s)} : count'[p] = count[p]
  BY <1>1 DEF TakeId
<1>3. /\ FreshId(s).prefix = Prefix(s) /\ FreshId(s).ms = now
      /\ FreshId(s).n = count[Prefix(s)]
  BY DEF FreshId
<1>4. ASSUME NEW q \in Sends \ {s} PROVE id[q] # FreshId(s)
  <2> SUFFICES ASSUME id[q] = FreshId(s) PROVE FALSE
    OBVIOUS
  <2>1. id[q] # NoId
    BY <1>1, NoIdAssumption DEF FreshId, Ids
  <2>2. id[q].prefix = Prefix(q) /\ (id[q].ms < born \/ id[q].n < count[Prefix(q)])
    BY <2>1 DEF IdInv
  <2> QED
    BY <1>1, <1>3, <2>2 DEF IdInv
<1>5. ASSUME NEW q \in Sends, id'[q] # NoId
      PROVE  /\ id'[q].prefix = Prefix(q) /\ id'[q].ms <= now
             /\ id'[q].ms < born \/ id'[q].n < count'[Prefix(q)]
  <2>1. CASE q = s
    BY <1>1, <1>2, <1>3, <2>1
  <2>2. CASE q # s
    <3>1. /\ id[q] \in Ids /\ id[q].prefix = Prefix(q) /\ id[q].ms <= now
          /\ id[q].ms < born \/ id[q].n < count[Prefix(q)]
      BY <1>1, <1>5, <2>2 DEF IdInv
    <3>2. Prefix(q) \in Prefixes /\ id[q].n \in Nat
      BY <3>1 DEF Ids, Prefix, Prefixes
    <3>3. count \in [Prefixes -> Nat]
      OBVIOUS
    <3>4. count[Prefix(q)] \in Nat /\ count'[Prefix(q)] \in {count[Prefix(q)], count[Prefix(q)] + 1}
      BY <1>1, <1>2, <3>2, <3>3
    <3>5. id[q].n < count[Prefix(q)] => id[q].n < count'[Prefix(q)]
      BY <3>2, <3>4
    <3>6. id'[q] = id[q]
      BY <1>1, <2>2
    <3> QED
      BY <3>1, <3>5, <3>6
  <2> QED
    BY <2>1, <2>2
<1>6. \A p, q \in Sends : id'[p] = id'[q] => p = q \/ id'[p] = NoId
  BY <1>1, <1>4 DEF IdInv
<1> QED
  BY <1>1, <1>5, <1>6 DEF IdInv

\* What the homeserver has was sent under an id.
LEMMA EventSent ==
  ASSUME IInv, NEW k \in DOMAIN stored
  PROVE  stored[k].send \in Sends /\ stored[k].id \in Ids /\ stored[k].id = id[stored[k].send]
<1>1. stored[k] \in Events
  BY ElementOfSeq DEF IInv, TypeOK
<1> QED
  BY <1>1 DEF Events, IInv, SentInv

\* A send that gets its id, and perhaps its queue row or its only request.
LEMMA TakeKeeps ==
  ASSUME IInv, TypeOK', NEW s \in Sends, id[s] = NoId, TakeId(s),
         UNCHANGED <<now, born, stored, acked>>, pending' \subseteq pending \cup {s},
         net' \subseteq net \cup {r \in Requests : r.send = s /\ r.id = FreshId(s)},
         \A q \in Sends \ {s} : tries'[q] = tries[q]
  PROVE  IInv'
<1>1. IdInv' /\ id'[s] = FreshId(s) /\ \A q \in Sends \ {s} : id'[q] = id[q]
  BY FreshIsNew
<1>2. FreshId(s) \in Ids
  BY DEF IInv, TypeOK, FreshId, Ids, Prefix, Prefixes
<1>3. \A k \in DOMAIN stored : stored[k].send \in Sends \ {s}
  BY EventSent, NoIdAssumption
<1>4. \A r \in net : r.send \in Sends \ {s}
  <2> SUFFICES ASSUME NEW r \in net PROVE r.send \in Sends /\ r.send # s
    OBVIOUS
  <2>1. r.send \in Sends /\ r.id \in Ids /\ r.id = id[r.send]
    BY DEF IInv, TypeOK, Requests, SentInv
  <2> QED
    BY <2>1, NoIdAssumption
<1>5. pending \subseteq Sends
  BY SendsAssumption DEF IInv, TypeOK
<1>6. SentInv'
  BY <1>1, <1>2, <1>3, <1>4, <1>5, NoIdAssumption DEF IInv, SentInv
<1>7. EventInv'
  BY DEF IInv, EventInv, NothingSwallowed
<1> QED
  BY <1>1, <1>6, <1>7 DEF IInv

\* The answer to a request whose send the homeserver has by then.
LEMMA AnswerKeeps ==
  ASSUME IInv, TypeOK', NEW r \in net, Answer(r),
         \A k \in DOMAIN stored' : stored'[k].id = id[stored'[k].send],
         \A i, k \in DOMAIN stored' : stored'[i].id = stored'[k].id => i = k,
         \A i \in DOMAIN stored : i \in DOMAIN stored' /\ stored'[i] = stored[i],
         \E i \in DOMAIN stored' : stored'[i].send = r.send
  PROVE  IInv'
<1>1. /\ UNCHANGED <<id, tries, now, count, born>>
      /\ net' \subseteq net /\ pending' \subseteq pending /\ acked' \subseteq acked \cup {r.send}
  BY DEF Answer
<1>2. EventInv'
  BY <1>1 DEF IInv, EventInv, NothingSwallowed
<1>3. IdInv' /\ SentInv'
  BY <1>1 DEF IInv, IdInv, SentInv, Prefix
<1> QED
  BY <1>2, <1>3 DEF IInv

\* Each action keeps the invariant, if the homeserver deduplicates.
LEMMA Inductive == Dedup /\ IInv /\ [Next]_vars => IInv'
<1> SUFFICES ASSUME Dedup, IInv, [Next]_vars PROVE IInv'
  OBVIOUS
<1>0. TypeOK' /\ TypeOK /\ IdInv /\ SentInv /\ EventInv
  BY TypeCorrect DEF IInv
<1>1. ASSUME NEW s \in Sends, Queue(s) PROVE IInv'
  BY <1>0, <1>1, TakeKeeps DEF Queue
<1>2. ASSUME NEW s \in Sends, Transmit(s) PROVE IInv'
  <2>1. /\ UNCHANGED <<id, pending, now, count, stored, acked, born>> /\ id[s] # NoId
        /\ net' = net \cup {[send |-> s, id |-> id[s], try |-> tries[s] + 1]}
        /\ \A q \in Sends \ {s} : tries'[q] = tries[q]
    BY <1>0, <1>2 DEF Transmit, Request, SentInv, TypeOK
  <2>2. IdInv' /\ EventInv'
    BY <1>0, <2>1 DEF IdInv, Prefix, EventInv, NothingSwallowed
  <2>3. SentInv'
    BY <1>0, <2>1 DEF SentInv
  <2> QED
    BY <1>0, <2>2, <2>3 DEF IInv
<1>3. ASSUME NEW s \in Sends, SendOnce(s) PROVE IInv'
  <2>1. /\ id[s] = NoId /\ TakeId(s) /\ UNCHANGED <<pending, now, stored, acked, born>>
        /\ net' = net \cup {[send |-> s, id |-> FreshId(s), try |-> tries[s] + 1]}
        /\ \A q \in Sends \ {s} : tries'[q] = tries[q]
    BY <1>0, <1>3 DEF SendOnce, Request, TypeOK
  <2>2. net' \subseteq net \cup {r \in Requests : r.send = s /\ r.id = FreshId(s)}
    BY <1>0, <2>1 DEF TypeOK
  <2> QED
    BY <1>0, <2>1, <2>2, TakeKeeps
<1>4. ASSUME NEW r \in net, Store(r) PROVE IInv'
  <2> DEFINE e == [send |-> r.send, id |-> r.id]
  <2>1. Answer(r) /\ ~ Known(r.id) /\ stored' = Append(stored, e)
    BY <1>4 DEF Store
  <2>2. /\ r.id = id[r.send] /\ stored \in Seq(Events) /\ e \in Events
        /\ e.send = r.send /\ e.id = r.id
    BY <1>0 DEF TypeOK, SentInv, Requests, Events
  <2> HIDE DEF e
  <2>3. /\ DOMAIN stored' = DOMAIN stored \cup {Len(stored) + 1}
        /\ stored'[Len(stored) + 1] = e
        /\ \A k \in DOMAIN stored : stored'[k] = stored[k] /\ k # Len(stored) + 1
    BY <2>1, <2>2
  <2>4. \A k \in DOMAIN stored : stored[k].id # e.id
    BY <2>1, <2>2 DEF Known
  <2>5. \A k \in DOMAIN stored' : stored'[k].id = id[stored'[k].send]
    BY <1>0, <2>2, <2>3 DEF SentInv
  <2>6. \A i, k \in DOMAIN stored' : stored'[i].id = stored'[k].id => i = k
    BY <1>0, <2>3, <2>4 DEF EventInv
  <2> QED
    BY <1>0, <2>1, <2>2, <2>3, <2>5, <2>6, AnswerKeeps
<1>5. ASSUME NEW r \in net, Repeat(r) PROVE IInv'
  <2>1. Answer(r) /\ UNCHANGED stored
    BY <1>5 DEF Repeat
  <2>2. PICK k \in DOMAIN stored : stored[k].id = r.id
    BY <1>5 DEF Repeat, Known
  <2>3. stored[k].send = r.send
    BY <1>0, <2>2, EventSent, NoIdAssumption DEF SentInv, IdInv, TypeOK, Requests
  <2> QED
    BY <1>0, <2>1, <2>2, <2>3, AnswerKeeps DEF SentInv, EventInv
<1>6. ASSUME NEW s \in Sends, GiveUp(s) PROVE IInv'
  BY <1>0, <1>6 DEF GiveUp, IInv, IdInv, SentInv, EventInv, NothingSwallowed, Prefix
<1>7. ASSUME NEW r \in net, Lose(r) PROVE IInv'
  BY <1>0, <1>7 DEF Lose, IInv, IdInv, SentInv, EventInv, NothingSwallowed, Prefix
<1>8. CASE Tick \/ Restart
  <2>1. /\ UNCHANGED <<id, pending, tries, net, stored, acked>> /\ now' > now
        /\ born' = now' \/ (UNCHANGED <<born, count>>)
    BY <1>0, <1>8 DEF Tick, Restart, TypeOK
  <2>2. SentInv' /\ EventInv'
    BY <1>0, <2>1 DEF SentInv, EventInv, NothingSwallowed
  <2>3. IdInv'
    <3>1. \A s \in Sends : id[s] # NoId => id[s].ms \in Nat
      BY <1>0 DEF TypeOK, Ids
    <3>2. now \in Nat /\ born \in Nat /\ now' \in Nat /\ born' \in Nat
      BY <1>0 DEF TypeOK
    <3> QED
      BY <1>0, <2>1, <3>1, <3>2 DEF IdInv, Prefix
  <2> QED
    BY <1>0, <2>2, <2>3 DEF IInv
<1>9. CASE UNCHANGED vars
  BY <1>0, <1>9 DEF vars, IInv, IdInv, SentInv, EventInv, NothingSwallowed, Prefix
<1> QED
  BY <1>1, <1>2, <1>3, <1>4, <1>5, <1>6, <1>7, <1>8, <1>9 DEF Next

\* api.rs's "instead of storing a duplicate" and rooms.rs's "ids must never repeat": if the
\* homeserver deduplicates and the clock does not go back, every send that is answered is in
\* the room once, and none is there twice, whatever is lost, retried or restarted.
THEOREM SentExactlyOnce == Dedup => (Spec => []ExactlyOnce)
<1> SUFFICES ASSUME Dedup PROVE Spec => []ExactlyOnce
  OBVIOUS
<1>1. Init => IInv
  BY BoundsAssumption
     DEF Init, IInv, TypeOK, IdInv, SentInv, EventInv, NothingSwallowed
<1>2. IInv => ExactlyOnce
  <2> SUFFICES ASSUME IInv, NEW i \in DOMAIN stored, NEW k \in DOMAIN stored,
                      stored[i].send = stored[k].send
               PROVE  i = k
    BY DEF ExactlyOnce, StoredOnce, IInv, EventInv
  <2> QED
    BY EventSent DEF IInv, EventInv
<1>3. IInv /\ [Next]_vars => IInv'
  BY Inductive
<1> QED
  BY <1>1, <1>2, <1>3, PTL DEF Spec
==============================================================================
