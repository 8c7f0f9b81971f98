-------------------------------- MODULE TxnIds --------------------------------
(***************************************************************************)
(* Transaction ids: what makes a send arrive once.  A queued message gets  *)
(* an id that is stored with it and used again by each attempt             *)
(* (queue_send with next_send_ids, store.rs; flush_pending, rooms.rs); a   *)
(* one-shot send - a commit, an image - gets one for its only attempt      *)
(* (next_txn_id, rooms.rs).  Both are a clock reading and a counter that   *)
(* restarts with the process, under different prefixes.                    *)
(*                                                                         *)
(* External: the homeserver.  api.rs:456-459, store.rs:203-204 and         *)
(* rooms.rs:718-723 say that it returns the first event of a repeated id   *)
(* and drops the new one; docs/ARCHITECTURE.md:103 says that it does not   *)
(* deduplicate.  Dedup chooses.  All sends are to one room, as it would    *)
(* look for ids per device and room.                                       *)
(*                                                                         *)
(* Left out: refusals, encryption and the order of the queue (Outbox); a   *)
(* clock that is set back across a restart, with which an id can come      *)
(* again.                                                                  *)
(***************************************************************************)
EXTENDS Naturals, Sequences

CONSTANTS
  Sends,      \* messages, commits, images of one device for one room
  Queued,     \* those that go through the queue
  NoId,       \* the id of a send that was not made yet
  Dedup,      \* the homeserver looks for the id among the events it has
  MaxMillis,  \* bound: clock readings
  MaxTries    \* bound: attempts of one send

ASSUME SendsAssumption == Queued \subseteq Sends
ASSUME DedupAssumption == Dedup \in BOOLEAN
ASSUME BoundsAssumption == MaxMillis \in Nat \ {0} /\ MaxTries \in Nat \ {0}

Prefixes == {"m", "mob-td"}
Ids == [prefix : Prefixes, ms : Nat, n : Nat]

ASSUME NoIdAssumption == NoId \notin Ids

VARIABLES
  id,       \* the id of each send; of a queued one it is in its pending_sends row
  pending,  \* sends with such a row
  tries,    \* attempts made of each send
  now,      \* what the clock says
  count,    \* the two counters of this process
  wait,     \* the attempt whose answer a task waits for, 0: none
  net,      \* requests on their way
  stored,   \* the room's events, as the homeserver stored them
  acked,    \* sends that were answered with an event id
  born      \* history: what the clock said when the process started

vars == <<id, pending, tries, now, count, wait, net, stored, acked, born>>

Requests == [send : Sends, id : Ids, try : Nat]
Events == [send : Sends, id : Ids]

TypeOK ==
  /\ id \in [Sends -> Ids \cup {NoId}]
  /\ pending \subseteq Queued
  /\ tries \in [Sends -> 0..MaxTries]
  /\ now \in Nat
  /\ count \in [Prefixes -> Nat]
  /\ wait \in [Sends -> 0..MaxTries]
  /\ net \subseteq Requests
  /\ stored \in Seq(Events)
  /\ acked \subseteq Sends
  /\ born \in Nat

Init ==
  /\ id = [s \in Sends |-> NoId]
  /\ pending = {} /\ net = {} /\ stored = <<>> /\ acked = {}
  /\ tries = [s \in Sends |-> 0] /\ wait = [s \in Sends |-> 0]
  /\ count = [p \in Prefixes |-> 0]
  /\ now = 1 /\ born = 1

------------------------------------------------------------------------------
Prefix(s) == IF s \in Queued THEN "m" ELSE "mob-td"

\* next_send_ids, next_txn_id: the clock, and the counter before it is incremented.
FreshId(s) == [prefix |-> Prefix(s), ms |-> now, n |-> count[Prefix(s)]]

TakeId(s) == /\ id' = [id EXCEPT ![s] = FreshId(s)]
             /\ count' = [count EXCEPT ![Prefix(s)] = @ + 1]

Request(s, i) ==
  /\ tries' = [tries EXCEPT ![s] = @ + 1]
  /\ wait' = [wait EXCEPT ![s] = tries[s] + 1]
  /\ net' = net \cup {[send |-> s, id |-> i, try |-> tries[s] + 1]}

Repeats(s) == \E q \in pending : id[q] = FreshId(s)

\* queue_send: the id is the primary key of pending_sends.
Queue(s) ==
  /\ s \in Queued /\ id[s] = NoId /\ ~ Repeats(s)
  /\ TakeId(s)
  /\ pending' = pending \cup {s}
  /\ UNCHANGED <<tries, now, wait, net, stored, acked, born>>

\* [mutant] Each attempt takes an id of its own.
TransmitAnew(s) ==
  /\ s \in pending /\ \A q \in pending : wait[q] = 0
  /\ tries[s] < MaxTries
  /\ TakeId(s)
  /\ Request(s, FreshId(s))
  /\ UNCHANGED <<pending, now, stored, acked, born>>

\* flush_pending sends a queued message, again if it is still there; send_lock leaves one
\* attempt at a time to wait for.
Transmit(s) ==
  /\ s \in pending /\ \A q \in pending : wait[q] = 0
  /\ tries[s] < MaxTries
  /\ Request(s, id[s])
  /\ UNCHANGED <<id, pending, now, count, stored, acked, born>>

\* A one-shot send.  It is not tried again: the user's next attempt is another send.
SendOnce(s) ==
  /\ s \in Sends \ Queued /\ id[s] = NoId
  /\ TakeId(s)
  /\ Request(s, FreshId(s))
  /\ UNCHANGED <<pending, now, stored, acked, born>>

\* An attempt ends in a transport error, or its task is dropped; the request may arrive.
GiveUp(s) ==
  /\ wait[s] # 0
  /\ wait' = [wait EXCEPT ![s] = 0]
  /\ UNCHANGED <<id, pending, tries, now, count, net, stored, acked, born>>

\* The answer: an event id.  Whoever waits for it takes the message from the queue.
Answer(r) ==
  /\ net' = net \ {r}
  /\ IF wait[r.send] = r.try
       THEN /\ wait' = [wait EXCEPT ![r.send] = 0]
            /\ acked' = acked \cup {r.send}
            /\ pending' = pending \ {r.send}
       ELSE UNCHANGED <<wait, acked, pending>>
  /\ UNCHANGED <<id, tries, now, count, born>>

Known(i) == \E k \in DOMAIN stored : stored[k].id = i

\* The homeserver stores the event of a request.
Store(r) ==
  /\ Dedup => ~ Known(r.id)
  /\ stored' = Append(stored, [send |-> r.send, id |-> r.id])
  /\ Answer(r)

\* It has an event with that id, and answers with it.
Repeat(r) ==
  /\ Dedup /\ Known(r.id)
  /\ Answer(r)
  /\ UNCHANGED stored

\* A request nobody waits for gets lost.
Lose(r) ==
  /\ wait[r.send] # r.try
  /\ net' = net \ {r}
  /\ UNCHANGED <<id, pending, tries, now, count, wait, stored, acked, born>>

\* Time passes; several sends may be made within a millisecond.
Tick ==
  /\ now < MaxMillis
  /\ now' = now + 1
  /\ UNCHANGED <<id, pending, tries, count, wait, net, stored, acked, born>>

\* The process ends and another one starts, later: the store is still there, the counters
\* are not.
Restart ==
  /\ now' \in (now + 1)..MaxMillis
  /\ born' = now'
  /\ count' = [p \in Prefixes |-> 0]
  /\ wait' = [s \in Sends |-> 0]
  /\ UNCHANGED <<id, pending, tries, net, stored, acked>>

Next == \/ \E s \in Sends : Queue(s) \/ Transmit(s) \/ SendOnce(s) \/ GiveUp(s)
        \/ \E r \in net : Store(r) \/ Repeat(r) \/ Lose(r)
        \/ Tick \/ Restart

Spec == Init /\ [][Next]_vars

------------------------------------------------------------------------------
\* "A retry under the same id returns the original event id instead of storing a
\* duplicate" (api.rs, send_event): whatever is retried, lost or restarted, a send is in the
\* room once.
StoredOnce ==
  \A i, k \in DOMAIN stored : stored[i].send = stored[k].send => i = k

\* "A repeated id returns the first event and drops the new one" (rooms.rs, next_txn_id): no
\* send that was answered with an event id was dropped like that.
NothingSwallowed ==
  \A s \in acked : \E i \in DOMAIN stored : stored[i].send = s

\* The two together: an id must not change between the attempts of a send, nor be shared by
\* two sends, of one process or of two.
ExactlyOnce == StoredOnce /\ NothingSwallowed
==============================================================================
