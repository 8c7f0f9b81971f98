------------------------------- MODULE ChatView --------------------------------
(***************************************************************************)
(* One room's timeline, in the store and on the screen: pages of the store *)
(* (store.rs, timeline, queue_send, resolve_send, fail_send, apply_events) *)
(* and the view-model that reads them page by page and merges them         *)
(* (ChatViewModel.kt; ChatViewModel.swift is the same but reads and merges *)
(* in one step).                                                           *)
(*                                                                         *)
(* A row has the id of a server event, its position in server, or of the   *)
(* local echo of a message.  What it looks like is "hidden" (ciphertext    *)
(* not tried yet), "sending", "failed" or "shown" (text, a system line or  *)
(* the placeholder for what cannot be decrypted).  Rows of p.mls.commit    *)
(* are left out: timeline does not select them.  The queue itself is in    *)
(* Outbox, decryption in InboundMls; what they do to rows is here.         *)
(*                                                                         *)
(* External: the homeserver, and the sync loop, which delivers events in   *)
(* any order together with fetch_messages.                                 *)
(*                                                                         *)
(* An operator marked [mutant] is a plausible bug in the operator after    *)
(* it; it is not part of the specification.                                *)
(***************************************************************************)
EXTENDS Naturals, Sequences, FiniteSets

CONSTANTS
  PageSize,  \* events a read asks for
  Tasks,     \* reads that can be under way at once
  MaxEvents, \* bound: events of the room on the server
  MaxSends,  \* bound: messages this device sends
  MaxFaults  \* bound: reads of the store that fail

ASSUME ChatBounds ==
  /\ PageSize \in Nat \ {0}
  /\ {MaxEvents, MaxSends, MaxFaults} \subseteq Nat

VARIABLES
  server, \* events: [depth, from], from = our message, or 0
  rows,   \* the store's rows: [id, depth, look]
  sends,  \* each message: "none", "queued", "acked" or "rejected"
  seen,   \* each message: the events in the store when it was queued
  open,   \* the view-model exists
  screen, \* rows as they were when read
  loading, atTop,
  reads,  \* each task's read that has not been merged: [kind, page]
  dirty,  \* the store has changed since the newest page was last read
  late,   \* ids that came into the store since the view-model exists
  faults

data == <<server, rows, sends, seen>>
view == <<open, screen, loading, atTop, reads>>
vars == <<data, view, dirty, late, faults>>

Sends == 1..MaxSends
Events == 1..MaxEvents
Echo(m) == MaxEvents + m
Ids == 1..MaxEvents + MaxSends
NoRead == [kind |-> "none", page |-> {}]

Looks == {"hidden", "sending", "failed", "shown"}
Rows == [id : Ids, depth : Nat, look : Looks]
OnePerId(s) == \A r, q \in s : r.id = q.id => r = q
IdsOf(s) == {r.id : r \in s}
Depths(s) == {r.depth : r \in s}
Deepest(D) == CHOOSE d \in D \cup {0} : \A e \in D : e <= d

TypeOK ==
  /\ server \in Seq([depth : Nat, from : {0} \cup Sends]) /\ Len(server) <= MaxEvents
  /\ rows \subseteq Rows /\ OnePerId(rows)
  /\ sends \in [Sends -> {"none", "queued", "acked", "rejected"}]
  /\ seen \in [Sends -> SUBSET Events]
  /\ open \in BOOLEAN /\ loading \in BOOLEAN /\ atTop \in BOOLEAN
  /\ screen \subseteq Rows /\ OnePerId(screen)
  /\ reads \in [Tasks -> [kind : {"none", "newest", "older"}, page : SUBSET Rows]]
  /\ dirty \in BOOLEAN /\ late \subseteq Ids /\ faults \in 0..MaxFaults

Init ==
  /\ server = <<>> /\ rows = {}
  /\ sends = [m \in Sends |-> "none"] /\ seen = [m \in Sends |-> {}]
  /\ open = FALSE /\ screen = {} /\ loading = TRUE /\ atTop = FALSE
  /\ reads = [t \in Tasks |-> NoRead]
  /\ dirty = FALSE /\ late = {} /\ faults = 0

------------------------------------------------------------------------------
\* The server.

\* Another member's event: a child of some events, so as deep as one of them or one deeper.
Create(d) ==
  /\ Len(server) < MaxEvents
  /\ d = 1 \/ \E e \in DOMAIN server : d \in {server[e].depth, server[e].depth + 1}
  /\ server' = Append(server, [depth |-> d, from |-> 0])
  /\ UNCHANGED <<rows, sends, seen, view, dirty, late, faults>>

EventsOf(m) == {e \in DOMAIN server : server[e].from = m}

\* Our message, on top of every event there is.
Accept(m) ==
  /\ sends[m] = "queued" /\ EventsOf(m) = {} /\ Len(server) < MaxEvents
  /\ server' = Append(server,
                 [depth |-> Deepest({server[e].depth : e \in DOMAIN server}) + 1, from |-> m])
  /\ UNCHANGED <<rows, sends, seen, view, dirty, late, faults>>

------------------------------------------------------------------------------
\* The store.  A change of it is announced, and the newest page read again.

Changed(rs) == rows' = rs /\ dirty' = open
Came(i) == late' = IF open THEN late \cup {i} ELSE {}

\* from_wire: the row of a server event.
FromWire(e, look) == [id |-> e, depth |-> server[e].depth, look |-> look]

\* [mutant] INSERT OR REPLACE: the row takes the server's depth.
ArriveReplaces(e, look) ==
  /\ e \in DOMAIN server
  /\ Changed({r \in rows : r.id # e} \cup {FromWire(e, look)})
  /\ Came(e)
  /\ UNCHANGED <<server, sends, seen, view, faults>>

\* apply_events: an event that is stored already is ignored.
Arrive(e, look) ==
  /\ e \in DOMAIN server /\ e \notin IdsOf(rows)
  /\ Changed(rows \cup {FromWire(e, look)})
  /\ Came(e)
  /\ UNCHANGED <<server, sends, seen, view, faults>>

HasPendingSend == \E m \in Sends : sends[m] = "queued"

\* The decrypt pass caches the text or gives up; it leaves our own messages alone while any of
\* them is queued.
Decrypt(r) ==
  /\ r \in rows /\ r.look = "hidden"
  /\ server[r.id].from # 0 => ~HasPendingSend
  /\ Changed((rows \ {r}) \cup {[r EXCEPT !.look = "shown"]})
  /\ UNCHANGED <<server, sends, seen, view, late, faults>>

NewEcho(m, depth) == [id |-> Echo(m), depth |-> depth, look |-> "sending"]

\* [mutant] The echo is placed beside the newest event.
QueueSendBeside(m) ==
  /\ open /\ sends[m] = "none"
  /\ sends' = [sends EXCEPT ![m] = "queued"]
  /\ seen' = [seen EXCEPT ![m] = IdsOf(rows) \cap Events]
  /\ Changed(rows \cup {NewEcho(m, Deepest(Depths(rows)))})
  /\ Came(Echo(m))
  /\ UNCHANGED <<server, view, faults>>

\* Sending from the screen: the echo is placed after the newest event in the store.
QueueSend(m) ==
  /\ open /\ sends[m] = "none"
  /\ sends' = [sends EXCEPT ![m] = "queued"]
  /\ seen' = [seen EXCEPT ![m] = IdsOf(rows) \cap Events]
  /\ Changed(rows \cup {NewEcho(m, Deepest(Depths(rows)) + 1)})
  /\ Came(Echo(m))
  /\ UNCHANGED <<server, view, faults>>

\* The echo is promoted to the event, keeping its depth; or the event is there already, gets the
\* text if it is ciphertext, and the echo is deleted.
ResolveSend(m) ==
  \E e \in EventsOf(m), echo \in {r \in rows : r.id = Echo(m)} :
    /\ sends[m] = "queued"
    /\ sends' = [sends EXCEPT ![m] = "acked"]
    /\ Changed(IF e \in IdsOf(rows)
               THEN {IF r.id = e THEN [r EXCEPT !.look = "shown"] ELSE r : r \in rows \ {echo}}
               ELSE (rows \ {echo}) \cup {[id |-> e, depth |-> echo.depth, look |-> "shown"]})
    /\ Came(e)
    /\ UNCHANGED <<server, seen, view, faults>>

\* The server has, or is taken to have, refused the message.
FailSend(m) ==
  /\ sends[m] = "queued"
  /\ sends' = [sends EXCEPT ![m] = "rejected"]
  /\ Changed({IF r.id = Echo(m) THEN [r EXCEPT !.look = "failed"] ELSE r : r \in rows})
  /\ UNCHANGED <<server, seen, view, late, faults>>

Newer(r, q) == r.depth > q.depth \/ (r.depth = q.depth /\ r.id > q.id)

\* [mutant] LIMIT is applied before the order is reversed.
OldestFirst(s) == {r \in s : Cardinality({q \in s : Newer(r, q)}) < PageSize}

\* ORDER BY depth DESC, event_id DESC LIMIT PageSize
NewestOf(s) == {r \in s : Cardinality({q \in s : Newer(q, r)}) < PageSize}

Before(depth) == {r \in rows : r.depth < depth}

------------------------------------------------------------------------------
\* The view-model.

\* It starts with a refresh.
Open ==
  /\ ~open /\ open' = TRUE
  /\ dirty' = TRUE
  /\ UNCHANGED <<data, screen, loading, atTop, reads, late, faults>>

Close ==
  /\ open /\ open' = FALSE
  /\ screen' = {} /\ loading' = TRUE /\ atTop' = FALSE
  /\ reads' = [t \in Tasks |-> NoRead]
  /\ dirty' = FALSE /\ late' = {}
  /\ UNCHANGED <<data, faults>>

Reads(t, kind, page) ==
  /\ reads[t] = NoRead
  /\ reads' = [reads EXCEPT ![t] = [kind |-> kind, page |-> page]]

\* [mutant] A refresh joins the one under way.
RefreshJoins(t) ==
  /\ open /\ dirty /\ dirty' = FALSE
  /\ IF \E u \in Tasks : reads[u].kind = "newest" THEN UNCHANGED reads
     ELSE Reads(t, "newest", NewestOf(rows))
  /\ UNCHANGED <<data, open, screen, loading, atTop, late, faults>>

\* refresh, up to the answer of the store.
Refresh(t) ==
  /\ open /\ dirty /\ dirty' = FALSE
  /\ Reads(t, "newest", NewestOf(rows))
  /\ UNCHANGED <<data, open, screen, loading, atTop, late, faults>>

\* loadOlder, up to the answer of the store.
LoadOlder(t) ==
  /\ open /\ ~atTop /\ ~loading
  /\ \E oldest \in screen :
       /\ \A r \in screen : oldest.depth <= r.depth
       /\ Reads(t, "older", NewestOf(Before(oldest.depth)))
  /\ UNCHANGED <<data, open, screen, loading, atTop, dirty, late, faults>>

\* [mutant] Both copies are kept.
MergeAll(a, b) == a \cup b

\* Of two copies of an event the first is kept.
Merge(a, b) == a \cup {r \in b : r.id \notin IdsOf(a)}

Ends(t, kind) ==
  /\ reads[t].kind = kind
  /\ reads' = [reads EXCEPT ![t] = NoRead]
  /\ UNCHANGED <<data, open, dirty, late, faults>>

\* The rest of refresh.
ShowNewest(t) ==
  /\ Ends(t, "newest")
  /\ loading' = FALSE /\ screen' = Merge(screen, reads[t].page)
  /\ UNCHANGED atTop

\* The rest of loadOlder.
ShowOlder(t) ==
  /\ Ends(t, "older")
  /\ IF reads[t].page = {} THEN atTop' = TRUE /\ UNCHANGED screen
     ELSE screen' = Merge(reads[t].page, screen) /\ UNCHANGED atTop
  /\ UNCHANGED loading

\* The store fails the read; the next change is needed for another refresh.
ReadFails(t) ==
  /\ reads[t] # NoRead /\ faults < MaxFaults /\ faults' = faults + 1
  /\ reads' = [reads EXCEPT ![t] = NoRead]
  /\ loading' = (loading /\ reads[t].kind # "newest")
  /\ UNCHANGED <<data, open, screen, atTop, dirty, late>>

------------------------------------------------------------------------------
ReadStep(t) == Refresh(t) \/ ShowNewest(t) \/ ShowOlder(t)

StoreStep ==
  \/ \E e \in Events, look \in {"hidden", "shown"} : Arrive(e, look)
  \/ \E r \in rows : Decrypt(r)
  \/ \E m \in Sends : QueueSend(m) \/ ResolveSend(m) \/ FailSend(m)

Next ==
  \/ \E d \in 1..MaxEvents : Create(d)
  \/ \E m \in Sends : Accept(m)
  \/ StoreStep
  \/ Open \/ Close
  \/ \E t \in Tasks : ReadStep(t) \/ LoadOlder(t) \/ ReadFails(t)

\* A refresh that was asked for, and a read under way, come to an end.
Spec == Init /\ [][Next]_vars /\ WF_vars(\E t \in Tasks : ReadStep(t))

------------------------------------------------------------------------------
\* A confirmed or failed message on the screen is the row in the store, at the same depth: what has
\* reached its final form never moves or changes again, whichever of the ack and /sync comes first
\* (store.rs:582-585, "no duplicate, no flicker").
ConfirmedStays == \A c \in screen : c.look \in {"shown", "failed"} => c \in rows

\* The row has the depth the server gave the event.
AsServed(r) == r.id \in DOMAIN server /\ r.depth = server[r.id].depth
\* A promoted echo of ours that the server placed less deep.
Astray(q) == q.id \in DOMAIN server /\ server[q.id].from # 0 /\ q.depth > server[q.id].depth

\* A message stays below every event that was in the store when it was written, ours and those
\* of others: as an echo, as a promoted echo, and as the event /sync delivers.  One case is
\* left: /sync delivers it at the server's depth and the earlier event is an echo of ours that
\* was promoted at a depth of its own (store.rs:618).
RepliesFollow ==
  \A m \in Sends : \A r, q \in rows :
    r.id \in {Echo(m)} \cup EventsOf(m) /\ q.id \in seen[m] =>
      q.depth < r.depth \/ (AsServed(r) /\ Astray(q))

\* When paging back has reached the top, every row that was there before the view-model is on the
\* screen, but for one of the same depth as another; with reads and changes going on at once.
PagesCover ==
  open /\ atTop =>
    \A r \in rows : r.id \in late \cup IdsOf(screen) \/ r.depth \in Depths(screen)

\* While the room is open, every event that is on the newest page of the store comes on the screen,
\* or is pushed off that page; reads that fail excepted.
Shows ==
  \A i \in Ids :
    open /\ i \in IdsOf(NewestOf(rows)) ~>
      ~open \/ i \in IdsOf(screen) \/ i \notin IdsOf(NewestOf(rows)) \/ faults > 0

\* With every change read, no message is on the screen as being sent that is no longer: "pending,
\* then confirmed once the server acks (or failed on rejection)" (ChatViewModel.kt:91-92).
ShowsVerdict ==
  ~dirty /\ (\A t \in Tasks : reads[t] = NoRead) =>
    \A c \in screen : c.look = "sending" => c \in rows
==============================================================================
