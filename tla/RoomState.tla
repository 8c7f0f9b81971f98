------------------------------- MODULE RoomState -------------------------------
(***************************************************************************)
(* The event log and the folded current state of one room (store.rs,       *)
(* apply_events, insert_event, fold_state), fed by its two writers: the    *)
(* sync loop (sync.rs, apply_sync and persist_sync_token) and opening the  *)
(* room (rooms.rs, fetch_messages).  Each writer awaits an answer of the   *)
(* homeserver and applies it later, in one transaction.  So an answer can  *)
(* be older than what is already stored, and a crash before the token is   *)
(* saved makes the homeserver deliver a batch again.                       *)
(*                                                                         *)
(* External: the homeserver's event stream.  An event is at most one       *)
(* deeper than an event before it; two events that do not know of each     *)
(* other can have the same depth, or come out of depth order.              *)
(*                                                                         *)
(* An operator marked [mutant] is a plausible bug in the operator after    *)
(* it; it is not part of the specification.                                *)
(***************************************************************************)
EXTENDS Naturals, Sequences

CONSTANTS
  Keys,        \* (type, state_key) pairs of the room's state
  NoKey,       \* the key of an event that is not state
  MaxEvents,   \* bound: events created
  MaxCrashes,  \* bound: crashes and cancellations
  SyncLimit,   \* most events of a /sync batch
  FetchLimit   \* most events of a /messages answer

ASSUME KeysAssumption == NoKey \notin Keys
ASSUME LimitsAssumption == /\ MaxEvents \in Nat /\ MaxCrashes \in Nat
                           /\ SyncLimit \in Nat \ {0} /\ FetchLimit \in Nat \ {0}

VARIABLES
  stream,    \* the homeserver's events of the room; an event is its position here
  log,       \* the events table
  current,   \* the room_state table: the event of each key, 0 if none
  token,     \* the sync token: the last position it says we have
  pc,        \* the sync loop: "ask" (awaiting /sync), "apply", "persist"
  batch,     \* the /sync answer in hand
  chunk,     \* the /messages answer in hand
  crashes

vars == <<stream, log, current, token, pc, batch, chunk, crashes>>

Events == 1..Len(stream)
Depth(e) == IF e = 0 THEN 0 ELSE stream[e].depth
StateOf(k, events) == {e \in events : stream[e].key = k}

TypeOK ==
  /\ stream \in Seq([depth : Nat \ {0}, key : Keys \cup {NoKey}])
  /\ log \subseteq Events
  /\ current \in [Keys -> {0} \cup Events]
  /\ token \in {0} \cup Events
  /\ pc \in {"ask", "apply", "persist"}
  /\ batch \subseteq Events
  /\ chunk \subseteq Events
  /\ crashes \in 0..MaxCrashes

Init ==
  /\ stream = <<>> /\ log = {} /\ token = 0
  /\ current = [k \in Keys |-> 0]
  /\ pc = "ask" /\ batch = {} /\ chunk = {}
  /\ crashes = 0

\* The homeserver takes an event.
Create(k, d) ==
  /\ Len(stream) < MaxEvents
  /\ d = 1 \/ \E e \in Events : d \in {Depth(e), Depth(e) + 1}
  /\ stream' = Append(stream, [depth |-> d, key |-> k])
  /\ UNCHANGED <<log, current, token, pc, batch, chunk, crashes>>

\* [mutant] Forgets the incumbent: the deepest event of the batch always wins.
FoldedWithoutIncumbent(k, events, e) ==
  IF StateOf(k, events) = {}
    THEN e = current[k]
    ELSE /\ e \in StateOf(k, events)
         /\ \A f \in StateOf(k, events) :
              Depth(f) < Depth(e) \/ (Depth(f) = Depth(e) /\ f <= e)

\* fold_state on each event of a batch in turn: the last of the deepest is left, if
\* it is at least as deep as the incumbent.
Folded(k, events, e) ==
  LET winners == {f \in StateOf(k, events) : Depth(f) >= Depth(current[k])}
  IN  IF winners = {}
        THEN e = current[k]
        ELSE /\ e \in winners
             /\ \A f \in winners : Depth(f) < Depth(e) \/ (Depth(f) = Depth(e) /\ f <= e)

\* [mutant] INSERT without OR IGNORE: one known event fails the transaction, and the
\* failure is swallowed.
ApplyUnlessKnown(events) ==
  IF events \cap log # {}
    THEN UNCHANGED <<log, current>>
    ELSE /\ log' = log \cup events
         /\ \E c \in [Keys -> {0} \cup Events] : /\ \A k \in Keys : Folded(k, events, c[k])
                                                 /\ current' = c

\* apply_events: events not seen before are inserted, and every state event is folded
\* whether it was seen before or not.
Apply(events) ==
  /\ log' = log \cup events
  /\ \E c \in [Keys -> {0} \cup Events] : /\ \A k \in Keys : Folded(k, events, c[k])
                                          /\ current' = c

NextBatch == {e \in Events : token < e /\ e <= token + SyncLimit}
LastOf(events) == {e \in events : \A f \in events : f <= e}

\* [mutant] The token is saved as soon as the answer is there.
SyncAnswerAcks ==
  /\ pc = "ask"
  /\ batch' = NextBatch
  /\ token' \in IF NextBatch = {} THEN {token} ELSE LastOf(NextBatch)
  /\ pc' = "apply"
  /\ UNCHANGED <<stream, log, current, chunk, crashes>>

\* /sync answers with what follows the token, or with nothing when its long poll
\* times out.
SyncAnswer ==
  /\ pc = "ask"
  /\ batch' = NextBatch
  /\ pc' = "apply"
  /\ UNCHANGED <<stream, log, current, token, chunk, crashes>>

ApplySync ==
  /\ pc = "apply"
  /\ Apply(batch)
  /\ pc' = "persist"
  /\ UNCHANGED <<stream, token, batch, chunk, crashes>>

\* [mutant] Counts the position instead of returning the server's token.
PersistTokenCounts ==
  /\ pc = "persist"
  /\ token' = token + 1
  /\ pc' = "ask" /\ batch' = {}
  /\ UNCHANGED <<stream, log, current, chunk, crashes>>

\* persist_sync_token saves the answer's next_batch.
PersistToken ==
  /\ pc = "persist"
  /\ token' \in IF batch = {} THEN {token} ELSE LastOf(batch)
  /\ pc' = "ask" /\ batch' = {}
  /\ UNCHANGED <<stream, log, current, chunk, crashes>>

\* fetch_messages up to the await: the room's latest events.
FetchAnswer ==
  /\ chunk = {} /\ stream # <<>>
  /\ chunk' = {e \in Events : Len(stream) < e + FetchLimit}
  /\ UNCHANGED <<stream, log, current, token, pc, batch, crashes>>

\* fetch_messages after it.
FetchApply ==
  /\ chunk # {}
  /\ Apply(chunk)
  /\ chunk' = {}
  /\ UNCHANGED <<stream, token, pc, batch, crashes>>

\* The process dies, or the host cancels both tasks: the answers in hand are lost.
Crash ==
  /\ crashes < MaxCrashes
  /\ crashes' = crashes + 1
  /\ pc' = "ask" /\ batch' = {} /\ chunk' = {}
  /\ UNCHANGED <<stream, log, current, token>>

SyncStep == SyncAnswer \/ ApplySync \/ PersistToken

Next == \/ \E k \in Keys \cup {NoKey}, d \in 1..MaxEvents : Create(k, d)
        \/ SyncStep
        \/ FetchAnswer \/ FetchApply
        \/ Crash

Spec == Init /\ [][Next]_vars
\* The sync loop cycles; nobody has to open the room.
FairSpec == Spec /\ WF_vars(SyncStep)

------------------------------------------------------------------------------
\* The current state of a key is a stored event, and none of the key's stored events
\* is deeper, whatever the order and the number of times events came in: "later state
\* wins" (fold_state).
LatestState ==
  \A k \in Keys :
    /\ current[k] # 0 => current[k] \in StateOf(k, log)
    /\ \A e \in StateOf(k, log) : Depth(e) <= Depth(current[k])

\* The /sync answer in hand follows the token without a gap, and is in the log before
\* the token moves.
BatchInv ==
  /\ pc = "ask" => batch = {}
  /\ pc = "persist" => batch \subseteq log
  /\ \A b \in batch : token < b /\ \A e \in Events : (token < e /\ e <= b) => e \in batch

\* What the saved token acknowledges is in the event log: a crash never opens a gap
\* that no later sync would fill.
AckedIsStored == \A e \in Events : e <= token => e \in log

\* Every event of the homeserver gets into the log, whether or not the room is opened.
EverythingArrives == \A e \in 1..MaxEvents : e <= Len(stream) ~> e \in log
==============================================================================
