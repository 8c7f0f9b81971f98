---------------------------- MODULE RoomStateProofs ----------------------------
(***************************************************************************)
(* Proofs about RoomState, for any keys, limits, and number of events and  *)
(* crashes: the log has no gap below the saved token, and current state is *)
(* the deepest event stored for each key, so that devices which are caught *)
(* up agree.                                                               *)
(***************************************************************************)
EXTENDS RoomState, SequenceTheorems, TLAPS

IInv == TypeOK /\ BatchInv /\ AckedIsStored /\ LatestState

\* Every event has a natural depth.
LEMMA DepthIsNat ==
  ASSUME TypeOK, NEW e \in {0} \cup Events
  PROVE  Depth(e) \in Nat
<1> DEFINE Event == [depth : Nat \ {0}, key : Keys \cup {NoKey}]
<1>1. CASE e = 0
  BY <1>1 DEF Depth
<1>2. CASE e # 0
  <2>1. stream \in Seq(Event) /\ e \in 1..Len(stream)
    BY <1>2 DEF TypeOK, Events
  <2>2. stream[e] \in Event
    BY <2>1, ElementOfSeq
  <2> QED
    BY <1>2, <2>2 DEF Depth
<1> QED
  BY <1>1, <1>2

\* A new event is one more position; the others keep their depth and key.
LEMMA CreateKeepsEvents ==
  ASSUME TypeOK, NEW k \in Keys \cup {NoKey}, NEW d \in 1..MaxEvents, Create(k, d)
  PROVE  /\ stream' \in Seq([depth : Nat \ {0}, key : Keys \cup {NoKey}])
         /\ Events \subseteq Events'
         /\ Len(stream') = Len(stream) + 1
         /\ \A e \in Events : stream'[e] = stream[e]
BY LimitsAssumption DEF TypeOK, Create, Events

\* Applying a batch of known events stores all of them and leaves, for each key, the
\* deepest of the stored events.
LEMMA ApplyKeepsState ==
  ASSUME TypeOK, LatestState, UNCHANGED stream,
         NEW events \in SUBSET Events, Apply(events)
  PROVE  /\ log' = log \cup events
         /\ current' \in [Keys -> {0} \cup Events]
         /\ LatestState'
<1>1. /\ log' = log \cup events
      /\ current' \in [Keys -> {0} \cup Events]
      /\ \A k \in Keys : Folded(k, events, current'[k])
  BY DEF Apply
<1>2. \A e \in {0} \cup Events : Depth(e) \in Nat /\ Depth(e)' = Depth(e)
  BY DepthIsNat DEF Depth
<1>3. ASSUME NEW k \in Keys
      PROVE  /\ Depth(current'[k]) >= Depth(current[k])
             /\ \A e \in StateOf(k, events) : Depth(e) <= Depth(current'[k])
             /\ current'[k] = current[k] \/ current'[k] \in StateOf(k, events)
  <2> DEFINE winners == {f \in StateOf(k, events) : Depth(f) >= Depth(current[k])}
  <2> DEFINE LastWins(e) ==
        /\ e \in winners
        /\ \A f \in winners : Depth(f) < Depth(e) \/ (Depth(f) = Depth(e) /\ f <= e)
  <2>0. IF winners = {} THEN current'[k] = current[k] ELSE LastWins(current'[k])
    BY <1>1, Zenon DEF Folded
  <2>1. StateOf(k, events) \subseteq Events /\ current[k] \in {0} \cup Events
    BY DEF StateOf, TypeOK
  <2>2. CASE winners = {}
    <3>1. current'[k] = current[k]
      BY <2>0, <2>2
    <3>2. Depth(current[k]) \in Nat
      BY <1>2, <2>1
    <3>3. ASSUME NEW e \in StateOf(k, events) PROVE Depth(e) <= Depth(current[k])
      <4>1. Depth(e) \in Nat
        BY <1>2, <2>1
      <4>2. e \notin winners
        BY <2>2
      <4>3. ~ (Depth(e) >= Depth(current[k]))
        BY <4>2
      <4> QED
        BY <3>2, <4>1, <4>3
    <3> QED
      BY <3>1, <3>2, <3>3
  <2>3. CASE winners # {}
    <3>1. LastWins(current'[k])
      BY <2>0, <2>3, Zenon
    <3>2. /\ current'[k] \in StateOf(k, events)
          /\ Depth(current'[k]) >= Depth(current[k])
      BY <3>1
    <3>3. Depth(current[k]) \in Nat /\ Depth(current'[k]) \in Nat
      BY <1>2, <2>1, <3>2
    <3>4. ASSUME NEW e \in StateOf(k, events) PROVE Depth(e) <= Depth(current'[k])
      <4>1. Depth(e) \in Nat
        BY <1>2, <2>1
      <4>2. CASE Depth(e) >= Depth(current[k])
        <5>1. e \in winners
          BY <4>2
        <5> QED
          BY <3>1, <3>3, <4>1, <5>1
      <4>3. CASE ~ (Depth(e) >= Depth(current[k]))
        BY <3>2, <3>3, <4>1, <4>3
      <4> QED
        BY <4>2, <4>3
    <3> QED
      BY <3>2, <3>4
  <2> QED
    BY <2>2, <2>3
<1>4. LatestState'
  <2> SUFFICES ASSUME NEW k \in Keys
               PROVE  /\ current'[k] # 0 => current'[k] \in StateOf(k, log)'
                      /\ \A e \in StateOf(k, log)' : Depth(e)' <= Depth(current[k])'
    BY DEF LatestState
  <2>1. StateOf(k, log)' = StateOf(k, log) \cup StateOf(k, events)
    BY <1>1 DEF StateOf
  <2>2. /\ current[k] # 0 => current[k] \in StateOf(k, log)
        /\ \A e \in StateOf(k, log) : Depth(e) <= Depth(current[k])
    BY DEF LatestState
  <2>3. StateOf(k, log) \cup StateOf(k, events) \subseteq Events
    BY DEF StateOf, TypeOK
  <2>4. current[k] \in {0} \cup Events /\ current'[k] \in {0} \cup Events
    BY <1>1 DEF TypeOK
  <2>5. current'[k] # 0 => current'[k] \in StateOf(k, log)'
    BY <1>3, <2>1, <2>2
  <2>6. ASSUME NEW e \in StateOf(k, log)' PROVE Depth(e)' <= Depth(current[k])'
    <3>0. Depth(current[k])' = Depth(current'[k])
      BY DEF Depth
    <3>1. /\ Depth(e) \in Nat /\ Depth(current[k]) \in Nat /\ Depth(current'[k]) \in Nat
          /\ Depth(e)' = Depth(e) /\ Depth(current[k])' = Depth(current'[k])
      BY <1>2, <2>1, <2>3, <2>4, <3>0
    <3>2. CASE e \in StateOf(k, events)
      BY <1>3, <3>1, <3>2
    <3>3. CASE e \in StateOf(k, log)
      <4>1. Depth(e) <= Depth(current[k]) /\ Depth(current'[k]) >= Depth(current[k])
        BY <1>3, <2>2, <3>3
      <4> QED
        BY <3>1, <4>1
    <3> QED
      BY <2>1, <3>2, <3>3
  <2> QED
    BY <2>5, <2>6
<1> QED
  BY <1>1, <1>4

\* Each action keeps the inductive invariant.
LEMMA Inductive == IInv /\ [Next]_vars => IInv'
<1> SUFFICES ASSUME IInv, [Next]_vars PROVE IInv'
  OBVIOUS
<1> USE LimitsAssumption DEF IInv
<1>1. ASSUME NEW k \in Keys \cup {NoKey}, NEW d \in 1..MaxEvents, Create(k, d)
      PROVE  IInv'
  <2>1. /\ stream' \in Seq([depth : Nat \ {0}, key : Keys \cup {NoKey}])
        /\ Events \subseteq Events'
        /\ Len(stream') = Len(stream) + 1
        /\ \A e \in Events : stream'[e] = stream[e]
    BY <1>1, CreateKeepsEvents
  <2>2. UNCHANGED <<log, current, token, pc, batch, chunk, crashes>>
    BY <1>1 DEF Create
  <2>3. TypeOK'
    BY <2>1, <2>2 DEF TypeOK
  <2>4. \A e \in Events' : e \in Events \/ e = Len(stream) + 1
    BY <2>1 DEF Events, TypeOK
  <2>5. BatchInv' /\ AckedIsStored'
    BY <2>1, <2>2, <2>4 DEF TypeOK, BatchInv, AckedIsStored, Events
  <2>6. \A e \in {0} \cup Events : Depth(e)' = Depth(e)
    BY <2>1 DEF Depth, Events, TypeOK
  <2>7. \A j \in Keys : StateOf(j, log)' = StateOf(j, log) /\ StateOf(j, log) \subseteq Events
    BY <2>1, <2>2 DEF StateOf, TypeOK
  <2>8. LatestState'
    BY <2>2, <2>6, <2>7 DEF LatestState, TypeOK
  <2> QED
    BY <2>3, <2>5, <2>8
<1>2. CASE SyncAnswer
  <2>1. TypeOK' /\ AckedIsStored' /\ LatestState'
    BY <1>2 DEF SyncAnswer, TypeOK, NextBatch, Events, AckedIsStored, LatestState,
                      StateOf, Depth
  <2>2. BatchInv'
    BY <1>2 DEF SyncAnswer, TypeOK, NextBatch, Events, BatchInv
  <2> QED
    BY <2>1, <2>2
<1>3. CASE ApplySync
  <2>1. UNCHANGED <<stream, token, batch, chunk, crashes>> /\ Apply(batch) /\ pc' = "persist"
    BY <1>3 DEF ApplySync
  <2>2. /\ log' = log \cup batch
        /\ current' \in [Keys -> {0} \cup Events]
        /\ LatestState'
    BY <2>1, ApplyKeepsState DEF TypeOK
  <2>3. TypeOK' /\ BatchInv' /\ AckedIsStored'
    BY <2>1, <2>2 DEF TypeOK, BatchInv, AckedIsStored, Events
  <2> QED
    BY <2>2, <2>3
<1>4. CASE PersistToken
  <2>1. /\ UNCHANGED <<stream, log, current, chunk, crashes>>
        /\ pc' = "ask" /\ batch' = {}
        /\ batch \subseteq log
        /\ token' = token \/ (token' \in batch /\ \A f \in batch : f <= token')
    BY <1>4 DEF PersistToken, LastOf, BatchInv
  <2>2. TypeOK' /\ BatchInv' /\ LatestState'
    BY <2>1 DEF TypeOK, BatchInv, LatestState, StateOf, Depth, Events
  <2>3. AckedIsStored'
    <3> SUFFICES ASSUME NEW e \in Events, e <= token' PROVE e \in log
      BY <2>1 DEF AckedIsStored, Events
    <3>1. token \in Nat /\ e \in Nat /\ (e <= token => e \in log)
      BY DEF TypeOK, AckedIsStored, Events
    <3>2. CASE e <= token
      BY <3>1, <3>2
    <3>3. CASE ~ (e <= token)
      <4>1. token < e /\ token' \in batch
        BY <2>1, <3>1, <3>3
      <4>2. e \in batch
        BY <4>1 DEF BatchInv
      <4> QED
        BY <2>1, <4>2
    <3> QED
      BY <3>2, <3>3
  <2> QED
    BY <2>2, <2>3
<1>5. CASE FetchAnswer
  BY <1>5 DEF FetchAnswer, TypeOK, BatchInv, AckedIsStored, LatestState, StateOf,
                    Depth, Events
<1>6. CASE FetchApply
  <2>1. UNCHANGED <<stream, token, pc, batch, crashes>> /\ Apply(chunk) /\ chunk' = {}
    BY <1>6 DEF FetchApply
  <2>2. /\ log' = log \cup chunk
        /\ current' \in [Keys -> {0} \cup Events]
        /\ LatestState'
    BY <2>1, ApplyKeepsState DEF TypeOK
  <2>3. TypeOK' /\ BatchInv' /\ AckedIsStored'
    BY <2>1, <2>2 DEF TypeOK, BatchInv, AckedIsStored, Events
  <2> QED
    BY <2>2, <2>3
<1>7. CASE Crash
  BY <1>7 DEF Crash, TypeOK, BatchInv, AckedIsStored, LatestState, StateOf, Depth,
                    Events
<1>8. CASE UNCHANGED vars
  BY <1>8 DEF vars, TypeOK, BatchInv, AckedIsStored, LatestState, StateOf, Depth,
                    Events
<1> QED
  BY <1>1, <1>2, <1>3, <1>4, <1>5, <1>6, <1>7, <1>8 DEF Next, SyncStep

\* Every behaviour keeps the inductive invariant.
THEOREM Invariance == Spec => []IInv
<1>1. Init => IInv
  BY LimitsAssumption DEF Init, IInv, TypeOK, BatchInv, AckedIsStored, LatestState, StateOf,
                          Events
<1> QED
  BY <1>1, Inductive, PTL DEF Spec

\* TypeOK, for any keys, limits and bounds.
THEOREM Typed == Spec => []TypeOK
BY Invariance, PTL DEF IInv

\* fold_state: current state is the deepest stored event of its key.
THEOREM CurrentIsLatest == Spec => []LatestState
BY Invariance, PTL DEF IInv

\* persist_sync_token comes after apply_events: nothing acknowledged is missing.
THEOREM NoGapBelowToken == Spec => []AckedIsStored
BY Invariance, PTL DEF IInv

\* Nothing follows the saved token: a device that is caught up has, of each key, a deepest
\* event the room has, and none only if there is none.
SyncedIsCurrent == token = Len(stream) => \A k \in Keys :
  IF StateOf(k, Events) = {}
    THEN current[k] = 0
    ELSE /\ current[k] \in StateOf(k, Events)
         /\ \A e \in StateOf(k, Events) : Depth(e) <= Depth(current[k])

\* apply_events, persist_sync_token: so any two devices that are caught up agree on the depth
\* of each key, in whatever batches, pages and order the events came, and however often each.
THEOREM SyncedDevicesAgree == Spec => []SyncedIsCurrent
<1>1. IInv => SyncedIsCurrent
  <2> SUFFICES ASSUME IInv, token = Len(stream), NEW k \in Keys
               PROVE  IF StateOf(k, Events) = {}
                        THEN current[k] = 0
                        ELSE /\ current[k] \in StateOf(k, Events)
                             /\ \A e \in StateOf(k, Events) : Depth(e) <= Depth(current[k])
    BY DEF SyncedIsCurrent
  <2>1. Len(stream) \in Nat /\ \A e \in Events : e <= Len(stream)
    BY DEF IInv, TypeOK, Events
  <2>2. log = Events
    BY <2>1 DEF IInv, TypeOK, AckedIsStored
  <2>3. \A e \in Events : Depth(e) \in Nat \ {0}
    <3> SUFFICES ASSUME NEW e \in Events PROVE Depth(e) \in Nat \ {0}
      OBVIOUS
    <3> DEFINE Event == [depth : Nat \ {0}, key : Keys \cup {NoKey}]
    <3>1. stream \in Seq(Event) /\ e \in 1..Len(stream) /\ e # 0
      BY <2>1 DEF IInv, TypeOK, Events
    <3>2. stream[e] \in Event
      BY <3>1, ElementOfSeq
    <3> QED
      BY <3>1, <3>2 DEF Depth
  <2>4. /\ current[k] # 0 => current[k] \in StateOf(k, Events)
        /\ \A e \in StateOf(k, Events) : Depth(e) <= Depth(current[k])
    BY <2>2 DEF IInv, LatestState
  <2>5. StateOf(k, Events) \subseteq Events
    BY DEF StateOf
  <2>6. ASSUME NEW e \in StateOf(k, Events), current[k] = 0 PROVE FALSE
    <3>1. Depth(e) \in Nat \ {0} /\ Depth(e) <= 0
      BY <2>3, <2>4, <2>5, <2>6 DEF Depth
    <3> QED
      BY <3>1
  <2>7. StateOf(k, Events) = {} => current[k] = 0
    BY <2>4
  <2> QED
    BY <2>4, <2>6, <2>7
<1> QED
  BY <1>1, Invariance, PTL
================================================================================
