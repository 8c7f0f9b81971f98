---------------------------- MODULE ChatViewProofs -----------------------------
(***************************************************************************)
(* Theorems about ChatView, for any page size, tasks and bounds: the       *)
(* inductive invariant IInv, and with it type correctness, ConfirmedStays, *)
(* RepliesFollow and PagesCover; that overlapping reads lose no change;    *)
(* and that a stale row on the screen has its verdict in the store.        *)
(***************************************************************************)
EXTENDS ChatView, FiniteSetTheorems, FunctionTheorems, SequenceTheorems, WellFoundedInduction, TLAPS

\* The rows the view-model has: on the screen and in reads under way.
Copies == screen \cup UNION {reads[t].page : t \in Tasks}

\* What the store's rows are.
Stored ==
  /\ \A r \in rows : r.id \in Events => r.id \in DOMAIN server /\ r.look \in {"hidden", "shown"}
  /\ \A r \in rows, m \in Sends : r.id = Echo(m) /\ sends[m] = "queued" => r.look = "sending"
  /\ \A m \in Sends : sends[m] = "none" =>
       EventsOf(m) = {} /\ Echo(m) \notin IdsOf(rows) \cup IdsOf(Copies)

\* A row and its copies: of one depth, and the same when the row is in its final form.
Copied ==
  /\ \A t \in Tasks : OnePerId(reads[t].page)
  /\ \A c \in Copies : c.look \in {"shown", "failed"} => c \in rows
  /\ \A c \in Copies : c.id \in Events => c.id \in IdsOf(rows)
  /\ \A c \in Copies, d \in Copies \cup rows : c.id = d.id => c.depth = d.depth

\* Where the events are that a message follows.
Placed ==
  /\ \A q \in rows :
       q.id \in DOMAIN server /\ server[q.id].from = 0 => q.depth = server[q.id].depth
  /\ \A m \in Sends : seen[m] \subseteq DOMAIN server \cap IdsOf(rows)
  /\ \A m \in Sends : \A e \in EventsOf(m), q \in seen[m] : server[q].depth < server[e].depth
  /\ RepliesFollow

\* r does not have to be on s, or is.
Covered(r, s) == r.id \in late \cup IdsOf(s) \/ r.depth \in Depths(s)

\* s has every row above one of its own.
Whole(s) == \A r \in rows, c \in s : r.depth > c.depth => Covered(r, s)

\* p has every row below depth and above one of its own, or every one below depth if it is empty.
WholeBelow(depth, p) ==
  \A r \in rows :
    r.depth < depth /\ (p = {} \/ \E c \in p : r.depth > c.depth) => Covered(r, p)

Paged ==
  /\ ~open => screen = {} /\ ~atTop /\ late = {} /\ \A t \in Tasks : reads[t].kind = "none"
  /\ \A t \in Tasks : reads[t].kind = "none" => reads[t].page = {}
  /\ Whole(screen)
  /\ \A t \in Tasks : reads[t].kind = "newest" => Whole(reads[t].page)
  /\ \A t \in Tasks : reads[t].kind = "older" =>
       \E depth \in Depths(screen) : WholeBelow(depth, reads[t].page)
  /\ atTop => \A r \in rows : Covered(r, screen)

IInv == TypeOK /\ Stored /\ Copied /\ Placed /\ Paged

------------------------------------------------------------------------------
\* Of the sets up[x] of a finite set's elements, a least one by inclusion.
LEMMA LeastSubset ==
  ASSUME NEW S, IsFiniteSet(S), S # {}, NEW up \in [S -> SUBSET S]
  PROVE  \E x \in S : \A y \in S : up[y] \subseteq up[x] => up[y] = up[x]
<1> DEFINE T == {up[x] : x \in S}
           R == StrictSubsetOrdering(S)
<1>1. IsWellFoundedOn(R, SUBSET S)
  BY FS_StrictSubsetOrderingWellFounded, FS_FiniteSubsetsOfFinite
<1>2. T \subseteq SUBSET S /\ T # {}
  OBVIOUS
<1> HIDE DEF R, T
<1>3. PICK U \in T : \A V \in T : <<V, U>> \notin R
  BY <1>1, <1>2, WFMin
<1>4. PICK x \in S : U = up[x]
  BY <1>3 DEF T
<1>5. ASSUME NEW y \in S, up[y] \subseteq up[x] PROVE up[y] = up[x]
  BY <1>3, <1>4, <1>5 DEF T, R, StrictSubsetOrdering
<1> QED BY <1>5

\* Rows with distinct ids are finitely many.
LEMMA FiniteRows ==
  ASSUME NEW s, s \subseteq Rows, OnePerId(s)
  PROVE  IsFiniteSet(s)
<1> DEFINE f == [r \in s |-> r.id]
<1>1. IsFiniteSet(Ids)
  BY FS_Interval, ChatBounds DEF Ids
<1>2. f \in Injection(s, Ids)
  BY DEF Injection, IsInjective, Rows, OnePerId
<1> QED BY <1>1, <1>2, FS_Injection

\* The order of rows in the timeline is one.
LEMMA NewerIsOrder ==
  ASSUME NEW p \in Rows, NEW q \in Rows, NEW r \in Rows
  PROVE  /\ ~Newer(p, p)
         /\ Newer(p, q) /\ Newer(q, r) => Newer(p, r)
         /\ p.depth > q.depth => Newer(p, q)
BY ChatBounds DEF Newer, Rows, Ids

\* A page has the rows it is cut from down to some depth, and is empty only if there are none.
LEMMA PageIsTop ==
  ASSUME NEW s, s \subseteq Rows, OnePerId(s)
  PROVE  /\ NewestOf(s) \subseteq s
         /\ \A r \in s, c \in NewestOf(s) : r.depth > c.depth => r \in NewestOf(s)
         /\ s # {} => NewestOf(s) # {}
<1> DEFINE Above(r) == {q \in s : Newer(q, r)}
<1>1. IsFiniteSet(s)
  BY FiniteRows
<1>2. ASSUME NEW r \in s, NEW c \in NewestOf(s), r.depth > c.depth PROVE r \in NewestOf(s)
  <2>1. Above(r) \subseteq Above(c)
    BY <1>2, NewerIsOrder DEF NewestOf
  <2>2. IsFiniteSet(Above(c))
    BY <1>1, FS_Subset
  <2>3. Cardinality(Above(r)) <= Cardinality(Above(c))
    BY <2>1, <2>2, FS_Subset
  <2>4. Cardinality(Above(r)) \in Nat /\ Cardinality(Above(c)) \in Nat
    BY <2>1, <2>2, FS_Subset, FS_CardinalityType
  <2> HIDE DEF Above
  <2> QED BY <1>2, <2>3, <2>4, ChatBounds DEF NewestOf, Above
<1>3. ASSUME s # {} PROVE NewestOf(s) # {}
  <2> DEFINE up == [r \in s |-> Above(r)]
  <2>1. up \in [s -> SUBSET s]
    OBVIOUS
  <2> HIDE DEF up
  <2>2. PICK r \in s : \A q \in s : up[q] \subseteq up[r] => up[q] = up[r]
    BY <1>1, <1>3, <2>1, LeastSubset
  <2>3. Above(r) = {}
    <3> SUFFICES ASSUME NEW q \in s, Newer(q, r) PROVE FALSE
      OBVIOUS
    <3>1. Above(q) \subseteq Above(r)
      BY NewerIsOrder
    <3>2. q \in Above(r) /\ q \notin Above(q)
      BY NewerIsOrder
    <3> QED BY <2>2, <3>1, <3>2 DEF up
  <2>4. r \in NewestOf(s)
    BY <2>3, FS_EmptySet, ChatBounds DEF NewestOf
  <2> QED BY <2>4
<1> QED BY <1>2, <1>3 DEF NewestOf

\* Of finitely many depths there is a deepest.
LEMMA DeepestIs ==
  ASSUME NEW D \in SUBSET Nat, IsFiniteSet(D)
  PROVE  Deepest(D) \in Nat /\ \A d \in D : d <= Deepest(D)
<1> DEFINE E == D \cup {0}
           up == [d \in E |-> {e \in E : e > d}]
<1>1. IsFiniteSet(E)
  BY FS_AddElement
<1>2. up \in [E -> SUBSET E] /\ E # {}
  OBVIOUS
<1>3. \A d \in E : up[d] = {e \in E : e > d}
  OBVIOUS
<1>8. E \subseteq Nat
  OBVIOUS
<1> HIDE DEF up, E
<1>4. PICK d \in E : \A e \in E : up[e] \subseteq up[d] => up[e] = up[d]
  BY <1>1, <1>2, LeastSubset
<1>5. ASSUME NEW e \in E, e > d PROVE FALSE
  <2>1. up[e] \subseteq up[d]
    BY <1>3, <1>5, <1>8
  <2>2. e \in up[d] /\ e \notin up[e]
    BY <1>3, <1>5, <1>8
  <2> QED BY <1>4, <2>1, <2>2
<1>6. d \in E /\ \A e \in E : e <= d
  BY <1>5, <1>8
<1>7. Deepest(D) \in E /\ \A e \in D : e <= Deepest(D)
  <2>1. Deepest(D) = CHOOSE x \in E : \A e \in D : e <= x
    BY DEF Deepest, E
  <2>2. \E x \in E : \A e \in D : e <= x
    BY <1>6 DEF E
  <2> QED BY <2>1, <2>2
<1> QED BY <1>7, <1>8 DEF E

\* The same for the depths of rows and of the homeserver's events.
LEMMA DeepestRow ==
  ASSUME TypeOK
  PROVE  Deepest(Depths(rows)) \in Nat /\ \A r \in rows : r.depth <= Deepest(Depths(rows))
<1> DEFINE f == [r \in rows |-> r.depth]
<1>1. IsFiniteSet(rows)
  BY FiniteRows DEF TypeOK
<1>2. f \in Surjection(rows, Depths(rows))
  BY DEF Surjection, Depths
<1>3. IsFiniteSet(Depths(rows))
  BY <1>1, <1>2, FS_Surjection
<1>4. Depths(rows) \in SUBSET Nat
  BY DEF TypeOK, Rows, Depths
<1> QED BY <1>3, <1>4, DeepestIs DEF Depths

\* The deepest event of the server is as deep as every other.
LEMMA DeepestEvent ==
  ASSUME TypeOK, NEW D, D = {server[e].depth : e \in DOMAIN server}
  PROVE  Deepest(D) \in Nat /\ \A e \in DOMAIN server : server[e].depth <= Deepest(D)
<1> DEFINE f == [e \in DOMAIN server |-> server[e].depth]
<1>1. IsFiniteSet(DOMAIN server)
  BY FS_Interval DEF TypeOK
<1>2. f \in Surjection(DOMAIN server, D)
  BY DEF Surjection
<1>3. IsFiniteSet(D)
  BY <1>1, <1>2, FS_Surjection
<1>4. \A e \in DOMAIN server : server[e] \in [depth : Nat, from : {0} \cup Sends]
  <2>1. server \in Seq([depth : Nat, from : {0} \cup Sends])
    BY DEF TypeOK
  <2> QED BY <2>1, ElementOfSeq, LenProperties
<1>5. D \in SUBSET Nat
  BY <1>4
<1> QED BY <1>3, <1>5, DeepestIs

\* What merging two sets of rows gives, of which copies have one depth.
LEMMA MergeIs ==
  ASSUME NEW a, NEW b, a \subseteq Rows, b \subseteq Rows,
         \A c \in a, d \in b : c.id = d.id => c.depth = d.depth
  PROVE  /\ Merge(a, b) \subseteq a \cup b /\ a \subseteq Merge(a, b)
         /\ IdsOf(Merge(a, b)) = IdsOf(a) \cup IdsOf(b)
         /\ Depths(Merge(a, b)) = Depths(a) \cup Depths(b)
         /\ OnePerId(a) /\ OnePerId(b) => OnePerId(Merge(a, b))
BY DEF Merge, IdsOf, Depths, OnePerId

------------------------------------------------------------------------------
\* Steps of the store.

\* The id of an echo is no event's and no other message's.
LEMMA EchoIs ==
  /\ \A m \in Sends : Echo(m) \in Ids /\ Echo(m) \notin Events
  /\ \A m, n \in Sends : Echo(m) = Echo(n) => m = n
  /\ Events \subseteq Ids
BY ChatBounds DEF Echo, Ids, Events, Sends

\* What an event of the server is.
LEMMA EventIs ==
  ASSUME TypeOK
  PROVE  /\ DOMAIN server \subseteq Events
         /\ \A e \in DOMAIN server : server[e].depth \in Nat /\ server[e].from \in {0} \cup Sends
<1>1. server \in Seq([depth : Nat, from : {0} \cup Sends]) /\ Len(server) <= MaxEvents
  BY DEF TypeOK
<1>2. \A e \in DOMAIN server : server[e] \in [depth : Nat, from : {0} \cup Sends]
  BY <1>1, ElementOfSeq, LenProperties
<1>3. DOMAIN server = 1..Len(server)
  BY <1>1, LenProperties
<1> QED BY <1>1, <1>2, <1>3, LenProperties, ChatBounds DEF Events

\* Rows are records; a row with another look is one.
LEMMA RowIs ==
  /\ \A r \in Rows : r.id \in Ids /\ r.depth \in Nat /\ r.look \in Looks
  /\ \A i \in Ids, depth \in Nat, look \in Looks :
       [id |-> i, depth |-> depth, look |-> look] \in Rows
  /\ \A r, q \in Rows : r.id = q.id /\ r.depth = q.depth /\ r.look = q.look => r = q
<1>1. \A r \in Rows : r.id \in Ids /\ r.depth \in Nat /\ r.look \in Looks
  BY DEF Rows
<1>2. \A i \in Ids, depth \in Nat, look \in Looks :
        [id |-> i, depth |-> depth, look |-> look] \in Rows
  BY DEF Rows
<1>3. \A r, q \in Rows : r.id = q.id /\ r.depth = q.depth /\ r.look = q.look => r = q
  BY DEF Rows
<1> QED BY <1>1, <1>2, <1>3

\* A row with another look is the same row otherwise.
LEMMA LookIs ==
  ASSUME NEW r \in Rows, NEW look \in Looks, NEW n, n = [r EXCEPT !.look = look]
  PROVE  n \in Rows /\ n.id = r.id /\ n.depth = r.depth /\ n.look = look
<1>1. n = [id |-> r.id, depth |-> r.depth, look |-> look]
  BY DEF Rows
<1>2. r.id \in Ids /\ r.depth \in Nat
  BY DEF Rows
<1> QED BY <1>1, <1>2 DEF Rows

\* What every change of the store keeps: the rows in their final form, the events, and the place of
\* what stays; a new row is late.
RowsKept ==
  /\ \A r \in rows' :
       \/ \E q \in rows : q.id = r.id /\ q.depth = r.depth
       \/ r.id \notin IdsOf(rows) \cup IdsOf(Copies) /\ (open => r.id \in late')
  /\ \A r \in rows : r.look \in {"shown", "failed"} => r \in rows'
  /\ \A r \in rows : r.id \in Events => r.id \in IdsOf(rows')
  /\ late \subseteq late' /\ (~open => late' = {})
  /\ UNCHANGED view

\* A change of the store that keeps its rows does not touch what the copies are ...
LEMMA RowsKeptCopied ==
  ASSUME Copied, RowsKept
  PROVE  Copied'
<1>1. Copies' = Copies /\ reads' = reads
  BY DEF RowsKept, Copies, view
<1>2. \A c \in Copies : c.look \in {"shown", "failed"} => c \in rows'
  BY DEF Copied, RowsKept
<1>3. \A c \in Copies : c.id \in Events => c.id \in IdsOf(rows')
  BY DEF Copied, RowsKept, IdsOf
<1>4. ASSUME NEW c \in Copies, NEW d \in Copies \cup rows', c.id = d.id PROVE c.depth = d.depth
  <2>1. CASE d \in Copies
    BY <1>4, <2>1 DEF Copied
  <2>2. CASE d \in rows'
    BY <1>4, <2>2 DEF Copied, RowsKept, IdsOf
  <2> QED BY <1>4, <2>1, <2>2
<1> QED BY <1>1, <1>2, <1>3, <1>4 DEF Copied, Events

\* ... nor what the pages and the screen cover.
LEMMA RowsKeptPaged ==
  ASSUME Paged, RowsKept
  PROVE  Paged'
<1> USE DEF RowsKept, view
<1>1. ASSUME NEW s, Whole(s), open
      PROVE  \A r \in rows', c \in s :
               r.depth > c.depth => r.id \in late' \cup IdsOf(s) \/ r.depth \in Depths(s)
  BY <1>1 DEF Whole, Covered
<1>2. ASSUME NEW p, NEW depth, WholeBelow(depth, p), open
      PROVE  \A r \in rows' :
               r.depth < depth /\ (p = {} \/ \E c \in p : r.depth > c.depth) =>
                 r.id \in late' \cup IdsOf(p) \/ r.depth \in Depths(p)
  BY <1>2 DEF WholeBelow, Covered
<1>3. CASE ~open
  BY <1>3 DEF Paged, Whole, WholeBelow, Covered
<1>4. CASE open
  <2>1. Whole(screen)'
    BY <1>1, <1>4 DEF Paged, Whole, Covered, IdsOf, Depths
  <2>2. ASSUME NEW t \in Tasks, reads[t].kind = "newest" PROVE Whole(reads[t].page)'
    BY <1>1, <1>4, <2>2 DEF Paged, Whole, Covered, IdsOf, Depths
  <2>3. ASSUME NEW t \in Tasks, reads[t].kind = "older"
        PROVE  \E depth \in Depths(screen) : WholeBelow(depth, reads[t].page)'
    <3>1. PICK depth \in Depths(screen) : WholeBelow(depth, reads[t].page)
      BY <2>3 DEF Paged
    <3>2. WholeBelow(depth, reads[t].page)'
      BY <1>2, <1>4, <3>1 DEF WholeBelow, Covered, IdsOf, Depths
    <3> QED BY <3>2
  <2>4. atTop => \A r \in rows' : r.id \in late' \cup IdsOf(screen) \/ r.depth \in Depths(screen)
    BY <1>4 DEF Paged, Covered
  <2> QED BY <1>4, <2>1, <2>2, <2>3, <2>4 DEF Paged, Covered, IdsOf, Depths
<1> QED BY <1>3, <1>4

\* A row with a new id is added.
LEMMA RowAdded ==
  ASSUME IInv, NEW n \in Rows, n.id \notin IdsOf(rows) \cup IdsOf(Copies),
         rows' = rows \cup {n}, Came(n.id), UNCHANGED view
  PROVE  RowsKept /\ rows' \subseteq Rows /\ OnePerId(rows')
<1>1. RowsKept
  BY DEF RowsKept, Came, IdsOf, IInv, Paged
<1>2. rows' \subseteq Rows /\ OnePerId(rows')
  BY DEF IInv, TypeOK, OnePerId, IdsOf
<1> QED BY <1>1, <1>2

\* A row that is not in its final form gets another look.
LEMMA RowRedrawn ==
  ASSUME IInv, NEW r \in rows, r.look \notin {"shown", "failed"},
         NEW n \in Rows, n.id = r.id, n.depth = r.depth,
         rows' = (rows \ {r}) \cup {n}, late \subseteq late', ~open => late' = {},
         UNCHANGED view
  PROVE  RowsKept /\ rows' \subseteq Rows /\ OnePerId(rows')
<1>1. RowsKept
  BY DEF RowsKept, IdsOf
<1>2. rows' \subseteq Rows /\ OnePerId(rows')
  BY DEF IInv, TypeOK, OnePerId, IdsOf
<1> QED BY <1>1, <1>2

\* A new row with the server's depth: no copy of it can be anywhere yet.
LEMMA ArriveKeeps ==
  ASSUME IInv, NEW e \in Events, NEW look \in {"hidden", "shown"}, Arrive(e, look)
  PROVE  RowsKept /\ rows' \subseteq Rows /\ OnePerId(rows') /\ Stored' /\ Placed'
<1> DEFINE n == FromWire(e, look)
<1>1. n \in Rows /\ n.id = e /\ n.depth = server[e].depth /\ n.look = look
  BY EventIs, EchoIs DEF IInv, Arrive, FromWire, Rows, Looks
<1>2. e \in DOMAIN server /\ e \notin IdsOf(rows) /\ e \notin IdsOf(Copies)
  BY DEF Arrive, IInv, Copied, IdsOf
<1>3. rows' = rows \cup {n} /\ UNCHANGED <<server, sends, seen, view>> /\ Came(e)
  BY DEF Arrive, Changed
<1> HIDE DEF n
<1>4. RowsKept /\ rows' \subseteq Rows /\ OnePerId(rows')
  BY <1>1, <1>2, <1>3, RowAdded
<1>5. Copies' = Copies
  BY <1>3 DEF Copies, view
<1>6. IdsOf(rows') = IdsOf(rows) \cup {e}
  BY <1>1, <1>3 DEF IdsOf
<1>7. Stored'
  BY <1>1, <1>2, <1>3, <1>5, <1>6, EchoIs DEF IInv, Stored, EventsOf, Echo, Events, Sends, IdsOf
<1>8. \A m \in Sends : EventsOf(m)' = EventsOf(m)
  BY <1>3 DEF EventsOf
<1>9. RepliesFollow'
  <2> SUFFICES ASSUME NEW m \in Sends, NEW r \in rows', NEW q \in rows',
                      r.id \in {Echo(m)} \cup EventsOf(m), q.id \in seen[m]
               PROVE  q.depth < r.depth \/ (AsServed(r) /\ Astray(q))
    BY <1>3, <1>8 DEF RepliesFollow, Echo, AsServed, Astray
  <2>1. CASE r \in rows /\ q \in rows
    BY <2>1 DEF IInv, Placed, RepliesFollow
  <2>2. CASE r \in rows' /\ q \in rows /\ r = n
    <3>1. e \in EventsOf(m) /\ AsServed(r) /\ r.depth = server[e].depth
      BY <1>1, <1>2, <2>2, EchoIs DEF AsServed
    <3>2. q.id \in DOMAIN server /\ server[q.id].depth < server[e].depth
      BY <3>1 DEF IInv, Placed
    <3>3. server[q.id].from = 0 => q.depth = server[q.id].depth
      BY <2>2, <3>2 DEF IInv, Placed
    <3>4. q.depth \in Nat /\ server[q.id].depth \in Nat /\ server[e].depth \in Nat
      BY <1>2, <2>2, <3>2, RowIs, EventIs DEF IInv, TypeOK
    <3> QED BY <3>1, <3>2, <3>3, <3>4 DEF Astray
  <2>3. q # n
    BY <1>1, <1>2 DEF IInv, Placed
  <2> QED BY <1>3, <2>1, <2>2, <2>3
<1>10. Placed'
  BY <1>1, <1>3, <1>6, <1>8, <1>9 DEF IInv, Placed, Sends
<1> QED BY <1>4, <1>7, <1>10

\* Where the events are depends on the ids and the depths of the rows.
LEMMA SameDepths ==
  ASSUME Placed, UNCHANGED <<server, seen>>, IdsOf(rows) \subseteq IdsOf(rows'),
         \A q \in rows' : \E p \in rows : p.id = q.id /\ p.depth = q.depth
  PROVE  Placed'
<1>1. \A m \in Sends : EventsOf(m)' = EventsOf(m)
  BY DEF EventsOf
<1>2. RepliesFollow'
  <2> SUFFICES ASSUME NEW m \in Sends, NEW r \in rows', NEW q \in rows',
                      r.id \in {Echo(m)} \cup EventsOf(m), q.id \in seen[m]
               PROVE  q.depth < r.depth \/ (AsServed(r) /\ Astray(q))
    BY <1>1 DEF RepliesFollow, Echo, AsServed, Astray
  <2>1. PICK p \in rows, o \in rows :
          p.id = q.id /\ p.depth = q.depth /\ o.id = r.id /\ o.depth = r.depth
    OBVIOUS
  <2>2. p.depth < o.depth \/ (AsServed(o) /\ Astray(p))
    BY <2>1 DEF Placed, RepliesFollow
  <2> QED BY <2>1, <2>2 DEF AsServed, Astray
<1> QED BY <1>1, <1>2 DEF Placed, Sends

\* Ciphertext becomes final, and no copy was final before.
LEMMA DecryptKeeps ==
  ASSUME IInv, NEW r \in rows, Decrypt(r)
  PROVE  RowsKept /\ rows' \subseteq Rows /\ OnePerId(rows') /\ Stored' /\ Placed'
<1> DEFINE n == [r EXCEPT !.look = "shown"]
<1>1. n \in Rows /\ n.id = r.id /\ n.depth = r.depth /\ n.look = "shown"
  <2>1. r \in Rows /\ "shown" \in Looks
    BY DEF IInv, TypeOK, Looks
  <2> QED BY <2>1, LookIs
<1>2. r.look = "hidden" /\ rows' = (rows \ {r}) \cup {n}
  BY DEF Decrypt, Changed
<1>3. UNCHANGED <<server, sends, seen, view, late>>
  BY DEF Decrypt
<1> HIDE DEF n
<1>4. RowsKept /\ rows' \subseteq Rows /\ OnePerId(rows')
  BY <1>1, <1>2, <1>3, RowRedrawn DEF IInv, Paged
<1>5. Copies' = Copies /\ \A m \in Sends : EventsOf(m)' = EventsOf(m)
  BY <1>3 DEF Copies, view, EventsOf
<1>6. IdsOf(rows') = IdsOf(rows)
  BY <1>1, <1>2 DEF IdsOf
<1>7. Stored'
  BY <1>1, <1>2, <1>3, <1>5, <1>6 DEF IInv, Stored, Echo, Events, Sends
<1>8. \A q \in rows' : \E p \in rows : p.id = q.id /\ p.depth = q.depth
  BY <1>1, <1>2
<1>9. Placed'
  BY <1>3, <1>5, <1>6, <1>8, SameDepths DEF IInv
<1> QED BY <1>4, <1>7, <1>9

\* The echo is deeper than every row, so below what is in the store.
LEMMA QueueSendKeeps ==
  ASSUME IInv, NEW m \in Sends, QueueSend(m)
  PROVE  RowsKept /\ rows' \subseteq Rows /\ OnePerId(rows') /\ Stored' /\ Placed'
<1> DEFINE n == NewEcho(m, Deepest(Depths(rows)) + 1)
<1>1. /\ n \in Rows /\ n.id = Echo(m) /\ n.look = "sending"
      /\ \A q \in rows : q.depth < n.depth
  <2>1. Deepest(Depths(rows)) \in Nat /\ \A r \in rows : r.depth <= Deepest(Depths(rows))
    BY DeepestRow DEF IInv
  <2>2. \A r \in rows : r.depth \in Nat
    BY RowIs DEF IInv, TypeOK
  <2> HIDE DEF Deepest
  <2> QED BY <2>1, <2>2, EchoIs DEF NewEcho, Rows, Looks
<1> HIDE DEF n
<1>2. Echo(m) \notin IdsOf(rows) \cup IdsOf(Copies) /\ EventsOf(m) = {}
  BY DEF IInv, Stored, QueueSend
<1>3. rows' = rows \cup {n} /\ Came(Echo(m)) /\ UNCHANGED <<server, view>>
  BY DEF QueueSend, Changed, n
<1>4. /\ sends' = [sends EXCEPT ![m] = "queued"]
      /\ seen' = [seen EXCEPT ![m] = IdsOf(rows) \cap Events]
  BY DEF QueueSend
<1>5. RowsKept /\ rows' \subseteq Rows /\ OnePerId(rows')
  BY <1>1, <1>2, <1>3, RowAdded
<1>6. Copies' = Copies /\ \A k \in Sends : EventsOf(k)' = EventsOf(k)
  BY <1>3 DEF Copies, view, EventsOf
<1>7. IdsOf(rows') = IdsOf(rows) \cup {Echo(m)}
  BY <1>1, <1>3 DEF IdsOf
<1>8. \A k \in Sends : k # m => sends'[k] = sends[k] /\ seen'[k] = seen[k]
  BY <1>4 DEF IInv, TypeOK
<1>9. sends'[m] = "queued" /\ seen'[m] = IdsOf(rows) \cap Events
  BY <1>4 DEF IInv, TypeOK
<1>10. Stored'
  <2>1. \A r \in rows' : r.id \in Events => r.id \in DOMAIN server /\ r.look \in {"hidden", "shown"}
    BY <1>1, <1>3, EchoIs DEF IInv, Stored
  <2>2. \A r \in rows', k \in Sends : r.id = Echo(k) /\ sends'[k] = "queued" => r.look = "sending"
    BY <1>1, <1>2, <1>3, <1>8, EchoIs DEF IInv, Stored, IdsOf
  <2>3. \A k \in Sends : sends'[k] = "none" =>
          EventsOf(k) = {} /\ Echo(k) \notin IdsOf(rows') \cup IdsOf(Copies)
    BY <1>7, <1>8, <1>9, EchoIs DEF IInv, Stored
  <2> QED BY <1>3, <1>6, <2>1, <2>2, <2>3 DEF Stored, Echo, Events, Sends
<1>11. RepliesFollow'
  <2> SUFFICES ASSUME NEW k \in Sends, NEW r \in rows', NEW q \in rows',
                      r.id \in {Echo(k)} \cup EventsOf(k), q.id \in seen'[k]
               PROVE  q.depth < r.depth \/ (AsServed(r) /\ Astray(q))
    BY <1>3, <1>6 DEF RepliesFollow, Echo, AsServed, Astray
  <2>1. q \in rows
    BY <1>1, <1>3, <1>8, <1>9, EchoIs DEF IInv, TypeOK
  <2>2. CASE k = m
    BY <1>1, <1>2, <1>3, <2>1, <2>2 DEF IdsOf
  <2>3. CASE k # m
    <3>1. r \in rows
      BY <1>1, <1>3, <2>3, EchoIs, EventIs DEF IInv, EventsOf
    <3> QED BY <1>8, <2>1, <2>3, <3>1 DEF IInv, Placed, RepliesFollow
  <2> QED BY <2>2, <2>3
<1>12. \A k \in Sends : seen'[k] \subseteq DOMAIN server \cap IdsOf(rows')
  BY <1>7, <1>8, <1>9 DEF IInv, Placed, Stored, IdsOf
<1>13. \A q \in rows' : q.id \in DOMAIN server /\ server[q.id].from = 0 =>
         q.depth = server[q.id].depth
  BY <1>1, <1>3, EchoIs, EventIs DEF IInv, Placed
<1>14. \A k \in Sends : \A e \in EventsOf(k), q \in seen'[k] :
         server[q].depth < server[e].depth
  BY <1>2, <1>8 DEF IInv, Placed
<1>15. Placed'
  BY <1>3, <1>6, <1>11, <1>12, <1>13, <1>14 DEF Placed, Sends
<1> QED BY <1>5, <1>10, <1>15

\* The echo becomes final where it is.
LEMMA FailSendKeeps ==
  ASSUME IInv, NEW m \in Sends, FailSend(m)
  PROVE  RowsKept /\ rows' \subseteq Rows /\ OnePerId(rows') /\ Stored' /\ Placed'
<1>1. /\ sends[m] = "queued" /\ sends' = [sends EXCEPT ![m] = "rejected"]
      /\ rows' = {IF r.id = Echo(m) THEN [r EXCEPT !.look = "failed"] ELSE r : r \in rows}
      /\ UNCHANGED <<server, seen, view, late>>
  BY DEF FailSend, Changed
<1>2. \A k \in Sends : k # m => sends'[k] = sends[k]
  BY <1>1 DEF IInv, TypeOK
<1>3. sends'[m] = "rejected"
  BY <1>1 DEF IInv, TypeOK
<1>4. Copies' = Copies /\ \A k \in Sends : EventsOf(k)' = EventsOf(k)
  BY <1>1 DEF Copies, view, EventsOf
<1>5. CASE Echo(m) \notin IdsOf(rows)
  <2>1. rows' = rows
    BY <1>1, <1>5 DEF IdsOf
  <2>2. RowsKept /\ rows' \subseteq Rows /\ OnePerId(rows')
    BY <1>1, <2>1 DEF RowsKept, IInv, TypeOK, Paged, IdsOf
  <2>3. Stored'
    BY <1>1, <1>2, <1>3, <1>4, <2>1 DEF IInv, Stored, Echo, Events, Sends
  <2>4. Placed'
    BY <1>1, <1>4, <2>1, SameDepths DEF IInv
  <2> QED BY <2>2, <2>3, <2>4
<1>6. ASSUME NEW r \in rows, r.id = Echo(m)
      PROVE  RowsKept /\ rows' \subseteq Rows /\ OnePerId(rows') /\ Stored' /\ Placed'
  <2> DEFINE n == [r EXCEPT !.look = "failed"]
  <2>1. n \in Rows /\ n.id = r.id /\ n.depth = r.depth /\ n.look = "failed"
    <3>1. r \in Rows /\ "failed" \in Looks
      BY DEF IInv, TypeOK, Looks
    <3> QED BY <3>1, LookIs
  <2>2. rows' = (rows \ {r}) \cup {n} /\ r.look = "sending"
    BY <1>1, <1>6 DEF IInv, TypeOK, OnePerId, Stored
  <2> HIDE DEF n
  <2>3. RowsKept /\ rows' \subseteq Rows /\ OnePerId(rows')
    BY <1>1, <2>1, <2>2, RowRedrawn DEF IInv, Paged
  <2>4. IdsOf(rows') = IdsOf(rows)
    BY <2>1, <2>2 DEF IdsOf
  <2>5. Stored'
    <3>1. \A q \in rows' : q.id \in Events =>
            q.id \in DOMAIN server /\ q.look \in {"hidden", "shown"}
      BY <1>6, <2>1, <2>2, EchoIs DEF IInv, Stored
    <3>2. \A q \in rows', k \in Sends : q.id = Echo(k) /\ sends'[k] = "queued" => q.look = "sending"
      BY <1>2, <1>3, <1>6, <2>1, <2>2, EchoIs DEF IInv, Stored
    <3>3. \A k \in Sends : sends'[k] = "none" =>
            EventsOf(k) = {} /\ Echo(k) \notin IdsOf(rows') \cup IdsOf(Copies)
      BY <1>2, <1>3, <2>4 DEF IInv, Stored
    <3> QED BY <1>1, <1>4, <3>1, <3>2, <3>3 DEF Stored, Echo, Events, Sends
  <2>6. \A q \in rows' : \E p \in rows : p.id = q.id /\ p.depth = q.depth
    BY <2>1, <2>2
  <2>7. Placed'
    BY <1>1, <1>4, <2>4, <2>6, SameDepths DEF IInv
  <2> QED BY <2>3, <2>5, <2>7
<1> QED BY <1>5, <1>6 DEF IdsOf

\* The echo becomes the event at its own depth, or goes and leaves the row of the event final.
LEMMA ResolveSendKeeps ==
  ASSUME IInv, NEW m \in Sends, ResolveSend(m)
  PROVE  RowsKept /\ rows' \subseteq Rows /\ OnePerId(rows') /\ Stored' /\ Placed'
<1>1. PICK e \in EventsOf(m), echo \in rows :
        /\ echo.id = Echo(m) /\ sends[m] = "queued"
        /\ sends' = [sends EXCEPT ![m] = "acked"]
        /\ rows' = IF e \in IdsOf(rows)
                   THEN {IF r.id = e THEN [r EXCEPT !.look = "shown"] ELSE r : r \in rows \ {echo}}
                   ELSE (rows \ {echo}) \cup {[id |-> e, depth |-> echo.depth, look |-> "shown"]}
        /\ Came(e) /\ UNCHANGED <<server, seen, view>>
  BY DEF ResolveSend, Changed
<1>2. /\ e \in DOMAIN server /\ e \in Events /\ server[e].from = m /\ m # 0
      /\ \A k \in Sends : e \in EventsOf(k) => k = m
  BY EventIs DEF IInv, EventsOf, Sends
<1>3. echo.look = "sending" /\ echo \in Rows /\ echo.id \notin Events /\ e # echo.id
  BY <1>1, <1>2, EchoIs DEF IInv, Stored, TypeOK
<1>4. /\ \A k \in Sends : k # m => sends'[k] = sends[k]
      /\ sends'[m] = "acked"
  BY <1>1 DEF IInv, TypeOK
<1>5. Copies' = Copies /\ \A k \in Sends : EventsOf(k)' = EventsOf(k)
  BY <1>1 DEF Copies, view, EventsOf
<1>6. late \subseteq late' /\ (open => e \in late') /\ (~open => late' = {})
  BY <1>1 DEF Came, IInv, Paged
<1>7. PICK n \in Rows : /\ n.id = e /\ n.look = "shown"
                      /\ rows' = {r \in rows \ {echo} : r.id # e} \cup {n}
                      /\ \/ \E r \in rows : r.id = e /\ r.depth = n.depth
                         \/ e \notin IdsOf(rows) /\ n.depth = echo.depth
  <2>1. CASE e \notin IdsOf(rows)
    <3> DEFINE n == [id |-> e, depth |-> echo.depth, look |-> "shown"]
    <3>1. n \in Rows
      BY <1>2, <1>3, RowIs, EchoIs DEF Looks
    <3>2. rows' = {r \in rows \ {echo} : r.id # e} \cup {n}
      BY <1>1, <2>1 DEF IdsOf
    <3> QED BY <2>1, <3>1, <3>2
  <2>2. ASSUME NEW r \in rows, r.id = e
        PROVE  \E n \in Rows : /\ n.id = e /\ n.look = "shown" /\ n.depth = r.depth
                              /\ rows' = {q \in rows \ {echo} : q.id # e} \cup {n}
    <3> DEFINE n == [r EXCEPT !.look = "shown"]
    <3>1. r \in Rows /\ "shown" \in Looks
      BY DEF IInv, TypeOK, Looks
    <3>3. n \in Rows /\ n.id = e /\ n.look = "shown" /\ n.depth = r.depth
      BY <2>2, <3>1, LookIs
    <3>4. rows' = {IF q.id = e THEN [q EXCEPT !.look = "shown"] ELSE q : q \in rows \ {echo}}
      BY <1>1, <2>2 DEF IdsOf
    <3>5. \A q \in rows : q.id = e <=> q = r
      BY <2>2 DEF IInv, TypeOK, OnePerId
    <3>6. r # echo
      BY <1>3, <2>2
    <3>7. rows' = {q \in rows \ {echo} : q.id # e} \cup {n}
      BY <3>4, <3>5, <3>6
    <3> QED BY <3>3, <3>7
  <2> QED BY <2>1, <2>2 DEF IdsOf
<1>8. rows' \subseteq Rows /\ OnePerId(rows')
  BY <1>7 DEF IInv, TypeOK, OnePerId
<1>9. RowsKept
  <2>1. \A r \in rows' :
          \/ \E q \in rows : q.id = r.id /\ q.depth = r.depth
          \/ r.id \notin IdsOf(rows) \cup IdsOf(Copies) /\ (open => r.id \in late')
    BY <1>2, <1>6, <1>7 DEF IInv, Copied, IdsOf
  <2>2. \A r \in rows : r.look \in {"shown", "failed"} => r \in rows'
    <3> SUFFICES ASSUME NEW r \in rows, r.look \in {"shown", "failed"}, r.id = e PROVE r = n
      BY <1>3, <1>7
    <3>1. r.depth = n.depth
      BY <1>7 DEF IInv, TypeOK, OnePerId, IdsOf
    <3>2. r.look = "shown"
      BY <1>2 DEF IInv, Stored
    <3> QED BY <1>7, <3>1, <3>2, RowIs DEF IInv, TypeOK
  <2>3. \A r \in rows : r.id \in Events => r.id \in IdsOf(rows')
    BY <1>3, <1>7 DEF IdsOf
  <2> QED BY <1>1, <1>6, <2>1, <2>2, <2>3 DEF RowsKept
<1>10. Stored'
  <2>1. \A r \in rows' : r.id \in Events => r.id \in DOMAIN server /\ r.look \in {"hidden", "shown"}
    BY <1>2, <1>7 DEF IInv, Stored
  <2>2. \A r \in rows', k \in Sends : r.id = Echo(k) /\ sends'[k] = "queued" => r.look = "sending"
    BY <1>2, <1>4, <1>7, EchoIs DEF IInv, Stored
  <2>3. \A k \in Sends : sends'[k] = "none" =>
          EventsOf(k) = {} /\ Echo(k) \notin IdsOf(rows') \cup IdsOf(Copies)
    BY <1>2, <1>4, <1>7, EchoIs DEF IInv, Stored, IdsOf
  <2> QED BY <1>1, <1>5, <2>1, <2>2, <2>3 DEF Stored, Echo, Events, Sends
<1>11. RepliesFollow'
  <2> SUFFICES ASSUME NEW k \in Sends, NEW r \in rows', NEW q \in rows',
                      r.id \in {Echo(k)} \cup EventsOf(k), q.id \in seen[k]
               PROVE  q.depth < r.depth \/ (AsServed(r) /\ Astray(q))
    BY <1>1, <1>5 DEF RepliesFollow, Echo, AsServed, Astray
  <2>1. PICK p \in rows : p.id = q.id /\ p.depth = q.depth
    BY <1>7 DEF IInv, Placed, IdsOf
  <2>2. CASE r \in rows
    <3>1. p.depth < r.depth \/ (AsServed(r) /\ Astray(p))
      BY <2>1, <2>2 DEF IInv, Placed, RepliesFollow
    <3> QED BY <2>1, <3>1 DEF Astray
  <2>3. CASE r = n
    <3>1. k = m
      BY <1>2, <1>7, <2>3, EchoIs
    <3>2. ASSUME NEW o \in rows, o.id = e, o.depth = n.depth
          PROVE  q.depth < r.depth \/ (AsServed(r) /\ Astray(q))
      <4>1. p.depth < o.depth \/ (AsServed(o) /\ Astray(p))
        BY <2>1, <3>1, <3>2 DEF IInv, Placed, RepliesFollow
      <4> QED BY <1>7, <2>1, <2>3, <3>2, <4>1 DEF Astray, AsServed
    <3>3. CASE n.depth = echo.depth
      <4>1. p.depth < echo.depth \/ (AsServed(echo) /\ Astray(p))
        BY <1>1, <2>1, <3>1 DEF IInv, Placed, RepliesFollow
      <4>2. ~ AsServed(echo)
        BY <1>3, EventIs DEF AsServed, IInv
      <4> QED BY <2>1, <2>3, <3>3, <4>1, <4>2
    <3> QED BY <1>7, <3>2, <3>3
  <2> QED BY <1>7, <2>2, <2>3
<1>12. \A k \in Sends : seen[k] \subseteq DOMAIN server \cap IdsOf(rows')
  BY <1>9, EventIs DEF IInv, Placed, IdsOf, RowsKept
<1>13. \A q \in rows' : q.id \in DOMAIN server /\ server[q.id].from = 0 =>
         q.depth = server[q.id].depth
  BY <1>2, <1>7 DEF IInv, Placed
<1>14. Placed'
  BY <1>1, <1>5, <1>11, <1>12, <1>13 DEF IInv, Placed, Sends
<1> QED BY <1>8, <1>9, <1>10, <1>14

------------------------------------------------------------------------------
\* Steps of the homeserver.

\* The server's list grows at its end, and keeps its types and its earlier events.
LEMMA Appended ==
  ASSUME TypeOK, NEW x \in [depth : Nat, from : {0} \cup Sends],
         Len(server) < MaxEvents, server' = Append(server, x)
  PROVE  /\ server' \in Seq([depth : Nat, from : {0} \cup Sends]) /\ Len(server') <= MaxEvents
         /\ Len(server) + 1 \notin DOMAIN server
         /\ DOMAIN server' = DOMAIN server \cup {Len(server) + 1}
         /\ \A e \in DOMAIN server : server'[e] = server[e]
         /\ server'[Len(server) + 1] = x
<1>1. server \in Seq([depth : Nat, from : {0} \cup Sends])
  BY DEF TypeOK
<1>2. Len(server) \in Nat /\ DOMAIN server = 1..Len(server)
  BY <1>1, LenProperties
<1>3. /\ server' \in Seq([depth : Nat, from : {0} \cup Sends])
      /\ Len(server') = Len(server) + 1
      /\ DOMAIN server' = 1..Len(server')
  BY <1>1, LenProperties
<1>4. \A e \in 1..Len(server) : server'[e] = server[e]
  BY <1>1
<1>5. server'[Len(server) + 1] = x
  BY <1>1
<1> QED BY <1>2, <1>3, <1>4, <1>5, ChatBounds

\* The store does not know the new event.
LEMMA ServerKeeps ==
  ASSUME IInv, NEW x \in [depth : Nat, from : {0} \cup Sends],
         Len(server) < MaxEvents, server' = Append(server, x),
         UNCHANGED <<rows, sends, seen, view, dirty, late, faults>>,
         x.from # 0 => /\ sends[x.from] = "queued" /\ EventsOf(x.from) = {}
                       /\ \A e \in DOMAIN server : server[e].depth < x.depth
  PROVE  IInv'
<1> DEFINE n == Len(server) + 1
<1>1. /\ n \notin DOMAIN server /\ DOMAIN server' = DOMAIN server \cup {n}
      /\ \A e \in DOMAIN server : server'[e] = server[e]
      /\ server'[n] = x
  BY Appended DEF IInv
<1>2. TypeOK'
  BY Appended DEF IInv, TypeOK, view
<1> HIDE DEF n
<1>3. RowsKept
  BY DEF RowsKept, IInv, Paged, IdsOf
<1>4. Copied' /\ Paged'
  BY <1>3, RowsKeptCopied, RowsKeptPaged DEF IInv
<1>5. \A m \in Sends : EventsOf(m)' = IF x.from = m THEN EventsOf(m) \cup {n} ELSE EventsOf(m)
  BY <1>1 DEF EventsOf
<1>6. Copies' = Copies
  BY DEF Copies, view
<1>7. Stored'
  <2>1. \A r \in rows : r.id \in Events => r.id \in DOMAIN server' /\ r.look \in {"hidden", "shown"}
    BY <1>1 DEF IInv, Stored
  <2>2. \A m \in Sends : sends[m] = "none" => EventsOf(m)' = {}
    BY <1>5 DEF IInv, Stored, Sends
  <2> QED BY <1>6, <2>1, <2>2 DEF IInv, Stored, Echo, Events, Sends
<1>8. \A m \in Sends : n \notin seen[m] /\ seen[m] \subseteq DOMAIN server' \cap IdsOf(rows)
  BY <1>1 DEF IInv, Placed
<1>9. \A r \in rows : r.id # n
  BY <1>1, EchoIs, Appended, EventIs, LenProperties DEF IInv, Stored, TypeOK, Events, n
<1>10. \A m \in Sends : \A e \in EventsOf(m)', q \in seen[m] :
         server'[q].depth < server'[e].depth
  <2> SUFFICES ASSUME NEW m \in Sends, NEW e \in EventsOf(m)', NEW q \in seen[m]
               PROVE  server'[q].depth < server'[e].depth
    OBVIOUS
  <2>1. q \in DOMAIN server /\ server'[q] = server[q]
    BY <1>1 DEF IInv, Placed
  <2>2. CASE e \in EventsOf(m)
    BY <1>1, <2>1, <2>2 DEF IInv, Placed, EventsOf
  <2>3. CASE e = n /\ x.from = m
    BY <1>1, <2>1, <2>3 DEF Sends
  <2> QED BY <1>5, <2>2, <2>3
<1>11. RepliesFollow'
  <2> SUFFICES ASSUME NEW m \in Sends, NEW r \in rows, NEW q \in rows,
                      r.id \in {Echo(m)} \cup EventsOf(m)', q.id \in seen[m]
               PROVE  q.depth < r.depth \/ (AsServed(r)' /\ Astray(q)')
    BY DEF RepliesFollow, Echo, AsServed, Astray
  <2>1. r.id \in {Echo(m)} \cup EventsOf(m)
    BY <1>5, <1>9
  <2>2. q.depth < r.depth \/ (AsServed(r) /\ Astray(q))
    BY <2>1 DEF IInv, Placed, RepliesFollow
  <2> QED BY <1>1, <2>2 DEF AsServed, Astray
<1>12. \A q \in rows : q.id \in DOMAIN server' /\ server'[q.id].from = 0 =>
         q.depth = server'[q.id].depth
  BY <1>1, <1>9 DEF IInv, Placed
<1>13. Placed'
  BY <1>8, <1>10, <1>11, <1>12 DEF Placed, Sends
<1> QED BY <1>2, <1>4, <1>7, <1>13 DEF IInv

\* An event of another member is nobody's answer and has no row.
LEMMA CreateKeeps ==
  ASSUME IInv, NEW d \in 1..MaxEvents, Create(d)
  PROVE  IInv'
<1> DEFINE x == [depth |-> d, from |-> 0]
<1>1. x \in [depth : Nat, from : {0} \cup Sends] /\ x.from = 0
  BY ChatBounds
<1>2. /\ Len(server) < MaxEvents /\ server' = Append(server, x)
      /\ UNCHANGED <<rows, sends, seen, view, dirty, late, faults>>
  BY DEF Create
<1> HIDE DEF x
<1> QED BY <1>1, <1>2, ServerKeeps

\* Our event is deeper than every event, so than those it follows.
LEMMA AcceptKeeps ==
  ASSUME IInv, NEW m \in Sends, Accept(m)
  PROVE  IInv'
<1> DEFINE D == {server[e].depth : e \in DOMAIN server}
           x == [depth |-> Deepest(D) + 1, from |-> m]
<1>1. Deepest(D) \in Nat /\ \A e \in DOMAIN server : server[e].depth <= Deepest(D)
  BY DeepestEvent DEF IInv
<1>2. /\ Len(server) < MaxEvents /\ server' = Append(server, x)
      /\ sends[m] = "queued" /\ EventsOf(m) = {}
      /\ UNCHANGED <<rows, sends, seen, view, dirty, late, faults>>
  BY DEF Accept
<1> HIDE DEF D
<1>3. x \in [depth : Nat, from : {0} \cup Sends] /\ x.from = m
  BY <1>1
<1>4. \A e \in DOMAIN server : server[e].depth < x.depth
  BY <1>1, EventIs DEF IInv
<1> HIDE DEF x
<1> QED BY <1>2, <1>3, <1>4, ServerKeeps

------------------------------------------------------------------------------
\* The steps of the store keep the invariant.

\* A step of the store alone keeps the invariant, if the rows it leaves are in order.
LEMMA StoreTyped ==
  ASSUME IInv, RowsKept, rows' \subseteq Rows, OnePerId(rows'), Stored', Placed',
         sends' \in [Sends -> {"none", "queued", "acked", "rejected"}],
         seen' \in [Sends -> SUBSET Events],
         late' \subseteq Ids, dirty' = open \/ dirty' = dirty, UNCHANGED <<server, faults>>
  PROVE  IInv'
<1>1. TypeOK'
  <2>1. dirty' \in BOOLEAN
    BY Zenon DEF IInv, TypeOK
  <2> QED BY <2>1 DEF IInv, TypeOK, RowsKept, view, Events, Ids, Sends, Rows
<1>2. Copied' /\ Paged'
  BY RowsKeptCopied, RowsKeptPaged DEF IInv
<1> QED BY <1>1, <1>2 DEF IInv

\* Every step of the store and of the server keeps the invariant.
LEMMA StoreKeeps ==
  ASSUME IInv, StoreStep
  PROVE  IInv'
<1>1. ASSUME NEW e \in Events, NEW look \in {"hidden", "shown"}, Arrive(e, look) PROVE IInv'
  <2>1. /\ UNCHANGED <<server, sends, seen, faults>> /\ dirty' = open /\ late' \subseteq Ids
    BY <1>1, EchoIs DEF Arrive, Changed, Came, IInv, TypeOK
  <2> QED BY <1>1, <2>1, ArriveKeeps, StoreTyped DEF IInv, TypeOK
<1>2. ASSUME NEW r \in rows, Decrypt(r) PROVE IInv'
  <2>1. /\ UNCHANGED <<server, sends, seen, faults>> /\ dirty' = open /\ late' \subseteq Ids
    BY <1>2 DEF Decrypt, Changed, IInv, TypeOK
  <2> QED BY <1>2, <2>1, DecryptKeeps, StoreTyped DEF IInv, TypeOK
<1>3. ASSUME NEW m \in Sends, QueueSend(m) PROVE IInv'
  <2>1. /\ UNCHANGED <<server, faults>> /\ dirty' = open /\ late' \subseteq Ids
    BY <1>3, EchoIs DEF QueueSend, Changed, Came, IInv, TypeOK
  <2>2. /\ sends' \in [Sends -> {"none", "queued", "acked", "rejected"}]
        /\ seen' \in [Sends -> SUBSET Events]
    BY <1>3 DEF QueueSend, IInv, TypeOK
  <2> QED BY <1>3, <2>1, <2>2, QueueSendKeeps, StoreTyped
<1>4. ASSUME NEW m \in Sends, ResolveSend(m) PROVE IInv'
  <2>1. /\ UNCHANGED <<server, seen, faults>> /\ dirty' = open /\ late' \subseteq Ids
    BY <1>4, EchoIs, EventIs DEF ResolveSend, EventsOf, Changed, Came, IInv, TypeOK
  <2>2. sends' \in [Sends -> {"none", "queued", "acked", "rejected"}]
    BY <1>4 DEF ResolveSend, IInv, TypeOK
  <2> QED BY <1>4, <2>1, <2>2, ResolveSendKeeps, StoreTyped DEF IInv, TypeOK
<1>5. ASSUME NEW m \in Sends, FailSend(m) PROVE IInv'
  <2>1. /\ UNCHANGED <<server, seen, faults>> /\ dirty' = open /\ late' \subseteq Ids
    BY <1>5 DEF FailSend, Changed, IInv, TypeOK
  <2>2. sends' \in [Sends -> {"none", "queued", "acked", "rejected"}]
    BY <1>5 DEF FailSend, IInv, TypeOK
  <2> QED BY <1>5, <2>1, <2>2, FailSendKeeps, StoreTyped DEF IInv, TypeOK
<1> QED BY <1>1, <1>2, <1>3, <1>4, <1>5 DEF StoreStep

------------------------------------------------------------------------------
\* Steps of the view-model.

\* While rows stay, copies may be dropped, or made of them.
LEMMA ViewKeeps ==
  ASSUME IInv, UNCHANGED <<server, rows, sends, seen>>, Copies' \subseteq Copies \cup rows,
         \A t \in Tasks : OnePerId(reads'[t].page)
  PROVE  Stored' /\ Copied' /\ Placed'
<1>1. \A m \in Sends : EventsOf(m)' = EventsOf(m)
  BY DEF EventsOf
<1>2. Stored'
  <2>1. IdsOf(Copies') \subseteq IdsOf(Copies) \cup IdsOf(rows)
    BY DEF IdsOf
  <2> QED BY <1>1, <2>1 DEF IInv, Stored, Echo, Events, Sends
<1>3. Copied'
  <2>1. \A c \in rows, d \in rows : c.id = d.id => c.depth = d.depth
    BY DEF IInv, TypeOK, OnePerId
  <2>2. ASSUME NEW c \in Copies', NEW d \in Copies' \cup rows, c.id = d.id PROVE c.depth = d.depth
    <3>1. CASE c \in Copies
      BY <2>2, <3>1 DEF IInv, Copied
    <3>2. CASE c \in rows /\ d \in Copies
      BY <2>2, <3>2 DEF IInv, Copied
    <3>3. CASE c \in rows /\ d \in rows
      BY <2>1, <2>2, <3>3
    <3> QED BY <2>2, <3>1, <3>2, <3>3
  <2>3. \A c \in Copies' : c.look \in {"shown", "failed"} => c \in rows
    BY DEF IInv, Copied
  <2>4. \A c \in Copies' : c.id \in Events => c.id \in IdsOf(rows)
    BY DEF IInv, Copied, IdsOf
  <2> QED BY <2>2, <2>3, <2>4 DEF Copied, Events
<1>4. Placed'
  BY <1>1 DEF IInv, Placed, RepliesFollow, AsServed, Astray, Echo, Sends
<1> QED BY <1>2, <1>3, <1>4

\* A page that is read is part of the store.
LEMMA ReadKeeps ==
  ASSUME IInv, NEW t \in Tasks, NEW kind \in {"newest", "older"}, NEW s, s \subseteq rows,
         Reads(t, kind, NewestOf(s)),
         UNCHANGED <<server, rows, sends, seen, open, screen, loading, atTop, late, faults>>,
         dirty' \in BOOLEAN, open,
         kind = "newest" => Whole(NewestOf(s)),
         kind = "older" => \E depth \in Depths(screen) : WholeBelow(depth, NewestOf(s))
  PROVE  IInv'
<1> DEFINE p == NewestOf(s)
<1>1. p \subseteq rows /\ OnePerId(p)
  <2>1. s \subseteq Rows /\ OnePerId(s)
    BY DEF IInv, TypeOK, OnePerId
  <2>2. p \subseteq s
    BY <2>1, PageIsTop
  <2> QED BY <2>1, <2>2 DEF OnePerId
<1>2. /\ reads' = [reads EXCEPT ![t] = [kind |-> kind, page |-> p]]
      /\ reads[t] = NoRead
  BY DEF Reads
<1> HIDE DEF p
<1>3. reads \in [Tasks -> [kind : {"none", "newest", "older"}, page : SUBSET Rows]]
  BY DEF IInv, TypeOK
<1>4. /\ reads'[t].kind = kind /\ reads'[t].page = p
      /\ \A u \in Tasks : u # t => reads'[u] = reads[u]
  BY <1>2, <1>3
<1>5. TypeOK'
  <2>1. [kind |-> kind, page |-> p] \in [kind : {"none", "newest", "older"}, page : SUBSET Rows]
    BY <1>1 DEF IInv, TypeOK
  <2>2. reads' \in [Tasks -> [kind : {"none", "newest", "older"}, page : SUBSET Rows]]
    BY <1>2, <1>3, <2>1
  <2> QED BY <2>2 DEF IInv, TypeOK, Rows, OnePerId
<1>6. Copies' \subseteq Copies \cup rows
  BY <1>1, <1>4 DEF Copies
<1>7. \A u \in Tasks : OnePerId(reads'[u].page)
  BY <1>1, <1>4 DEF IInv, Copied
<1>8. Stored' /\ Copied' /\ Placed'
  BY <1>6, <1>7, ViewKeeps
<1>9. Paged'
  <2>1. \A u \in Tasks : reads'[u].kind = "newest" => Whole(reads'[u].page)
    BY <1>4 DEF IInv, Paged, p
  <2>2. \A u \in Tasks : reads'[u].kind = "older" =>
          \E depth \in Depths(screen) : WholeBelow(depth, reads'[u].page)
    BY <1>4 DEF IInv, Paged, p
  <2>3. \A u \in Tasks : reads'[u].kind = "none" => reads'[u].page = {}
    BY <1>4 DEF IInv, Paged
  <2> QED BY <2>1, <2>2, <2>3 DEF IInv, Paged, Whole, WholeBelow, Covered
<1> QED BY <1>5, <1>8, <1>9 DEF IInv

\* The newest page has every row above one of its own, but for those of equal depth.
LEMMA RefreshKeeps ==
  ASSUME IInv, NEW t \in Tasks, Refresh(t)
  PROVE  IInv'
<1>1. rows \subseteq Rows /\ OnePerId(rows)
  BY DEF IInv, TypeOK
<1>2. Whole(NewestOf(rows))
  BY <1>1, PageIsTop DEF Whole, Covered, IdsOf
<1>3. /\ Reads(t, "newest", NewestOf(rows)) /\ open /\ dirty' \in BOOLEAN
      /\ UNCHANGED <<server, rows, sends, seen, open, screen, loading, atTop, late, faults>>
  BY DEF Refresh, data
<1> QED BY <1>2, <1>3, ReadKeeps

\* So has the page before the screen, of the rows before the screen.
LEMMA LoadOlderKeeps ==
  ASSUME IInv, NEW t \in Tasks, LoadOlder(t)
  PROVE  IInv'
<1>1. PICK oldest \in screen : Reads(t, "older", NewestOf(Before(oldest.depth)))
  BY DEF LoadOlder
<1> DEFINE s == Before(oldest.depth)
<1>2. s \subseteq rows /\ s \subseteq Rows /\ OnePerId(s)
  BY DEF IInv, TypeOK, Before, OnePerId
<1>3. oldest.depth \in Depths(screen)
  BY DEF Depths
<1>4. WholeBelow(oldest.depth, NewestOf(s))
  <2> SUFFICES ASSUME NEW r \in rows, r.depth < oldest.depth,
                      NewestOf(s) = {} \/ \E c \in NewestOf(s) : r.depth > c.depth
               PROVE  r \in NewestOf(s)
    BY DEF WholeBelow, Covered, IdsOf
  <2>1. r \in s
    BY DEF Before
  <2> HIDE DEF s
  <2> QED BY <1>2, <2>1, PageIsTop
<1>5. /\ open /\ dirty' \in BOOLEAN
      /\ UNCHANGED <<server, rows, sends, seen, open, screen, loading, atTop, late, faults>>
  BY Zenon DEF LoadOlder, data, IInv, TypeOK
<1> HIDE DEF s
<1> QED BY <1>1, <1>2, <1>3, <1>4, <1>5, ReadKeeps DEF s

\* A read that ends leaves the others.
LEMMA EndsIs ==
  ASSUME IInv, NEW t \in Tasks, reads' = [reads EXCEPT ![t] = NoRead]
  PROVE  /\ reads' \in [Tasks -> [kind : {"none", "newest", "older"}, page : SUBSET Rows]]
         /\ reads'[t].kind = "none" /\ reads'[t].page = {}
         /\ \A u \in Tasks : u # t => reads'[u] = reads[u]
<1>1. reads \in [Tasks -> [kind : {"none", "newest", "older"}, page : SUBSET Rows]]
  BY DEF IInv, TypeOK
<1>2. NoRead \in [kind : {"none", "newest", "older"}, page : SUBSET Rows]
  BY DEF NoRead
<1> QED BY <1>1, <1>2 DEF NoRead

\* The screen is merged with the page of the read that ends; t's page or an empty one is p.
LEMMA MergedKeeps ==
  ASSUME IInv, NEW t \in Tasks, reads[t].kind # "none",
         NEW p, p \in {reads[t].page, {}},
         screen' = Merge(screen, p) \/ screen' = Merge(p, screen),
         reads' = [reads EXCEPT ![t] = NoRead],
         UNCHANGED <<server, rows, sends, seen, open, dirty, late>>,
         loading' \in BOOLEAN, atTop' \in BOOLEAN, faults' \in 0..MaxFaults,
         \A r \in rows, c \in p : r.depth > c.depth => Covered(r, p) \/ Covered(r, screen),
         atTop' => \A r \in rows : Covered(r, screen)
  PROVE  IInv'
<1>1. /\ reads' \in [Tasks -> [kind : {"none", "newest", "older"}, page : SUBSET Rows]]
      /\ reads'[t].kind = "none" /\ reads'[t].page = {}
      /\ \A u \in Tasks : u # t => reads'[u] = reads[u]
  BY EndsIs
<1>2. p \subseteq Copies /\ screen \subseteq Copies /\ p \subseteq Rows /\ screen \subseteq Rows
  BY DEF Copies, IInv, TypeOK
<1>3. OnePerId(p) /\ OnePerId(screen)
  BY DEF IInv, TypeOK, Copied, OnePerId
<1>4. \A c, d \in Copies : c.id = d.id => c.depth = d.depth
  BY DEF IInv, Copied
<1>5. /\ screen' \subseteq screen \cup p
      /\ IdsOf(screen') = IdsOf(screen) \cup IdsOf(p)
      /\ Depths(screen') = Depths(screen) \cup Depths(p)
      /\ OnePerId(screen')
  <2>1. /\ \A c \in screen, d \in p : c.id = d.id => c.depth = d.depth
        /\ \A c \in p, d \in screen : c.id = d.id => c.depth = d.depth
    BY <1>2, <1>4
  <2>2. CASE screen' = Merge(screen, p)
    BY <1>2, <1>3, <2>1, <2>2, MergeIs
  <2>3. CASE screen' = Merge(p, screen)
    BY <1>2, <1>3, <2>1, <2>3, MergeIs
  <2> QED BY <2>2, <2>3
<1>6. open
  BY DEF IInv, Paged
<1>7. TypeOK'
  <2>1. open' \in BOOLEAN /\ dirty' \in BOOLEAN
    BY Zenon DEF IInv, TypeOK
  <2> QED BY <1>1, <1>2, <1>5, <2>1 DEF IInv, TypeOK, Rows, OnePerId
<1>8. Copies' \subseteq Copies \cup rows
  BY <1>1, <1>2, <1>5 DEF Copies
<1>9. Stored' /\ Copied' /\ Placed'
  <2>1. \A u \in Tasks : OnePerId(reads'[u].page)
    BY <1>1 DEF IInv, Copied, OnePerId
  <2> QED BY <1>8, <2>1, ViewKeeps
<1>10. \A r \in rows : Covered(r, screen) \/ Covered(r, p) =>
         r.id \in late \cup IdsOf(screen') \/ r.depth \in Depths(screen')
  BY <1>5 DEF Covered
<1>11. Paged'
  <2>1. \A r \in rows, c \in screen' :
          r.depth > c.depth => r.id \in late \cup IdsOf(screen') \/ r.depth \in Depths(screen')
    BY <1>5, <1>10 DEF IInv, Paged, Whole
  <2>2. \A u \in Tasks : reads'[u].kind = "newest" => Whole(reads'[u].page)
    BY <1>1 DEF IInv, Paged
  <2>3. \A u \in Tasks : reads'[u].kind = "older" =>
          \E depth \in Depths(screen') : WholeBelow(depth, reads'[u].page)
    BY <1>1, <1>5 DEF IInv, Paged
  <2>4. \A u \in Tasks : reads'[u].kind = "none" => reads'[u].page = {}
    BY <1>1 DEF IInv, Paged
  <2>5. atTop' => \A r \in rows : r.id \in late \cup IdsOf(screen') \/ r.depth \in Depths(screen')
    BY <1>10
  <2> QED BY <1>6, <2>1, <2>2, <2>3, <2>4, <2>5 DEF Paged, Whole, WholeBelow, Covered, IdsOf, Depths
<1> QED BY <1>7, <1>9, <1>11 DEF IInv

\* Merging a newest page: of two sets that have what is above their own rows, so has the union.
LEMMA ShowNewestKeeps ==
  ASSUME IInv, NEW t \in Tasks, ShowNewest(t)
  PROVE  IInv'
<1>1. /\ reads[t].kind = "newest" /\ reads' = [reads EXCEPT ![t] = NoRead]
      /\ screen' = Merge(screen, reads[t].page) /\ atTop' = atTop
      /\ UNCHANGED <<server, rows, sends, seen, open, dirty, late, faults>>
  BY DEF ShowNewest, Ends, data
<1>2. loading' \in BOOLEAN /\ atTop' \in BOOLEAN
  BY Zenon DEF ShowNewest, IInv, TypeOK
<1>3. \A r \in rows, c \in reads[t].page : r.depth > c.depth => Covered(r, reads[t].page)
  BY <1>1 DEF IInv, Paged, Whole
<1>4. atTop' => \A r \in rows : Covered(r, screen)
  BY <1>1 DEF IInv, Paged
<1>5. faults' \in 0..MaxFaults
  BY <1>1 DEF IInv, TypeOK
<1> QED BY <1>1, <1>2, <1>3, <1>4, <1>5, MergedKeeps

\* Merging an older page: it has what is between its rows and the screen; if empty, nothing is.
LEMMA ShowOlderKeeps ==
  ASSUME IInv, NEW t \in Tasks, ShowOlder(t)
  PROVE  IInv'
<1> DEFINE p == reads[t].page
<1>1. /\ reads[t].kind = "older" /\ reads' = [reads EXCEPT ![t] = NoRead]
      /\ UNCHANGED <<server, rows, sends, seen, open, dirty, late, faults, loading>>
  BY DEF ShowOlder, Ends, data
<1>2. PICK depth \in Depths(screen) : WholeBelow(depth, p)
  BY <1>1 DEF IInv, Paged
<1>3. depth \in Nat /\ \A r \in rows : r.depth \in Nat
  BY RowIs DEF IInv, TypeOK, Depths
<1>4. \A r \in rows : r.depth >= depth => Covered(r, screen)
  <2>1. PICK c \in screen : c.depth = depth
    BY DEF Depths
  <2> QED BY <1>3, <2>1 DEF IInv, Paged, Whole, Covered, Depths
<1>5. loading' \in BOOLEAN /\ atTop' \in BOOLEAN
  BY Zenon, <1>1 DEF ShowOlder, IInv, TypeOK
<1>6. faults' \in 0..MaxFaults
  BY <1>1 DEF IInv, TypeOK
<1>7. CASE p = {}
  <2>1. \A r \in rows : Covered(r, screen)
    BY <1>2, <1>3, <1>4, <1>7 DEF WholeBelow, Covered, IdsOf, Depths
  <2>2. screen' = Merge(screen, {})
    BY <1>7 DEF ShowOlder, Merge
  <2> QED BY <1>1, <1>5, <1>6, <2>1, <2>2, MergedKeeps
<1>8. CASE p # {}
  <2>1. screen' = Merge(p, screen) /\ atTop' = atTop
    BY <1>8 DEF ShowOlder
  <2>2. \A r \in rows, c \in p : r.depth > c.depth => Covered(r, p) \/ Covered(r, screen)
    BY <1>2, <1>3, <1>4 DEF WholeBelow
  <2>3. atTop' => \A r \in rows : Covered(r, screen)
    BY <2>1 DEF IInv, Paged
  <2> QED BY <1>1, <1>5, <1>6, <2>1, <2>2, <2>3, MergedKeeps
<1> QED BY <1>7, <1>8

\* A read that fails leaves no page.
LEMMA ReadFailsKeeps ==
  ASSUME IInv, NEW t \in Tasks, ReadFails(t)
  PROVE  IInv'
<1>1. /\ reads[t] # NoRead /\ reads' = [reads EXCEPT ![t] = NoRead]
      /\ UNCHANGED <<server, rows, sends, seen, open, dirty, late, screen, atTop>>
  BY DEF ReadFails, data
<1>2. reads[t].kind # "none"
  <2>1. reads[t] \in [kind : {"none", "newest", "older"}, page : SUBSET Rows]
    BY DEF IInv, TypeOK
  <2>2. reads[t].kind = "none" => reads[t].page = {}
    BY DEF IInv, Paged
  <2> QED BY <1>1, <2>1, <2>2 DEF NoRead
<1>3. loading' \in BOOLEAN /\ atTop' \in BOOLEAN
  <2>1. atTop' \in BOOLEAN
    BY Zenon, <1>1 DEF IInv, TypeOK
  <2>2. loading' \in BOOLEAN
    BY DEF ReadFails
  <2> QED BY <2>1, <2>2
<1>4. screen' = Merge(screen, {}) /\ \A r \in rows, c \in {} : Covered(r, {}) \/ Covered(r, screen)
  BY <1>1 DEF Merge
<1>5. atTop' => \A r \in rows : Covered(r, screen)
  BY <1>1 DEF IInv, Paged
<1>6. faults' \in 0..MaxFaults
  BY ChatBounds DEF ReadFails, IInv, TypeOK
<1> QED BY <1>1, <1>2, <1>3, <1>4, <1>5, <1>6, MergedKeeps

\* A new view-model has an empty screen.
LEMMA OpenKeeps ==
  ASSUME IInv, Open
  PROVE  IInv'
<1>1. UNCHANGED <<server, rows, sends, seen, screen, loading, atTop, reads, late, faults>>
  BY DEF Open, data
<1>2. ~open /\ open' = TRUE /\ dirty' = TRUE
  BY DEF Open
<1>3. TypeOK'
  <2>1. open' \in BOOLEAN /\ dirty' \in BOOLEAN
    BY <1>2
  <2> QED BY <1>1, <2>1 DEF IInv, TypeOK, Rows, OnePerId
<1>4. Copies' = Copies
  BY <1>1 DEF Copies
<1>5. Stored' /\ Copied' /\ Placed'
  BY <1>1, <1>4, ViewKeeps DEF IInv, Copied
<1>6. Paged'
  BY <1>1, <1>2 DEF IInv, Paged, Whole, WholeBelow, Covered
<1> QED BY <1>3, <1>5, <1>6 DEF IInv

\* And an old one leaves nothing.
LEMMA CloseKeeps ==
  ASSUME IInv, Close
  PROVE  IInv'
<1>1. /\ UNCHANGED <<server, rows, sends, seen, faults>>
      /\ screen' = {} /\ late' = {} /\ reads' = [t \in Tasks |-> NoRead]
  BY DEF Close, data
<1>2. open' = FALSE /\ dirty' = FALSE /\ loading' = TRUE /\ atTop' = FALSE
  BY DEF Close
<1>3. \A t \in Tasks : reads'[t].kind = "none" /\ reads'[t].page = {}
  BY <1>1 DEF NoRead
<1>4. TypeOK'
  <2>1. open' \in BOOLEAN /\ dirty' \in BOOLEAN /\ loading' \in BOOLEAN /\ atTop' \in BOOLEAN
    BY <1>2
  <2>2. reads' \in [Tasks -> [kind : {"none", "newest", "older"}, page : SUBSET Rows]]
    BY <1>1 DEF NoRead
  <2> QED BY <1>1, <2>1, <2>2 DEF IInv, TypeOK, Rows, OnePerId
<1>5. Copies' \subseteq Copies \cup rows
  BY <1>1, <1>3 DEF Copies
<1>6. Stored' /\ Copied' /\ Placed'
  BY <1>1, <1>3, <1>5, ViewKeeps DEF OnePerId
<1>7. Paged'
  BY <1>1, <1>2, <1>3 DEF Paged, Whole, Depths
<1> QED BY <1>4, <1>6, <1>7 DEF IInv

------------------------------------------------------------------------------
\* The inductive invariant holds in every run.
THEOREM Invariance == Spec => []IInv
<1>1. Init => IInv
  <2> SUFFICES ASSUME Init PROVE IInv
    OBVIOUS
  <2>1. /\ rows = {} /\ screen = {} /\ late = {} /\ server = <<>>
        /\ open = FALSE /\ loading = TRUE /\ atTop = FALSE /\ dirty = FALSE
        /\ reads = [t \in Tasks |-> NoRead]
        /\ sends = [m \in Sends |-> "none"] /\ seen = [m \in Sends |-> {}]
    BY DEF Init
  <2>2. \A t \in Tasks : reads[t].kind = "none" /\ reads[t].page = {}
    BY <2>1 DEF NoRead
  <2>3. Copies = {} /\ \A m \in Sends : EventsOf(m) = {}
    BY <2>1, <2>2, EmptySeq DEF Copies, EventsOf
  <2>4. TypeOK
    <3>1. reads \in [Tasks -> [kind : {"none", "newest", "older"}, page : SUBSET Rows]]
      BY <2>1 DEF NoRead
    <3>2. open \in BOOLEAN /\ loading \in BOOLEAN /\ atTop \in BOOLEAN /\ dirty \in BOOLEAN
      BY <2>1
    <3>3. server \in Seq([depth : Nat, from : {0} \cup Sends]) /\ Len(server) <= MaxEvents
      BY <2>1, EmptySeq, ChatBounds
    <3>4. faults \in 0..MaxFaults
      BY ChatBounds DEF Init
    <3> QED BY <2>1, <3>1, <3>2, <3>3, <3>4 DEF TypeOK, OnePerId
  <2>5. Stored /\ Copied /\ Placed
    BY <2>1, <2>2, <2>3 DEF Stored, Copied, Placed, RepliesFollow, OnePerId, IdsOf
  <2>6. Paged
    BY <2>1, <2>2 DEF Paged, Whole
  <2> QED BY <2>4, <2>5, <2>6 DEF IInv
<1>2. IInv /\ [Next]_vars => IInv'
  <2> SUFFICES ASSUME IInv, [Next]_vars PROVE IInv'
    OBVIOUS
  <2>1. CASE UNCHANGED vars
    <3>1. /\ UNCHANGED <<server, rows, sends, seen, open, screen, loading, atTop, reads>>
          /\ UNCHANGED <<dirty, late, faults>>
      BY <2>1 DEF vars, data, view
    <3>2. Copies' = Copies
      BY <3>1 DEF Copies
    <3>3. Stored' /\ Copied' /\ Placed'
      BY <3>1, <3>2, ViewKeeps DEF IInv, Copied
    <3>4. TypeOK' /\ Paged'
      BY <3>1 DEF IInv, TypeOK, Paged, Whole, WholeBelow, Covered, Rows, OnePerId
    <3> QED BY <3>3, <3>4 DEF IInv
  <2> QED
    BY <2>1, CreateKeeps, AcceptKeeps, StoreKeeps, OpenKeeps, CloseKeeps, RefreshKeeps,
       ShowNewestKeeps, ShowOlderKeeps, LoadOlderKeeps, ReadFailsKeeps
    DEF Next, ReadStep
<1> QED BY <1>1, <1>2, PTL DEF Spec

\* Every state has its types; no set of rows has two of one id.
THEOREM Typed == Spec => []TypeOK
<1>1. IInv => TypeOK
  BY DEF IInv
<1> QED BY <1>1, Invariance, PTL

\* What the screen shows in its final form is what the store has.
THEOREM FinalStays == Spec => []ConfirmedStays
<1>1. IInv => ConfirmedStays
  BY DEF IInv, Copied, Copies, ConfirmedStays
<1> QED BY <1>1, Invariance, PTL

\* Whatever order acks, /sync and rejections come in, a message stays below every event that was
\* in the store when it was written; but not always, as /sync delivers it, below a message of
\* ours that was promoted at a depth of its own (store.rs, resolve_send).
THEOREM AnswersFollow == Spec => []RepliesFollow
<1>1. IInv => RepliesFollow
  BY DEF IInv, Placed
<1> QED BY <1>1, Invariance, PTL

\* Paging back misses no row that was there, but for rows of equal depth.
THEOREM NothingMissing == Spec => []PagesCover
<1>1. IInv => PagesCover
  BY DEF IInv, Paged, Covered, PagesCover
<1> QED BY <1>1, Invariance, PTL

------------------------------------------------------------------------------
(* The screen has the newest page of the store when there is nothing left to read. *)

\* The latest change is on the screen, or a read under way has it.
NewestRead ==
  open /\ ~dirty /\ faults = 0 =>
    \A i \in IdsOf(NewestOf(rows)) :
      i \in IdsOf(screen) \/ \E t \in Tasks : reads[t].kind = "newest" /\ i \in IdsOf(reads[t].page)

\* What Shows promises in the end, of the states that have got there.
NewestShown ==
  open /\ ~dirty /\ faults = 0 /\ (\A t \in Tasks : reads[t].kind # "newest") =>
    IdsOf(NewestOf(rows)) \subseteq IdsOf(screen)

\* A step of the store asks for another read.
LEMMA StoreAsks == StoreStep => dirty' = open /\ open' = open
BY DEF StoreStep, Arrive, Decrypt, QueueSend, ResolveSend, FailSend, Changed, view

\* Of the ids that are on the screen or on a newest page, merging a page loses none.
LEMMA MergeShows ==
  ASSUME IInv, NEW t \in Tasks, ShowNewest(t) \/ ShowOlder(t),
         NEW i, \/ i \in IdsOf(screen)
                \/ \E u \in Tasks : reads[u].kind = "newest" /\ i \in IdsOf(reads[u].page)
  PROVE  \/ i \in IdsOf(screen')
         \/ \E u \in Tasks : reads'[u].kind = "newest" /\ i \in IdsOf(reads'[u].page)
<1> DEFINE p == reads[t].page
<1>1. /\ p \subseteq Rows /\ screen \subseteq Rows
      /\ \A c \in screen \cup p, d \in screen \cup p : c.id = d.id => c.depth = d.depth
  BY DEF IInv, TypeOK, Copied, Copies
<1>2. \A u \in Tasks : u # t => reads'[u] = reads[u]
  BY EndsIs DEF ShowNewest, ShowOlder, Ends
<1>3. CASE ShowNewest(t)
  <2>1. IdsOf(screen') = IdsOf(screen) \cup IdsOf(p)
    BY <1>1, <1>3, MergeIs DEF ShowNewest
  <2> QED BY <1>2, <2>1
<1>4. CASE ShowOlder(t)
  <2>1. reads[t].kind = "older"
    BY <1>4 DEF ShowOlder, Ends
  <2>2. screen' = screen \/ IdsOf(screen') = IdsOf(p) \cup IdsOf(screen)
    BY <1>1, <1>4, MergeIs DEF ShowOlder
  <2> QED BY <1>2, <2>1, <2>2
<1> QED BY <1>3, <1>4

\* A step loses no change that the screen has not seen.
LEMMA NewestKept == IInv /\ NewestRead /\ [Next]_vars => NewestRead'
<1> SUFFICES ASSUME IInv, NewestRead, [Next]_vars, open', ~dirty', faults' = 0,
                    NEW i \in IdsOf(NewestOf(rows'))
             PROVE  \/ i \in IdsOf(screen')
                    \/ \E t \in Tasks : reads'[t].kind = "newest" /\ i \in IdsOf(reads'[t].page)
  BY DEF NewestRead, IdsOf, NewestOf, Newer
<1> DEFINE Seen == \/ i \in IdsOf(screen')
                   \/ \E t \in Tasks : reads'[t].kind = "newest" /\ i \in IdsOf(reads'[t].page)
<1>1. ASSUME UNCHANGED <<rows, open, dirty, faults>>
      PROVE  \/ i \in IdsOf(screen)
             \/ \E t \in Tasks : reads[t].kind = "newest" /\ i \in IdsOf(reads[t].page)
  BY <1>1 DEF NewestRead
<1>2. CASE StoreStep \/ Open \/ Close
  <2>1. dirty' = open' \/ dirty' = TRUE \/ ~open'
    BY <1>2, StoreAsks, Zenon DEF Open, Close
  <2> QED BY <2>1, Zenon
<1>3. CASE UNCHANGED vars \/ (\E d \in 1..MaxEvents : Create(d)) \/ (\E m \in Sends : Accept(m))
  <2>1. UNCHANGED <<rows, open, dirty, faults, screen, reads>>
    BY <1>3 DEF vars, data, view, Create, Accept
  <2> QED BY <1>1, <2>1
<1>4. ASSUME NEW t \in Tasks, ShowNewest(t) \/ ShowOlder(t) PROVE Seen
  <2>1. UNCHANGED <<rows, open, dirty, faults>>
    BY <1>4 DEF ShowNewest, ShowOlder, Ends, data
  <2> QED BY <1>1, <1>4, <2>1, MergeShows
<1>5. reads \in [Tasks -> [kind : {"none", "newest", "older"}, page : SUBSET Rows]]
  BY DEF IInv, TypeOK
<1>6. ASSUME NEW t \in Tasks, Refresh(t) PROVE Seen
  <2>1. reads'[t].kind = "newest" /\ reads'[t].page = NewestOf(rows) /\ rows' = rows
    BY <1>5, <1>6 DEF Refresh, Reads, data
  <2> QED BY <2>1
<1>7. ASSUME NEW t \in Tasks, LoadOlder(t) PROVE Seen
  <2>1. UNCHANGED <<rows, open, dirty, faults, screen>>
    BY <1>7 DEF LoadOlder, data
  <2>2. reads[t].kind # "newest" /\ \A u \in Tasks : u # t => reads'[u] = reads[u]
    BY <1>5, <1>7 DEF LoadOlder, Reads, NoRead
  <2> QED BY <1>1, <2>1, <2>2
<1>8. ASSUME NEW t \in Tasks, ReadFails(t) PROVE FALSE
  BY <1>8 DEF ReadFails, IInv, TypeOK
<1> QED BY <1>2, <1>3, <1>4, <1>6, <1>7, <1>8 DEF Next, ReadStep

\* refresh: reads may overlap and end in any order, but when none is left and no change is
\* waiting, every event of the store's newest page is on the screen; reads that failed excepted.
THEOREM NothingUnseen == Spec => []NewestShown
<1>1. Init => NewestRead
  BY DEF Init, NewestRead
<1>2. NewestRead => NewestShown
  BY DEF NewestRead, NewestShown
<1> QED BY <1>1, <1>2, NewestKept, Invariance, PTL DEF Spec

------------------------------------------------------------------------------
(* What is still shown as being sent.                                              *)

HasEcho(m, look) == \E r \in rows : r.id = Echo(m) /\ r.look = look
HasEvent(m) == \E e \in EventsOf(m) : e \in IdsOf(rows)

\* The store never drops a message: it has the echo as long as there is no verdict and when
\* that is failure, and the event after an ack.
SentIsStored == \A m \in Sends :
  /\ sends[m] = "queued" => HasEcho(m, "sending")
  /\ sends[m] = "rejected" => HasEcho(m, "failed")
  /\ sends[m] = "acked" => HasEvent(m)

\* A message shown as being sent is that, or the store has its verdict, and the row to show
\* in its place.
StaleIsDecided == \A c \in screen : c.look = "sending" =>
  \E m \in Sends :
    /\ c.id = Echo(m)
    /\ \/ sends[m] = "queued" /\ c \in rows
       \/ /\ sends[m] = "rejected"
          /\ \E r \in rows : r.id = c.id /\ r.depth = c.depth /\ r.look = "failed"
       \/ sends[m] = "acked" /\ HasEvent(m)

\* A step that keeps message m's rows and verdict.
LEMMA SentKept ==
  ASSUME IInv, SentIsStored, NEW m \in Sends, sends'[m] = sends[m],
         EventsOf(m) \subseteq EventsOf(m)',
         \A r \in rows : r.id = Echo(m) /\ r.look \in {"sending", "failed"} => r \in rows',
         \A r \in rows : r.id \in Events => r.id \in IdsOf(rows')
  PROVE  /\ sends'[m] = "queued" => HasEcho(m, "sending")'
         /\ sends'[m] = "rejected" => HasEcho(m, "failed")'
         /\ sends'[m] = "acked" => HasEvent(m)'
<1>1. \A look \in {"sending", "failed"} :
        HasEcho(m, look) => \E r \in rows' : r.id = Echo(m) /\ r.look = look
  BY DEF HasEcho
<1>2. Echo(m)' = Echo(m)
  BY DEF Echo
<1>3. HasEvent(m) => HasEvent(m)'
  <2>1. EventsOf(m) \subseteq Events
    BY EventIs DEF IInv, EventsOf
  <2> QED BY <2>1 DEF HasEvent, IdsOf
<1> QED BY <1>1, <1>2, <1>3 DEF SentIsStored, HasEcho

\* The store keeps every message through every step.
LEMMA StoredKept == IInv /\ SentIsStored /\ [Next]_vars => SentIsStored'
<1> SUFFICES ASSUME IInv, SentIsStored, [Next]_vars, NEW m \in Sends
             PROVE  /\ sends'[m] = "queued" => HasEcho(m, "sending")'
                    /\ sends'[m] = "rejected" => HasEcho(m, "failed")'
                    /\ sends'[m] = "acked" => HasEvent(m)'
  BY DEF SentIsStored, Sends
<1>0. /\ sends \in [Sends -> {"none", "queued", "acked", "rejected"}]
      /\ rows \subseteq Rows /\ DOMAIN server \subseteq Events
  BY EventIs DEF IInv, TypeOK
<1>1. CASE UNCHANGED <<rows, sends, server>>
  BY <1>1, SentKept DEF EventsOf, IdsOf
<1>3. CASE (\E d \in 1..MaxEvents : Create(d)) \/ (\E n \in Sends : Accept(n))
  <2>1. UNCHANGED <<rows, sends>>
    BY <1>3 DEF Create, Accept
  <2>2. EventsOf(m) \subseteq EventsOf(m)'
    <3>1. server \in Seq([depth : Nat, from : {0} \cup Sends])
      BY DEF IInv, TypeOK
    <3>2. PICK x : server' = Append(server, x)
      BY <1>3 DEF Create, Accept
    <3>3. \A e \in DOMAIN server : e \in DOMAIN server' /\ server'[e] = server[e]
      BY <3>1, <3>2
    <3> QED BY <3>3 DEF EventsOf
  <2> QED BY <2>1, <2>2, SentKept DEF IdsOf
<1>4. ASSUME NEW e \in Events, NEW look \in {"hidden", "shown"}, Arrive(e, look)
      PROVE  rows \subseteq rows' /\ UNCHANGED <<sends, server>>
  BY <1>4 DEF Arrive, Changed
<1>5. CASE \E e \in Events, look \in {"hidden", "shown"} : Arrive(e, look)
  BY <1>4, <1>5, SentKept DEF EventsOf, IdsOf
<1>6. ASSUME NEW r \in rows, Decrypt(r)
      PROVE  /\ \A q \in rows : q # r => q \in rows'
             /\ r.look = "hidden" /\ r.id \in IdsOf(rows') /\ UNCHANGED <<sends, server>>
  <2> DEFINE n == [r EXCEPT !.look = "shown"]
  <2>1. rows' = (rows \ {r}) \cup {n} /\ r.look = "hidden" /\ UNCHANGED <<sends, server>>
    BY <1>6 DEF Decrypt, Changed
  <2>2. n.id = r.id
    BY <1>0, LookIs DEF Looks
  <2> HIDE DEF n
  <2> QED BY <2>1, <2>2 DEF IdsOf
<1>7. CASE \E r \in rows : Decrypt(r)
  BY <1>6, <1>7, SentKept DEF EventsOf, IdsOf
<1>8. ASSUME NEW k \in Sends, QueueSend(k)
      PROVE  /\ rows \subseteq rows' /\ server' = server
             /\ sends' = [sends EXCEPT ![k] = "queued"]
             /\ \E r \in rows' : r.id = Echo(k) /\ r.look = "sending"
  <2> DEFINE n == NewEcho(k, Deepest(Depths(rows)) + 1)
  <2>1. n.id = Echo(k) /\ n.look = "sending"
    BY Zenon DEF NewEcho
  <2>2. rows' = rows \cup {n} /\ server' = server /\ sends' = [sends EXCEPT ![k] = "queued"]
    BY <1>8 DEF QueueSend, Changed
  <2> HIDE DEF n
  <2> QED BY <2>1, <2>2
<1>9. CASE \E k \in Sends : QueueSend(k)
  <2>1. PICK k \in Sends : QueueSend(k)
    BY <1>9
  <2>2. CASE k = m
    <3>1. sends'[m] = "queued"
      BY <1>0, <1>8, <2>1, <2>2
    <3>2. HasEcho(m, "sending")'
      BY <1>8, <2>1, <2>2 DEF HasEcho, Echo
    <3> QED BY <3>1, <3>2
  <2>3. CASE k # m
    <3>1. sends'[m] = sends[m]
      BY <1>0, <1>8, <2>1, <2>3
    <3> QED BY <1>8, <2>1, <3>1, SentKept DEF EventsOf, IdsOf
  <2> QED BY <2>2, <2>3
<1>10. ASSUME NEW k \in Sends, FailSend(k)
      PROVE  /\ \A r \in rows : r.id # Echo(k) => r \in rows'
             /\ \A r \in rows : r.id = Echo(k) =>
                  \E q \in rows' : q.id = Echo(k) /\ q.look = "failed"
             /\ sends[k] = "queued" /\ server' = server
             /\ sends' = [sends EXCEPT ![k] = "rejected"]
  <2>1. rows' = {IF r.id = Echo(k) THEN [r EXCEPT !.look = "failed"] ELSE r : r \in rows}
    BY <1>10 DEF FailSend, Changed
  <2>2. ASSUME NEW r \in rows, r.id = Echo(k)
        PROVE  \E q \in rows' : q.id = Echo(k) /\ q.look = "failed"
    <3> DEFINE q == [r EXCEPT !.look = "failed"]
    <3>1. q.id = r.id /\ q.look = "failed"
      BY <1>0, LookIs DEF Looks
    <3>2. q \in rows'
      BY <2>1, <2>2
    <3> QED BY <2>2, <3>1, <3>2
  <2>3. \A r \in rows : r.id # Echo(k) => r \in rows'
    BY <2>1
  <2> QED BY <1>10, <2>2, <2>3 DEF FailSend
<1>11. CASE \E k \in Sends : FailSend(k)
  <2>1. PICK k \in Sends : FailSend(k)
    BY <1>11
  <2>2. CASE k = m
    <3>1. sends'[m] = "rejected"
      BY <1>0, <1>10, <2>1, <2>2
    <3>2. HasEcho(m, "sending")
      BY <1>10, <2>1, <2>2 DEF SentIsStored
    <3>3. HasEcho(m, "failed")'
      BY <1>10, <2>1, <2>2, <3>2 DEF HasEcho, Echo
    <3> QED BY <3>1, <3>3
  <2>3. CASE k # m
    <3>1. sends'[m] = sends[m] /\ UNCHANGED server
      BY <1>0, <1>10, <2>1, <2>3
    <3>2. \A r \in rows : r.id = Echo(m) \/ r.id \in Events => r \in rows'
      BY <1>10, <2>1, <2>3, EchoIs
    <3> QED BY <3>1, <3>2, SentKept DEF EventsOf, IdsOf
  <2> QED BY <2>2, <2>3
<1>12. ASSUME NEW k \in Sends, ResolveSend(k)
      PROVE  /\ \A r \in rows, n \in Sends : r.id = Echo(n) /\ n # k => r \in rows'
             /\ \A r \in rows : r.id \in Events => r.id \in IdsOf(rows')
             /\ \E e \in EventsOf(k) : e \in IdsOf(rows')
             /\ sends' = [sends EXCEPT ![k] = "acked"] /\ server' = server
  <2>1. PICK e \in EventsOf(k), echo \in rows :
          /\ echo.id = Echo(k)
          /\ sends' = [sends EXCEPT ![k] = "acked"] /\ server' = server
          /\ rows' = IF e \in IdsOf(rows)
                     THEN {IF r.id = e THEN [r EXCEPT !.look = "shown"] ELSE r :
                             r \in rows \ {echo}}
                     ELSE (rows \ {echo}) \cup {[id |-> e, depth |-> echo.depth, look |-> "shown"]}
    BY <1>12 DEF ResolveSend, Changed
  <2>2. e \in Events /\ echo.id \notin Events
    BY <1>0, <2>1, EchoIs DEF EventsOf
  <2>3. CASE e \notin IdsOf(rows)
    <3> DEFINE new == [id |-> e, depth |-> echo.depth, look |-> "shown"]
    <3>1. rows' = (rows \ {echo}) \cup {new} /\ new.id = e
      BY <2>1, <2>3
    <3> HIDE DEF new
    <3>2. e \in IdsOf(rows')
      BY <3>1 DEF IdsOf
    <3>3. \A r \in rows : r # echo => r \in rows'
      BY <3>1
    <3>4. \A r \in rows : r.id \in Events => r.id \in IdsOf(rows')
      BY <2>2, <3>3 DEF IdsOf
    <3>5. \A r \in rows, n \in Sends : r.id = Echo(n) /\ n # k => r \in rows'
      BY <2>1, <3>3, EchoIs
    <3> QED BY <2>1, <3>2, <3>4, <3>5
  <2>4. CASE e \in IdsOf(rows)
    <3>1. rows' = {IF r.id = e THEN [r EXCEPT !.look = "shown"] ELSE r : r \in rows \ {echo}}
      BY <2>1, <2>4
    <3>2. \A r \in rows : r # echo /\ r.id # e => r \in rows'
      BY <3>1
    <3>3. ASSUME NEW r \in rows, r.id = e PROVE e \in IdsOf(rows')
      <4> DEFINE n == [r EXCEPT !.look = "shown"]
      <4>1. n.id = e
        BY <1>0, <3>3, LookIs DEF Looks
      <4>2. n \in rows'
        BY <2>1, <2>2, <3>1, <3>3
      <4> HIDE DEF n
      <4> QED BY <4>1, <4>2 DEF IdsOf
    <3>4. e \in IdsOf(rows')
      BY <2>4, <3>3 DEF IdsOf
    <3>5. \A r \in rows : r.id \in Events => r.id \in IdsOf(rows')
      BY <2>2, <3>2, <3>4 DEF IdsOf
    <3>6. \A r \in rows, n \in Sends : r.id = Echo(n) /\ n # k => r \in rows'
      BY <2>1, <2>2, <3>2, EchoIs
    <3> QED BY <2>1, <3>4, <3>5, <3>6
  <2> QED BY <2>3, <2>4
<1>13. CASE \E k \in Sends : ResolveSend(k)
  <2>1. PICK k \in Sends : ResolveSend(k)
    BY <1>13
  <2>2. CASE k = m
    <3>1. sends'[m] = "acked"
      BY <1>0, <1>12, <2>1, <2>2
    <3>2. HasEvent(m)'
      BY <1>12, <2>1, <2>2 DEF HasEvent, EventsOf, IdsOf
    <3> QED BY <3>1, <3>2
  <2>3. CASE k # m
    <3>1. sends'[m] = sends[m] /\ EventsOf(m)' = EventsOf(m)
      BY <1>0, <1>12, <2>1, <2>3 DEF EventsOf
    <3>2. \A r \in rows : r.id = Echo(m) => r \in rows'
      BY <1>12, <2>1, <2>3
    <3>3. \A r \in rows : r.id \in Events => r.id \in IdsOf(rows')
      BY <1>12, <2>1
    <3> QED BY <3>1, <3>2, <3>3, SentKept
  <2> QED BY <2>2, <2>3
<1>14. CASE StoreStep
  BY <1>5, <1>7, <1>9, <1>11, <1>13, <1>14 DEF StoreStep
<1>15. CASE \/ UNCHANGED vars \/ Open \/ Close
            \/ \E t \in Tasks : ReadStep(t) \/ LoadOlder(t) \/ ReadFails(t)
  BY <1>1, <1>15
  DEF vars, data, Open, Close, ReadStep, Refresh, ShowNewest, ShowOlder, Ends, LoadOlder, ReadFails
<1> QED BY <1>3, <1>14, <1>15 DEF Next

\* Rows are copied as they are, and copies are not changed.
LEMMA CopiesAre ==
  ASSUME IInv, [Next]_vars
  PROVE  Copies' \subseteq Copies \cup rows
<1>0. /\ reads \in [Tasks -> [kind : {"none", "newest", "older"}, page : SUBSET Rows]]
      /\ rows \subseteq Rows /\ screen \subseteq Rows /\ OnePerId(rows)
  BY DEF IInv, TypeOK
<1>1. ASSUME NEW t \in Tasks, NEW s, screen' \subseteq screen \cup reads[t].page,
             s \subseteq rows, reads'[t].page \subseteq s,
             \A u \in Tasks : u # t => reads'[u] = reads[u]
      PROVE  Copies' \subseteq Copies \cup rows
  BY <1>1 DEF Copies
<1>2. ASSUME NEW t \in Tasks, NEW s, s \subseteq rows, NEW kind,
             Reads(t, kind, NewestOf(s)), screen' = screen
      PROVE  Copies' \subseteq Copies \cup rows
  <2>1. NewestOf(s) \subseteq s
    BY DEF NewestOf
  <2>2. reads'[t].page = NewestOf(s) /\ \A u \in Tasks : u # t => reads'[u] = reads[u]
    BY <1>0, <1>2 DEF Reads
  <2> QED BY <1>1, <1>2, <2>1, <2>2
<1>3. ASSUME NEW t \in Tasks, Refresh(t) PROVE Copies' \subseteq Copies \cup rows
  BY <1>2, <1>3 DEF Refresh
<1>4. ASSUME NEW t \in Tasks, LoadOlder(t) PROVE Copies' \subseteq Copies \cup rows
  BY <1>2, <1>4 DEF LoadOlder, Before
<1>5. ASSUME NEW t \in Tasks, ShowNewest(t) \/ ShowOlder(t) \/ ReadFails(t)
      PROVE  Copies' \subseteq Copies \cup rows
  <2>1. /\ reads'[t].page = {} /\ \A u \in Tasks : u # t => reads'[u] = reads[u]
    BY <1>5, EndsIs DEF ShowNewest, ShowOlder, Ends, ReadFails
  <2>2. screen' \subseteq screen \cup reads[t].page
    BY <1>5 DEF ShowNewest, ShowOlder, ReadFails, Merge
  <2> QED BY <1>1, <2>1, <2>2
<1>6. CASE Close
  <2>1. screen' = {} /\ \A t \in Tasks : reads'[t].page = {}
    BY <1>6 DEF Close, NoRead
  <2> QED BY <2>1 DEF Copies
<1>7. CASE UNCHANGED <<screen, reads>>
  BY <1>7 DEF Copies
<1> QED BY <1>3, <1>4, <1>5, <1>6, <1>7
    DEF Next, ReadStep, StoreStep, Create, Accept, Arrive, Decrypt, QueueSend, ResolveSend,
        FailSend, Open, view, vars

\* Only an echo is shown as being sent.
SendingIsEcho == \A c \in Copies : c.look = "sending" => c.id \notin Events

\* A copy stays one of an echo: the store has no event in this form.
LEMMA SendingKept == IInv /\ SendingIsEcho /\ [Next]_vars => SendingIsEcho'
<1> SUFFICES ASSUME IInv, SendingIsEcho, [Next]_vars, NEW c \in Copies', c.look = "sending"
             PROVE  c.id \notin Events
  BY DEF SendingIsEcho, Events
<1>1. c \in Copies \cup rows
  BY CopiesAre
<1> QED BY <1>1 DEF SendingIsEcho, IInv, Stored

\* What stands on the screen as being sent is, or the store knows better.
LEMMA StaleIs == IInv /\ SentIsStored /\ SendingIsEcho => StaleIsDecided
<1> SUFFICES ASSUME IInv, SentIsStored, SendingIsEcho, NEW c \in screen, c.look = "sending"
             PROVE  \E m \in Sends :
                      /\ c.id = Echo(m)
                      /\ \/ sends[m] = "queued" /\ c \in rows
                         \/ /\ sends[m] = "rejected"
                            /\ \E r \in rows : r.id = c.id /\ r.depth = c.depth /\ r.look = "failed"
                         \/ sends[m] = "acked" /\ HasEvent(m)
  BY DEF StaleIsDecided
<1>1. c \in Copies /\ c \in Rows /\ rows \subseteq Rows
  BY DEF Copies, IInv, TypeOK
<1>2. PICK m \in Sends : c.id = Echo(m)
  <2>1. c.id \in Ids /\ c.id \notin Events
    BY <1>1, RowIs DEF SendingIsEcho
  <2>2. c.id - MaxEvents \in Sends /\ c.id = MaxEvents + (c.id - MaxEvents)
    BY <2>1, ChatBounds DEF Ids, Events, Sends
  <2> QED BY <2>2 DEF Echo
<1>3. \A r \in rows : r.id = c.id => r.depth = c.depth
  BY <1>1 DEF IInv, Copied
<1>4. sends[m] \in {"queued", "acked", "rejected"}
  <2>1. sends[m] \in {"none", "queued", "acked", "rejected"}
    BY DEF IInv, TypeOK
  <2>2. sends[m] # "none"
    BY <1>1, <1>2 DEF IInv, Stored, IdsOf
  <2> QED BY <2>1, <2>2
<1>5. sends[m] = "queued" => c \in rows
  <2> SUFFICES ASSUME sends[m] = "queued" PROVE c \in rows
    OBVIOUS
  <2>1. PICK r \in rows : r.id = Echo(m) /\ r.look = "sending"
    BY DEF SentIsStored, HasEcho
  <2>2. r = c
    BY <1>1, <1>2, <1>3, <2>1, RowIs
  <2> QED BY <2>1, <2>2
<1>6. sends[m] = "rejected" =>
        \E r \in rows : r.id = c.id /\ r.depth = c.depth /\ r.look = "failed"
  BY <1>2, <1>3 DEF SentIsStored, HasEcho
<1>7. sends[m] = "acked" => HasEvent(m)
  BY DEF SentIsStored
<1> QED BY <1>2, <1>4, <1>5, <1>6, <1>7

\* queue_send, resolve_send, fail_send: no message is ever without a row, and its row tells
\* what became of it.
THEOREM SentStays == Spec => []SentIsStored
<1>1. Init => SentIsStored
  BY DEF Init, SentIsStored
<1> QED BY <1>1, StoredKept, Invariance, PTL DEF Spec

\* A message that stands on the screen as being sent, and is not, has its verdict in the store:
\* the screen is behind, but nothing is lost.
THEOREM StaleHasVerdict == Spec => []StaleIsDecided
<1>1. Init => SendingIsEcho
  <2> SUFFICES ASSUME Init PROVE Copies = {}
    BY DEF SendingIsEcho
  <2>1. screen = {} /\ \A t \in Tasks : reads[t].page = {}
    BY DEF Init, NoRead
  <2> QED BY <2>1 DEF Copies
<1> QED BY <1>1, SendingKept, StaleIs, SentStays, Invariance, PTL DEF Spec
==============================================================================
