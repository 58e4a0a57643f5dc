-------------------------- MODULE PlaybackQueueProofs --------------------------
(***************************************************************************)
(* The order of the queue, for any number of profiles, items and calls     *)
(* under way.  The argument, in this order:                                *)
(*   - rows are compared by position and then by id, which orders any rows *)
(*     at all, gaps and duplicates included, so that the rank of a row is  *)
(*     one number for each row (RankOnto);                                 *)
(*   - hence normalization and reordering give each row a position of its  *)
(*     own, and normalization keeps the order;                             *)
(*   - a row that is queued is given an id no row had before, or it moves  *)
(*     to the end, and every other step only deletes rows.                 *)
(***************************************************************************)
EXTENDS PlaybackQueue, SequenceTheorems, FiniteSetTheorems, WellFoundedInduction, TLAPS

--------------------------------------------------------------------------------
(* Finite sets of numbers. *)

LEMMA SmallestExists ==
  ASSUME NEW S \in SUBSET Nat, S # {}
  PROVE  \E n \in S : \A m \in S : n <= m
<1>1. IsWellFoundedOn(OpToRel(<, Nat), Nat)
  BY NatLessThanWellFounded
<1>2. PICK n \in S : \A m \in S : ~(<<m, n>> \in OpToRel(<, Nat))
  BY <1>1, WFMin
<1>3. ASSUME NEW m \in S PROVE n <= m
  <2>1. m \in Nat /\ n \in Nat
    OBVIOUS
  <2>2. ~(m < n)
    BY <1>2, <2>1 DEF OpToRel
  <2>. QED  BY <2>1, <2>2
<1>. QED  BY <1>3

LEMMA IdsAreFinite ==
  ASSUME NEW S \in SUBSET Ids
  PROVE  IsFiniteSet(S) /\ Cardinality(S) \in Nat /\ Cardinality(S) <= MaxItems
<1>1. MaxItems \in Nat
  BY QueueAssumption
<1>2. IsFiniteSet(Ids) /\ Cardinality(Ids) = MaxItems
  BY <1>1, FS_Interval DEF Ids
<1>. QED  BY <1>2, FS_Subset, FS_CardinalityType

--------------------------------------------------------------------------------
(* Any rows have an order. *)

\* Rows of a queue, with any positions.
NatRow == [video : Videos, pos : Nat, state : States]
IsQueue(q) == DOMAIN q \subseteq Ids /\ q \in [DOMAIN q -> NatRow]

LEMMA RowsAreQueues ==
  ASSUME NEW q \in Rows
  PROVE  IsQueue(q) /\ q \in [DOMAIN q -> Row]
<1>1. PICK S \in SUBSET Ids : q \in [S -> Row]
  BY DEF Rows
<1>2. Row \subseteq NatRow
  BY QueueAssumption DEF Row, NatRow
<1>. QED  BY <1>1, <1>2 DEF IsQueue

LEMMA QueuesAreRows ==
  ASSUME NEW q, DOMAIN q \subseteq Ids, q \in [DOMAIN q -> Row]
  PROVE  q \in Rows
BY DEF Rows

LEMMA BeforeIsOrder ==
  ASSUME NEW q, IsQueue(q), NEW i \in DOMAIN q, NEW j \in DOMAIN q, NEW k \in DOMAIN q
  PROVE  /\ ~Before(q, i, i)
         /\ Before(q, i, j) => ~Before(q, j, i)
         /\ i # j => Before(q, i, j) \/ Before(q, j, i)
         /\ Before(q, i, j) /\ Before(q, j, k) => Before(q, i, k)
<1>1. i \in Nat /\ j \in Nat /\ k \in Nat /\ q[i].pos \in Nat /\ q[j].pos \in Nat /\ q[k].pos \in Nat
  BY DEF IsQueue, NatRow, Ids
<1>. QED  BY <1>1 DEF Before

\* The rows before i.
Earlier(q, i) == {j \in DOMAIN q : Before(q, j, i)}

LEMMA RankType ==
  ASSUME NEW q, IsQueue(q), NEW i \in DOMAIN q
  PROVE  /\ Rank(q, i) = Cardinality(Earlier(q, i))
         /\ Rank(q, i) \in 0..Cardinality(DOMAIN q) - 1
         /\ Cardinality(DOMAIN q) \in Nat /\ Cardinality(DOMAIN q) <= MaxItems /\ MaxItems \in Nat
<1>1. Rank(q, i) = Cardinality(Earlier(q, i))
  BY DEF Rank, Earlier
<1>2. IsFiniteSet(DOMAIN q) /\ Cardinality(DOMAIN q) \in Nat /\ Cardinality(DOMAIN q) <= MaxItems
  BY IdsAreFinite DEF IsQueue
<1>3. Earlier(q, i) \in SUBSET (DOMAIN q) /\ i \notin Earlier(q, i)
  BY BeforeIsOrder DEF Earlier
<1>4. /\ IsFiniteSet(Earlier(q, i)) /\ Cardinality(Earlier(q, i)) <= Cardinality(DOMAIN q)
      /\ Cardinality(Earlier(q, i)) # Cardinality(DOMAIN q)
  BY <1>2, <1>3, FS_Subset
<1>5. Cardinality(Earlier(q, i)) \in Nat
  BY <1>4, FS_CardinalityType
<1>. QED  BY <1>1, <1>2, <1>4, <1>5, QueueAssumption

LEMMA RankOrders ==
  ASSUME NEW q, IsQueue(q), NEW i \in DOMAIN q, NEW j \in DOMAIN q
  PROVE  /\ Rank(q, i) < Rank(q, j) <=> Before(q, i, j)
         /\ Rank(q, i) = Rank(q, j) => i = j
<1>1. ASSUME NEW k \in DOMAIN q, NEW l \in DOMAIN q, Before(q, k, l) PROVE Rank(q, k) < Rank(q, l)
  <2>1. Earlier(q, k) \in SUBSET Earlier(q, l) /\ k \in Earlier(q, l) /\ k \notin Earlier(q, k)
    BY <1>1, BeforeIsOrder DEF Earlier
  <2>2. Earlier(q, l) \in SUBSET Ids
    BY DEF Earlier, IsQueue
  <2>3. IsFiniteSet(Earlier(q, l))
    BY <2>2, IdsAreFinite
  <2>4. /\ Cardinality(Earlier(q, k)) <= Cardinality(Earlier(q, l))
        /\ Cardinality(Earlier(q, k)) # Cardinality(Earlier(q, l))
    BY <2>1, <2>3, FS_Subset
  <2>. QED  BY <2>4, RankType
<1>2. Rank(q, i) \in Nat /\ Rank(q, j) \in Nat
  BY RankType
<1>3. CASE i = j
  BY <1>2, <1>3, BeforeIsOrder
<1>4. CASE Before(q, i, j)
  BY <1>1, <1>2, <1>4
<1>5. CASE Before(q, j, i)
  <2>1. Rank(q, j) < Rank(q, i)
    BY <1>1, <1>5
  <2>2. ~Before(q, i, j)
    BY <1>5, BeforeIsOrder
  <2>. QED  BY <1>2, <2>1, <2>2
<1>. QED  BY <1>3, <1>4, <1>5, BeforeIsOrder

\* No rank is missing.
LEMMA RankOnto ==
  ASSUME NEW q, IsQueue(q), NEW n \in 1..Cardinality(DOMAIN q)
  PROVE  \E i \in DOMAIN q : Rank(q, i) = n - 1
<1>. DEFINE T == 0..Cardinality(DOMAIN q) - 1
            f == [i \in DOMAIN q |-> Rank(q, i)]
<1>1. Cardinality(DOMAIN q) \in Nat
  BY IdsAreFinite DEF IsQueue
<1>2. IsFiniteSet(T) /\ Cardinality(T) = Cardinality(DOMAIN q)
  <2>. DEFINE b == Cardinality(DOMAIN q) - 1
  <2>1. 0 \in Int /\ b \in Int
    BY <1>1
  <2>2. IsFiniteSet(0..b) /\ Cardinality(0..b) = IF 0 > b THEN 0 ELSE b - 0 + 1
    <3>. HIDE DEF b
    <3>. QED  BY <2>1, FS_Interval
  <2>. QED  BY <1>1, <2>2
<1>3. f \in [DOMAIN q -> T]
  BY RankType
<1>4. \A i, j \in DOMAIN q : f[i] = f[j] => i = j
  BY RankOrders
<1>5. f \in Injection(DOMAIN q, T)
  <2>. HIDE DEF f, T
  <2>. QED  BY <1>3, <1>4 DEF Injection, IsInjective
<1>6. f \in Surjection(DOMAIN q, T)
  BY <1>2, <1>5, FS_Injection
<1>7. n - 1 \in T
  BY <1>1
<1>8. \E i \in DOMAIN q : f[i] = n - 1
  BY <1>6, <1>7 DEF Surjection
<1>. QED  BY <1>8

LEMMA NormalizedRows ==
  ASSUME NEW q, IsQueue(q)
  PROVE  /\ Normalized(q) \in Rows /\ DOMAIN Normalized(q) = DOMAIN q
         /\ \A i \in DOMAIN q : /\ Normalized(q)[i].video = q[i].video
                                /\ Normalized(q)[i].state = q[i].state
                                /\ Normalized(q)[i].pos = Rank(q, i)
         /\ \A i, j \in DOMAIN q : /\ i # j => Normalized(q)[i].pos # Normalized(q)[j].pos
                                   /\ Before(Normalized(q), i, j) <=> Before(q, i, j)
<1>. DEFINE r == Normalized(q)
<1>1. r = [i \in DOMAIN q |-> [q[i] EXCEPT !.pos = Rank(q, i)]]
  BY DEF Normalized
<1>2. ASSUME NEW i \in DOMAIN q
      PROVE  r[i] \in Row /\ r[i].video = q[i].video /\ r[i].state = q[i].state /\ r[i].pos = Rank(q, i)
  <2>1. q[i] \in NatRow
    BY DEF IsQueue
  <2>2. Rank(q, i) \in 0..MaxItems
    BY RankType
  <2>. QED  BY <1>1, <2>1, <2>2 DEF NatRow, Row
<1>3. DOMAIN r = DOMAIN q /\ r \in [DOMAIN r -> Row]
  BY <1>1, <1>2
<1>4. r \in Rows
  BY <1>3, QueuesAreRows DEF IsQueue
<1>5. ASSUME NEW i \in DOMAIN q, NEW j \in DOMAIN q
      PROVE  /\ i # j => r[i].pos # r[j].pos
             /\ Before(r, i, j) <=> Before(q, i, j)
  <2>1. Rank(q, i) \in Nat /\ Rank(q, j) \in Nat /\ i \in Nat /\ j \in Nat
    BY RankType DEF IsQueue, Ids
  <2>2. r[i].pos = Rank(q, i) /\ r[j].pos = Rank(q, j)
    BY <1>2
  <2>3. Before(r, i, j) <=> Rank(q, i) < Rank(q, j) \/ (Rank(q, i) = Rank(q, j) /\ i < j)
    BY <2>2 DEF Before
  <2>4. Rank(q, i) = Rank(q, j) => ~(i < j)
    BY <2>1, RankOrders
  <2>. QED  BY <2>2, <2>3, <2>4, RankOrders
<1>. QED  BY <1>2, <1>3, <1>4, <1>5

LEMMA ListedType ==
  ASSUME NEW q \in Rows
  PROVE  Listed(q) \in Seq(Shown)
<1>1. IsQueue(q)
  BY RowsAreQueues
<1>2. Cardinality(DOMAIN q) \in Nat
  BY <1>1, IdsAreFinite DEF IsQueue
<1>. DEFINE item(n) == CHOOSE i \in DOMAIN q : Rank(q, i) = n - 1
            entry(n) == [item |-> item(n), video |-> q[item(n)].video, state |-> q[item(n)].state]
<1>3. ASSUME NEW n \in 1..Cardinality(DOMAIN q) PROVE entry(n) \in Shown
  <2>1. item(n) \in DOMAIN q
    BY <1>1, RankOnto
  <2>. HIDE DEF item
  <2>2. item(n) \in Ids /\ q[item(n)] \in NatRow
    BY <1>1, <2>1 DEF IsQueue
  <2>. QED  BY <2>2 DEF Shown, NatRow
<1>4. Listed(q) = [n \in 1..Cardinality(DOMAIN q) |-> entry(n)]
  BY DEF Listed
<1>5. Listed(q) \in [1..Cardinality(DOMAIN q) -> Shown]
  <2>. HIDE DEF entry
  <2>. QED  BY <1>3, <1>4
<1>. QED  BY <1>2, <1>5, SeqDef

\* A row that is queued goes after all the others.
LEMMA NextPositionIsLast ==
  ASSUME NEW q, IsQueue(q)
  PROVE  NextPosition(q) \in Nat /\ \A i \in DOMAIN q : q[i].pos < NextPosition(q)
<1>1. CASE DOMAIN q = {}
  BY <1>1 DEF NextPosition
<1>2. CASE DOMAIN q # {}
  <2>. DEFINE n == Cardinality(DOMAIN q)
              positions == {q[i].pos : i \in DOMAIN q}
  <2>1. n \in 1..n
    <3>1. PICK i \in DOMAIN q : TRUE
      BY <1>2
    <3>2. n \in Nat /\ Rank(q, i) \in 0..n - 1
      BY RankType
    <3>. QED  BY <3>2
  <2>2. PICK l \in DOMAIN q : Rank(q, l) = n - 1
    BY <2>1, RankOnto
  <2>3. ASSUME NEW i \in DOMAIN q PROVE q[i].pos <= q[l].pos
    <3>1. Rank(q, i) \in 0..n - 1 /\ n \in Nat
      BY RankType
    <3>2. ~(Rank(q, l) < Rank(q, i))
      BY <2>2, <3>1
    <3>3. ~Before(q, l, i)
      BY <3>2, RankOrders
    <3>4. q[i].pos \in Nat /\ q[l].pos \in Nat
      BY DEF IsQueue, NatRow
    <3>. QED  BY <3>3, <3>4 DEF Before
  <2>4. \E m \in positions : \A i \in DOMAIN q : q[i].pos <= m
    BY <2>3
  <2>. DEFINE max == CHOOSE m \in positions : \A i \in DOMAIN q : q[i].pos <= m
  <2>5. max \in positions /\ \A i \in DOMAIN q : q[i].pos <= max
    <3>. HIDE DEF positions
    <3>. QED  BY <2>4
  <2>6. \A i \in DOMAIN q : q[i].pos \in Nat
    BY DEF IsQueue, NatRow
  <2>7. max \in Nat
    BY <2>5, <2>6
  <2>8. NextPosition(q) = 1 + max
    BY <1>2 DEF NextPosition
  <2>. HIDE DEF max
  <2>. QED  BY <2>8, <2>7, <2>6, <2>5
<1>. QED  BY <1>1, <1>2

--------------------------------------------------------------------------------
(* What one statement does to the rows of a profile. *)

\* A total order: what QueueIsTotallyOrdered says of one queue.
Ordered(q) ==
  /\ Cardinality(DOMAIN q) <= MaxQueueItems
  /\ \A i, j \in DOMAIN q : i # j => q[i].pos # q[j].pos /\ q[i].video # q[j].video

LEMMA WithoutRows ==
  ASSUME NEW q \in Rows, Ordered(q), NEW items
  PROVE  /\ Without(q, items) \in Rows /\ Ordered(Without(q, items))
         /\ DOMAIN Without(q, items) \subseteq DOMAIN q
         /\ \A i \in DOMAIN Without(q, items) : Without(q, items)[i] = q[i]
<1>1. IsQueue(q) /\ q \in [DOMAIN q -> Row]
  BY RowsAreQueues
<1>2. Without(q, items) \in [DOMAIN q \ items -> Row] /\ \A i \in DOMAIN q \ items : Without(q, items)[i] = q[i]
  BY <1>1 DEF Without
<1>3. DOMAIN q \ items \in SUBSET (DOMAIN q) /\ DOMAIN q \in SUBSET Ids
  BY <1>1 DEF IsQueue
<1>4. /\ Cardinality(DOMAIN q \ items) <= Cardinality(DOMAIN q)
      /\ Cardinality(DOMAIN q \ items) \in Nat /\ Cardinality(DOMAIN q) \in Nat
  <2>1. IsFiniteSet(DOMAIN q)
    BY <1>3, IdsAreFinite
  <2>2. DOMAIN q \ items \in SUBSET Ids
    BY <1>3
  <2>. QED  BY <1>3, <2>1, <2>2, IdsAreFinite, FS_Subset
<1>5. Without(q, items) \in Rows
  BY <1>2, <1>3, QueuesAreRows
<1>6. DOMAIN Without(q, items) = DOMAIN q \ items
  BY <1>2
<1>7. MaxQueueItems \in Nat
  BY QueueAssumption
<1>. QED  BY <1>2, <1>4, <1>5, <1>6, <1>7 DEF Ordered

LEMMA NormalizedOrdered ==
  ASSUME NEW q \in Rows, Ordered(q)
  PROVE  /\ Normalized(q) \in Rows /\ Ordered(Normalized(q)) /\ DOMAIN Normalized(q) = DOMAIN q
         /\ \A i, j \in DOMAIN q : Before(Normalized(q), i, j) <=> Before(q, i, j)
<1>1. IsQueue(q)
  BY RowsAreQueues
<1>. QED  BY <1>1, NormalizedRows DEF Ordered

LEMMA MarkedRows ==
  ASSUME NEW q \in Rows, Ordered(q), NEW i \in DOMAIN q, NEW state \in States
  PROVE  LET r == [q EXCEPT ![i].state = state] IN
         /\ r \in Rows /\ Ordered(r) /\ DOMAIN r = DOMAIN q
         /\ \A j, k \in DOMAIN q : Before(r, j, k) <=> Before(q, j, k)
<1>. DEFINE r == [q EXCEPT ![i].state = state]
<1>1. IsQueue(q) /\ q \in [DOMAIN q -> Row]
  BY RowsAreQueues
<1>2. /\ DOMAIN r = DOMAIN q /\ r \in [DOMAIN q -> Row]
      /\ \A j \in DOMAIN q : r[j].video = q[j].video /\ r[j].pos = q[j].pos
  BY <1>1 DEF Row
<1>. HIDE DEF r
<1>3. r \in Rows
  BY <1>1, <1>2, QueuesAreRows DEF IsQueue
<1>4. Ordered(r) /\ \A j, k \in DOMAIN q : Before(r, j, k) <=> Before(q, j, k)
  BY <1>2 DEF Ordered, Before
<1>. QED  BY <1>2, <1>3, <1>4 DEF r

LEMMA EnqueuedRows ==
  ASSUME NEW q \in Rows, Ordered(q), NEW v \in Videos, ~Full(q, v), NEW fresh \in Ids, fresh \notin DOMAIN q
  PROVE  /\ Enqueued(q, v, fresh) \in Rows /\ Ordered(Enqueued(q, v, fresh))
         /\ DOMAIN Enqueued(q, v, fresh) \subseteq DOMAIN q \cup (IF Holding(q, v) = {} THEN {fresh} ELSE {})
         /\ \A i, j \in DOMAIN q :
              Before(q, i, j) /\ Before(Enqueued(q, v, fresh), j, i) => q[i].video = v
<1>. DEFINE m == IF Holding(q, v) = {} THEN fresh ELSE CHOOSE i \in Holding(q, v) : TRUE
            row == [video |-> v, pos |-> NextPosition(q), state |-> "pending"]
            r == With(q, m, row)
<1>1. IsQueue(q) /\ DOMAIN q \subseteq Ids
  BY RowsAreQueues DEF IsQueue
<1>2. NextPosition(q) \in Nat /\ \A i \in DOMAIN q : q[i].pos < NextPosition(q)
  BY <1>1, NextPositionIsLast
<1>3. row \in NatRow
  BY <1>2 DEF NatRow, States
<1>4. m \in Ids /\ (IF Holding(q, v) = {} THEN m = fresh ELSE m \in DOMAIN q /\ q[m].video = v)
  BY <1>1 DEF Holding
<1>5. Enqueued(q, v, fresh) = Normalized(r)
  BY DEF Enqueued
<1>. HIDE DEF m, row
<1>6. /\ DOMAIN r = DOMAIN q \cup {m}
      /\ r[m] = row /\ \A i \in DOMAIN q : i # m => r[i] = q[i]
  BY DEF With
<1>7. IsQueue(r)
  <2>1. r = [i \in DOMAIN r |-> r[i]]
    BY DEF With
  <2>2. \A i \in DOMAIN r : r[i] \in NatRow
    BY <1>1, <1>3, <1>6 DEF IsQueue
  <2>. HIDE DEF r
  <2>. QED  BY <1>1, <1>4, <1>6, <2>1, <2>2 DEF IsQueue
<1>. HIDE DEF r
<1>8. Cardinality(DOMAIN r) <= MaxQueueItems
  <2>1. IsFiniteSet(DOMAIN q) /\ Cardinality(DOMAIN q) \in Nat /\ MaxQueueItems \in Nat
    BY <1>1, IdsAreFinite, QueueAssumption
  <2>2. CASE Holding(q, v) = {}
    <3>1. Cardinality(DOMAIN q) < MaxQueueItems
      BY <2>1, <2>2 DEF Full
    <3>2. Cardinality(DOMAIN q \cup {m}) = Cardinality(DOMAIN q) + 1
      BY <1>4, <2>1, <2>2, FS_AddElement
    <3>. QED  BY <1>6, <2>1, <3>1, <3>2
  <2>3. CASE Holding(q, v) # {}
    <3>1. DOMAIN r = DOMAIN q
      BY <1>4, <1>6, <2>3
    <3>. QED  BY <3>1 DEF Ordered
  <2>. QED  BY <2>2, <2>3
<1>9. ASSUME NEW i \in DOMAIN r, NEW j \in DOMAIN r, i # j PROVE r[i].video # r[j].video
  <2>1. \A k \in DOMAIN q : k # m => q[k].video # v
    BY <1>4 DEF Ordered, Holding
  <2>2. row.video = v
    BY DEF row
  <2>. QED  BY <1>6, <1>9, <2>1, <2>2 DEF Ordered
<1>10. ASSUME NEW i \in DOMAIN q, NEW j \in DOMAIN q, Before(q, i, j), Before(r, j, i)
       PROVE  q[i].video = v
  <2>1. i # j /\ ~Before(q, j, i)
    BY <1>1, <1>10, BeforeIsOrder
  <2>2. CASE i = m
    BY <1>4, <2>2
  <2>3. CASE i # m /\ j = m
    <3>1. r[j].pos = NextPosition(q) /\ r[i].pos = q[i].pos
      BY <1>6, <2>3 DEF row
    <3>2. q[i].pos < NextPosition(q) /\ q[i].pos \in Nat
      BY <1>1, <1>2 DEF IsQueue, NatRow
    <3>. QED  BY <1>2, <1>10, <3>1, <3>2 DEF Before
  <2>4. CASE i # m /\ j # m
    BY <1>6, <1>10, <2>1, <2>4 DEF Before
  <2>. QED  BY <2>2, <2>3, <2>4
<1>11. /\ Normalized(r) \in Rows /\ DOMAIN Normalized(r) = DOMAIN r
       /\ \A i \in DOMAIN r : Normalized(r)[i].video = r[i].video
       /\ \A i, j \in DOMAIN r : /\ i # j => Normalized(r)[i].pos # Normalized(r)[j].pos
                                 /\ Before(Normalized(r), i, j) <=> Before(r, i, j)
  BY <1>7, NormalizedRows
<1>12. Ordered(Normalized(r))
  BY <1>8, <1>9, <1>11 DEF Ordered
<1>13. DOMAIN r \subseteq DOMAIN q \cup (IF Holding(q, v) = {} THEN {fresh} ELSE {})
  BY <1>4, <1>6
<1>14. \A i, j \in DOMAIN q : Before(q, i, j) /\ Before(Normalized(r), j, i) => q[i].video = v
  BY <1>6, <1>10, <1>11
<1>. QED  BY <1>5, <1>11, <1>12, <1>13, <1>14

\* An order that is accepted names each row once, so that each gets the position
\* it has in the order.
LEMMA ReorderedRows ==
  ASSUME NEW q \in Rows, Ordered(q), NEW order \in Seq(Ids), Complete(q, order)
  PROVE  /\ Reordered(q, order) \in Rows /\ Ordered(Reordered(q, order)) /\ DOMAIN Reordered(q, order) = DOMAIN q
         /\ \A n \in DOMAIN order : order[n] \in DOMAIN q /\ Reordered(q, order)[order[n]].pos = n - 1
<1>. DEFINE r == Reordered(q, order)
            place(i) == CHOOSE n \in DOMAIN order : order[n] = i
<1>1. IsQueue(q) /\ q \in [DOMAIN q -> Row] /\ DOMAIN q \in SUBSET Ids
  BY RowsAreQueues DEF IsQueue
<1>2. /\ Len(order) \in Nat /\ DOMAIN order = 1..Len(order)
      /\ Len(order) = Cardinality(DOMAIN q)
      /\ \A n \in DOMAIN order : order[n] \in DOMAIN q
      /\ \A i \in DOMAIN q : \E n \in DOMAIN order : order[n] = i
      /\ order \in [1..Len(order) -> DOMAIN q]
  <2>1. Len(order) \in Nat /\ DOMAIN order = 1..Len(order) /\ order \in [1..Len(order) -> Ids]
    BY LenProperties
  <2>2. Len(order) = Cardinality(DOMAIN q) /\ {order[n] : n \in DOMAIN order} = DOMAIN q
    BY DEF Complete
  <2>3. \A n \in DOMAIN order : order[n] \in DOMAIN q
    BY <2>2
  <2>4. \A i \in DOMAIN q : \E n \in DOMAIN order : order[n] = i
    BY <2>2
  <2>5. order \in [1..Len(order) -> DOMAIN q]
    BY <2>1, <2>3
  <2>. QED  BY <2>5, <2>4, <2>3, <2>2, <2>1
<1>3. \A n, k \in DOMAIN order : order[n] = order[k] => n = k
  <2>1. IsFiniteSet(1..Len(order)) /\ Cardinality(1..Len(order)) = Len(order)
    BY <1>2, FS_Interval
  <2>2. order \in Surjection(1..Len(order), DOMAIN q)
    BY <1>2 DEF Surjection
  <2>3. order \in Injection(1..Len(order), DOMAIN q)
    BY <1>2, <2>1, <2>2, FS_SurjSameCardinalityImpliesInj
  <2>. QED  BY <1>2, <2>3 DEF Injection, IsInjective
<1>4. ASSUME NEW i \in DOMAIN q PROVE place(i) \in DOMAIN order /\ order[place(i)] = i
  BY <1>2
<1>5. r = [i \in DOMAIN q |-> [q[i] EXCEPT !.pos = place(i) - 1]]
  BY DEF Reordered
<1>. HIDE DEF place
<1>6. Cardinality(DOMAIN q) <= MaxItems /\ MaxItems \in Nat
  BY <1>1, IdsAreFinite, QueueAssumption
<1>7. ASSUME NEW i \in DOMAIN q
      PROVE  r[i] \in Row /\ r[i].video = q[i].video /\ r[i].pos = place(i) - 1 /\ place(i) \in Nat
  <2>1. place(i) - 1 \in 0..MaxItems /\ place(i) \in Nat
    BY <1>2, <1>4, <1>6
  <2>2. q[i] \in Row
    BY <1>1
  <2>. QED  BY <1>5, <2>1, <2>2 DEF Row
<1>8. DOMAIN r = DOMAIN q /\ r \in [DOMAIN r -> Row]
  BY <1>5, <1>7
<1>. HIDE DEF r
<1>9. r \in Rows
  BY <1>1, <1>8, QueuesAreRows
<1>10. \A i, j \in DOMAIN q : i # j => r[i].pos # r[j].pos
  <2>1. \A i, j \in DOMAIN q : place(i) = place(j) => i = j
    BY <1>4
  <2>. QED  BY <1>7, <2>1
<1>11. Ordered(r)
  BY <1>7, <1>8, <1>10 DEF Ordered
<1>12. \A n \in DOMAIN order : r[order[n]].pos = n - 1
  <2>1. \A n \in DOMAIN order : place(order[n]) = n
    BY <1>2, <1>3, <1>4
  <2>. QED  BY <1>2, <1>7, <2>1
<1>. QED  BY <1>2, <1>8, <1>9, <1>11, <1>12 DEF r

--------------------------------------------------------------------------------
(* The invariant. *)

\* A call has looked its profile up before it works on a queue.
RoutedCall(call) ==
  /\ call.pc \in {"decide", "apply", "normalize", "snapshot", "deliver"} => call.profile \in Profiles
  /\ call.op = "add" => call.video \in Videos /\ call.pc # "decide"

Typed == TypeOK /\ \A c \in Calls : RoutedCall(calls[c])

\* Ids are given out once, and there is one left for every add under way.
IdsAreIssued == \A p \in Profiles : DOMAIN queue[p] \subseteq 1..issued
AddsFit == issued + Cardinality(Adding) <= MaxItems

Filled == IdsAreIssued /\ AddsFit /\ QueueIsTotallyOrdered

QueueInv == Typed /\ Filled

LEMMA IdleType == Idle \in Call /\ RoutedCall(Idle)
<1>1. <<>> \in Seq(Ids) /\ <<>> \in Seq(Shown)
  BY EmptySeq
<1>. QED  BY <1>1 DEF Idle, Call, Pcs, Ops, RoutedCall

\* A call takes a step, or a command starts one.
LEMMA CallStep ==
  ASSUME Typed, NEW c \in Calls, NEW call \in Call, RoutedCall(call), calls' = [calls EXCEPT ![c] = call]
  PROVE  calls' \in [Calls -> Call] /\ \A d \in Calls : RoutedCall(calls'[d])
BY DEF Typed, TypeOK

LEMMA AddingIsFinite ==
  /\ Adding \in SUBSET Calls /\ IsFiniteSet(Calls)
  /\ \A S \in SUBSET Calls : IsFiniteSet(S) /\ Cardinality(S) \in Nat
<1>1. IsFiniteSet(Calls)
  BY QueueAssumption, FS_Interval DEF Calls
<1>. QED  BY <1>1, FS_Subset, FS_CardinalityType DEF Adding

\* A step that gives out no id keeps those that the adds need.
LEMMA AddsStillFit ==
  ASSUME Typed, AddsFit, issued' = issued, Adding' \subseteq Adding
  PROVE  AddsFit'
<1>1. Adding' \in SUBSET Adding /\ Adding' \in SUBSET Calls
  BY DEF Adding
<1>2. Cardinality(Adding') <= Cardinality(Adding) /\ Cardinality(Adding') \in Nat /\ Cardinality(Adding) \in Nat
  BY <1>1, AddingIsFinite, FS_Subset
<1>3. issued \in Nat /\ MaxItems \in Nat
  BY QueueAssumption DEF Typed, TypeOK
<1>. QED  BY <1>2, <1>3 DEF AddsFit

LEMMA AddingStep ==
  ASSUME Typed, NEW c \in Calls, NEW call, calls' = [calls EXCEPT ![c] = call],
         call.op = "add" /\ call.pc \in {"route", "apply"} => c \in Adding
  PROVE  Adding' \subseteq Adding
BY DEF Typed, TypeOK, Adding

\* A step that leaves the rows alone.
LEMMA QuietStep ==
  ASSUME QueueInv, NEW c \in Calls, NEW call \in Call, RoutedCall(call), calls' = [calls EXCEPT ![c] = call],
         call.op = "add" /\ call.pc \in {"route", "apply"} => c \in Adding,
         UNCHANGED <<queue, issued>>,
         active' \in Profiles, removePlayed' \in [Profiles -> BOOLEAN],
         ui' \in [queue : Seq(Shown), remove : BOOLEAN, current : Ids \cup {None}, playing : BOOLEAN],
         commands' \in 0..MaxCommands
  PROVE  QueueInv'
<1>1. calls' \in [Calls -> Call] /\ \A d \in Calls : RoutedCall(calls'[d])
  BY CallStep DEF QueueInv
<1>2. AddsFit'
  BY AddingStep, AddsStillFit DEF QueueInv, Filled
<1>3. IdsAreIssued' /\ QueueIsTotallyOrdered'
  BY DEF QueueInv, Filled, IdsAreIssued, QueueIsTotallyOrdered
<1>4. TypeOK'
  BY <1>1 DEF QueueInv, Typed, TypeOK
<1>5. \A d \in Calls : RoutedCall(calls[d])'
  BY <1>1 DEF RoutedCall
<1>. QED  BY <1>2, <1>3, <1>4, <1>5 DEF QueueInv, Typed, Filled

\* The rows of one profile change, and no id is given out.
LEMMA RowsStep ==
  ASSUME QueueInv, NEW c \in Calls, NEW call \in Call, RoutedCall(call), calls' = [calls EXCEPT ![c] = call],
         call.op = "add" => call.pc \notin {"route", "apply"},
         NEW p \in Profiles, NEW r \in Rows, Ordered(r), DOMAIN r \subseteq DOMAIN queue[p],
         queue' = [queue EXCEPT ![p] = r],
         UNCHANGED <<active, removePlayed, issued, ui, commands>>
  PROVE  QueueInv'
<1>1. calls' \in [Calls -> Call] /\ \A d \in Calls : RoutedCall(calls'[d])
  BY CallStep DEF QueueInv
<1>2. AddsFit'
  BY AddingStep, AddsStillFit DEF QueueInv, Filled
<1>3. queue' \in [Profiles -> Rows] /\ \A s \in Profiles : queue'[s] = IF s = p THEN r ELSE queue[s]
  BY DEF QueueInv, Typed, TypeOK
<1>4. IdsAreIssued' /\ QueueIsTotallyOrdered'
  BY <1>3 DEF QueueInv, Filled, IdsAreIssued, QueueIsTotallyOrdered, Ordered
<1>5. TypeOK'
  BY <1>1, <1>3 DEF QueueInv, Typed, TypeOK
<1>6. \A d \in Calls : RoutedCall(calls[d])'
  BY <1>1 DEF RoutedCall
<1>. QED  BY <1>2, <1>4, <1>5, <1>6 DEF QueueInv, Typed, Filled

\* Titles are distinct by assumption, so the program starts with ordered queues.
LEMMA StoredRows ==
  ASSUME NEW r \in Stored
  PROVE  r \in Rows /\ Ordered(r) /\ DOMAIN r = 1..MaxStored /\ Len(r) = MaxStored
<1>1. PICK s \in [1..MaxStored -> States] :
        r = [n \in 1..MaxStored |-> [video |-> Titles[n], pos |-> n - 1, state |-> s[n]]]
  BY DEF Stored
<1>2. Titles \in [1..MaxStored -> Videos] /\ \A m, n \in 1..MaxStored : Titles[m] = Titles[n] => m = n
  BY QueueAssumption DEF Titles
<1>3. MaxStored \in Nat /\ MaxItems \in Nat /\ MaxQueueItems \in Nat /\ MaxStored <= MaxItems /\ MaxStored <= MaxQueueItems
  BY QueueAssumption
<1>4. \A n \in 1..MaxStored : r[n] \in Row
  BY <1>1, <1>2, <1>3 DEF Row
<1>5. DOMAIN r = 1..MaxStored /\ r \in [DOMAIN r -> Row]
  BY <1>1, <1>4
<1>6. r \in Rows
  BY <1>3, <1>5, QueuesAreRows DEF Ids
<1>7. Cardinality(1..MaxStored) = MaxStored
  BY <1>3, FS_Interval
<1>8. Ordered(r)
  BY <1>1, <1>2, <1>3, <1>5, <1>7 DEF Ordered
<1>9. Len(r) = MaxStored
  BY <1>3, <1>5, LenProperties, SeqDef
<1>. QED  BY <1>5, <1>6, <1>8, <1>9

LEMMA EmptyRows == <<>> \in Rows /\ Ordered(<<>>) /\ DOMAIN <<>> = {}
<1>1. DOMAIN <<>> = {}
  OBVIOUS
<1>2. <<>> \in [DOMAIN <<>> -> Row]
  BY <1>1
<1>3. Cardinality(DOMAIN <<>>) = 0 /\ MaxQueueItems \in Nat
  BY <1>1, FS_EmptySet, QueueAssumption
<1>4. <<>> \in Rows
  BY <1>1, <1>2, QueuesAreRows
<1>5. Cardinality(DOMAIN <<>>) <= MaxQueueItems
  BY <1>3
<1>. QED  BY <1>1, <1>4, <1>5 DEF Ordered

LEMMA InitQueue == Init => QueueInv
<1>. SUFFICES ASSUME Init PROVE QueueInv
  OBVIOUS
<1>1. queue \in [Profiles -> Rows] /\ \A p \in Profiles : Ordered(queue[p])
  BY StoredRows, EmptyRows DEF Init
<1>2. MaxItems \in Nat /\ MaxStored \in Nat /\ MaxStored <= MaxItems /\ MaxCommands \in Nat /\ Default \in Profiles
  BY QueueAssumption
<1>3. active \in Profiles /\ queue[active] \in Stored
  BY <1>2 DEF Init
<1>4. issued = MaxStored /\ issued \in 0..MaxItems
  BY <1>2, <1>3, StoredRows DEF Init
<1>5. IdsAreIssued
  <2>1. ASSUME NEW p \in Profiles PROVE DOMAIN queue[p] \subseteq 1..issued
    <3>1. CASE p = active
      BY <1>3, <1>4, <3>1, StoredRows
    <3>2. CASE p # active
      BY <3>2, EmptyRows DEF Init
    <3>. QED  BY <3>1, <3>2
  <2>. QED  BY <2>1 DEF IdsAreIssued
<1>6. AddsFit
  <2>1. Adding = {}
    BY DEF Init, Adding, Idle
  <2>. QED  BY <1>2, <1>4, <2>1, FS_EmptySet DEF AddsFit
<1>7. QueueIsTotallyOrdered
  BY <1>1 DEF QueueIsTotallyOrdered, Ordered
<1>8. Listed(queue[active]) \in Seq(Shown)
  BY <1>1, <1>3, ListedType
<1>9. TypeOK /\ \A c \in Calls : RoutedCall(calls[c])
  BY <1>1, <1>2, <1>3, <1>4, <1>8, IdleType DEF Init, TypeOK
<1>. QED  BY <1>5, <1>6, <1>7, <1>9 DEF QueueInv, Typed, Filled

--------------------------------------------------------------------------------
(* The steps. *)

LEMMA MovedType ==
  ASSUME NEW s \in Seq(Shown), NEW from \in DOMAIN s, NEW to \in DOMAIN s
  PROVE  /\ Moved(s, from, to) \in Seq(Shown)
         /\ [n \in DOMAIN Moved(s, from, to) |-> Moved(s, from, to)[n].item] \in Seq(Ids)
<1>1. Len(s) \in Nat /\ DOMAIN s = 1..Len(s) /\ \A n \in 1..Len(s) : s[n] \in Shown
  BY LenProperties, ElementOfSeq
<1>2. Moved(s, from, to) \in [1..Len(s) -> Shown]
  <2>. DEFINE rest == [n \in 1..(Len(s) - 1) |-> IF n < from THEN s[n] ELSE s[n + 1]]
  <2>1. \A n \in 1..(Len(s) - 1) : rest[n] \in Shown
    BY <1>1
  <2>2. Moved(s, from, to) =
          [n \in 1..Len(s) |-> IF n < to THEN rest[n] ELSE IF n = to THEN s[from] ELSE rest[n - 1]]
    BY DEF Moved
  <2>3. ASSUME NEW n \in 1..Len(s) PROVE Moved(s, from, to)[n] \in Shown
    <3>. HIDE DEF rest
    <3>1. CASE n < to
      BY <1>1, <2>1, <2>2, <3>1
    <3>2. CASE n = to
      BY <1>1, <2>2, <3>2
    <3>3. CASE n > to
      <4>1. n - 1 \in 1..(Len(s) - 1) /\ ~(n < to) /\ n # to
        BY <1>1, <3>3
      <4>. QED  BY <2>1, <2>2, <4>1
    <3>. QED  BY <1>1, <3>1, <3>2, <3>3
  <2>. QED  BY <2>2, <2>3
<1>3. [n \in DOMAIN Moved(s, from, to) |-> Moved(s, from, to)[n].item] \in [1..Len(s) -> Ids]
  BY <1>2 DEF Shown
<1>. QED  BY <1>1, <1>2, <1>3, SeqDef

LEMMA ShownItems ==
  ASSUME NEW s \in Seq(Shown)
  PROVE  DOMAIN s \subseteq Nat /\ \A n \in DOMAIN s : s[n].item \in Ids
<1>1. DOMAIN s = 1..Len(s) /\ Len(s) \in Nat
  BY LenProperties
<1>2. \A n \in 1..Len(s) : s[n] \in Shown
  BY ElementOfSeq
<1>. QED  BY <1>1, <1>2 DEF Shown

LEMMA ChoiceType ==
  ASSUME NEW call \in Call
  PROVE  Choice(call) \in Ids \cup {None}
<1>1. call.snap \in Seq(Shown)
  BY DEF Call
<1>2. DOMAIN call.snap \subseteq Nat /\ \A n \in DOMAIN call.snap : call.snap[n].item \in Ids
  BY <1>1, ShownItems
<1>3. ASSUME NEW S \in SUBSET (DOMAIN call.snap), S # {} PROVE First(S) \in DOMAIN call.snap
  <2>1. \E n \in S : \A m \in S : n <= m
    BY <1>2, <1>3, SmallestExists
  <2>. QED  BY <2>1 DEF First
<1>. DEFINE later == Pending(call.snap, {n \in DOMAIN call.snap : n >= Start(call)})
            any == Pending(call.snap, DOMAIN call.snap)
<1>4. later \in SUBSET (DOMAIN call.snap) /\ any \in SUBSET (DOMAIN call.snap)
  BY DEF Pending
<1>5. Choice(call) = IF later # {} THEN call.snap[First(later)].item
                     ELSE IF any # {} THEN call.snap[First(any)].item ELSE None
  BY DEF Choice
<1>. HIDE DEF later, any
<1>. QED  BY <1>2, <1>3, <1>4, <1>5

\* A call of AddToQueue.
LEMMA AddCall ==
  ASSUME NEW v \in Videos
  PROVE  /\ [Idle EXCEPT !.pc = "route", !.op = "add", !.video = v] \in Call
         /\ RoutedCall([Idle EXCEPT !.pc = "route", !.op = "add", !.video = v])
BY IdleType DEF Call, Idle, RoutedCall, Pcs, Ops

LEMMA CommandStep ==
  ASSUME QueueInv, NEW c \in Calls, NEW call \in Call, call.pc \in {"route", "reload"}, call.op # "add",
         Command(c, call), UNCHANGED <<active, queue, removePlayed, issued>>,
         ui' \in [queue : Seq(Shown), remove : BOOLEAN, current : Ids \cup {None}, playing : BOOLEAN]
  PROVE  QueueInv'
<1>1. RoutedCall(call)
  BY DEF RoutedCall
<1>2. commands' \in 0..MaxCommands /\ calls' = [calls EXCEPT ![c] = call]
  BY QueueAssumption DEF Command, QueueInv, Typed, TypeOK
<1>. QED  BY <1>1, <1>2, QuietStep DEF QueueInv, Typed, TypeOK

LEMMA NextCall ==
  ASSUME QueueInv
  PROVE  /\ ui.current \in Ids \cup {None}
         /\ IndexOf(ui.queue, ui.current) \in Nat
<1>1. ui.queue \in Seq(Shown) /\ ui.current \in Ids \cup {None}
  BY DEF QueueInv, Typed, TypeOK
<1>2. DOMAIN ui.queue \subseteq Nat
  BY <1>1, LenProperties
<1>. QED  BY <1>1, <1>2 DEF IndexOf, Shows

\* playNext starts, from the button or at the end of a video.
LEMMA NextStep ==
  ASSUME QueueInv, NEW c \in Calls, PlayNext(c), UNCHANGED <<active, queue, removePlayed, issued>>,
         ui' \in [queue : Seq(Shown), remove : BOOLEAN, current : Ids \cup {None}, playing : BOOLEAN],
         commands' \in 0..MaxCommands
  PROVE  QueueInv'
<1>. DEFINE call == [Idle EXCEPT !.op = "next", !.item = ui.current, !.prev = IndexOf(ui.queue, ui.current), !.flag = TRUE,
                                 !.pc = IF ui.current = None THEN "reload" ELSE "route"]
<1>1. call \in Call /\ RoutedCall(call) /\ call.op # "add"
  BY NextCall, IdleType, ZenonT(60) DEF Call, Idle, Pcs, Ops, RoutedCall
<1>2. calls' = [calls EXCEPT ![c] = call]
  BY DEF PlayNext
<1>. HIDE DEF call
<1>. QED  BY <1>1, <1>2, QuietStep DEF QueueInv, Typed, TypeOK

LEMMA UserStep ==
  ASSUME QueueInv, NEW c \in Calls, User(c)
  PROVE  QueueInv'
<1>0. /\ ui \in [queue : Seq(Shown), remove : BOOLEAN, current : Ids \cup {None}, playing : BOOLEAN]
      /\ \A n \in DOMAIN ui.queue : ui.queue[n].item \in Ids
      /\ Idle \in Call
  <2>1. ui \in [queue : Seq(Shown), remove : BOOLEAN, current : Ids \cup {None}, playing : BOOLEAN]
    BY DEF QueueInv, Typed, TypeOK
  <2>. QED  BY <2>1, IdleType, ShownItems
<1>1. ASSUME NEW v \in Videos, AddToQueue(c, v) PROVE QueueInv'
  <2>. DEFINE call == [Idle EXCEPT !.pc = "route", !.op = "add", !.video = v]
  <2>1. call \in Call /\ RoutedCall(call)
    BY AddCall
  <2>2. /\ calls' = [calls EXCEPT ![c] = call] /\ calls[c].pc = "idle"
        /\ UNCHANGED <<active, queue, removePlayed, issued, ui>>
        /\ issued + Cardinality(Adding) < MaxItems
        /\ commands < MaxCommands /\ commands' = commands + 1
    BY <1>1 DEF AddToQueue, Command, Vacant
  <2>3. calls' \in [Calls -> Call] /\ \A d \in Calls : RoutedCall(calls'[d])
    <3>. HIDE DEF call
    <3>. QED  BY <2>1, <2>2, CallStep DEF QueueInv
  <2>4. Adding' \in SUBSET (Adding \cup {c})
    BY <2>2 DEF Adding, QueueInv, Typed, TypeOK
  <2>5. Cardinality(Adding') <= Cardinality(Adding) + 1 /\ Cardinality(Adding') \in Nat /\ Cardinality(Adding) \in Nat
    <3>1. Adding \cup {c} \in SUBSET Calls /\ Adding \in SUBSET Calls
      BY DEF Adding
    <3>2. IsFiniteSet(Adding) /\ IsFiniteSet(Adding \cup {c}) /\ Cardinality(Adding) \in Nat
      BY <3>1, AddingIsFinite
    <3>3. Cardinality(Adding \cup {c}) <= Cardinality(Adding) + 1
      BY <3>2, FS_AddElement
    <3>4. Cardinality(Adding') <= Cardinality(Adding \cup {c})
      BY <2>4, <3>2, FS_Subset
    <3>5. Adding' \in SUBSET Calls
      BY <2>4, <3>1
    <3>6. Cardinality(Adding') \in Nat /\ Cardinality(Adding \cup {c}) \in Nat
      BY <3>1, <3>5, AddingIsFinite
    <3>. QED  BY <3>2, <3>3, <3>4, <3>6
  <2>6. AddsFit'
    BY <2>2, <2>5, QueueAssumption DEF AddsFit, QueueInv, Typed, TypeOK
  <2>7. TypeOK' /\ \A d \in Calls : RoutedCall(calls[d])'
    BY <2>2, <2>3, QueueAssumption DEF QueueInv, Typed, TypeOK, RoutedCall
  <2>8. IdsAreIssued' /\ QueueIsTotallyOrdered'
    BY <2>2 DEF QueueInv, Filled, IdsAreIssued, QueueIsTotallyOrdered
  <2>. QED  BY <2>6, <2>7, <2>8 DEF QueueInv, Typed, Filled
<1>2. ASSUME NEW n, RemoveFromQueue(c, n) PROVE QueueInv'
  <2>. DEFINE call == [Idle EXCEPT !.pc = "route", !.op = "remove", !.item = ui.queue[n].item]
  <2>1. call \in Call /\ call.pc = "route" /\ call.op # "add"
    BY <1>0, <1>2 DEF RemoveFromQueue, Call, Idle, Pcs, Ops
  <2>. QED  BY <1>0, <1>2, <2>1, CommandStep DEF RemoveFromQueue
<1>3. ASSUME NEW n, ResetItem(c, n) PROVE QueueInv'
  <2>. DEFINE call == [Idle EXCEPT !.pc = "route", !.op = "reset", !.item = ui.queue[n].item]
  <2>1. call \in Call /\ call.pc = "route" /\ call.op # "add"
    BY <1>0, <1>3 DEF ResetItem, Call, Idle, Pcs, Ops
  <2>. QED  BY <1>0, <1>3, <2>1, CommandStep DEF ResetItem
<1>4. ASSUME NEW from, NEW to, ReorderQueue(c, from, to) PROVE QueueInv'
  <2>. DEFINE s == Moved(ui.queue, from, to)
              order == [n \in DOMAIN s |-> s[n].item]
              call == [Idle EXCEPT !.pc = "route", !.op = "reorder", !.order = order]
  <2>1. s \in Seq(Shown) /\ order \in Seq(Ids)
    BY <1>0, <1>4, MovedType DEF ReorderQueue
  <2>2. ui' = [ui EXCEPT !.queue = s]
    BY <1>4 DEF ReorderQueue
  <2>3. ui'.queue = s
    BY <1>0, <2>2
  <2>4. /\ Command(c, [Idle EXCEPT !.pc = "route", !.op = "reorder", !.order = [n \in DOMAIN ui'.queue |-> ui'.queue[n].item]])
        /\ UNCHANGED <<active, queue, removePlayed, issued>>
    BY <1>4 DEF ReorderQueue
  <2>5. Command(c, call)
    BY <2>3, <2>4
  <2>. HIDE DEF s, order
  <2>6. call \in Call /\ call.pc = "route" /\ call.op # "add"
    BY <1>0, <2>1 DEF Call, Idle, Pcs, Ops
  <2>7. ui' \in [queue : Seq(Shown), remove : BOOLEAN, current : Ids \cup {None}, playing : BOOLEAN]
    BY <1>0, <2>1, <2>2
  <2>. HIDE DEF call
  <2>. QED  BY <2>7, <2>6, <2>5, <2>4, CommandStep
<1>5. ASSUME NEW b \in BOOLEAN, ClearQueue(c, b) PROVE QueueInv'
  <2>. DEFINE call == [Idle EXCEPT !.pc = "route", !.op = "clear", !.flag = b]
  <2>1. call \in Call /\ call.pc = "route" /\ call.op # "add"
    BY <1>0 DEF Call, Idle, Pcs, Ops
  <2>. QED  BY <1>0, <1>5, <2>1, CommandStep DEF ClearQueue
<1>6. ASSUME NEW b \in BOOLEAN, SetRemovePlayed(c, b) PROVE QueueInv'
  <2>. DEFINE call == [Idle EXCEPT !.pc = "route", !.op = "prefs", !.flag = b]
  <2>1. call \in Call /\ call.pc = "route" /\ call.op # "add"
    BY <1>0 DEF Call, Idle, Pcs, Ops
  <2>. QED  BY <1>0, <1>6, <2>1, CommandStep DEF SetRemovePlayed
<1>7. CASE Refresh(c)
  <2>. DEFINE call == [Idle EXCEPT !.pc = "reload", !.op = "refresh"]
  <2>1. call \in Call /\ call.pc = "reload" /\ call.op # "add"
    BY <1>0 DEF Call, Idle, Pcs, Ops
  <2>. QED  BY <1>0, <1>7, <2>1, CommandStep DEF Refresh
<1>8. CASE NextButton(c)
  <2>1. commands' \in 0..MaxCommands
    BY <1>8, QueueAssumption DEF NextButton, QueueInv, Typed, TypeOK
  <2>. QED  BY <1>0, <1>8, <2>1, NextStep DEF NextButton
<1>. QED  BY <1>1, <1>2, <1>3, <1>4, <1>5, <1>6, <1>7, <1>8 DEF User

\* The rows a call works on.
LEMMA RoutedRows ==
  ASSUME QueueInv, NEW c \in Calls, calls[c].pc \in {"decide", "apply", "normalize", "snapshot", "deliver"}
  PROVE  LET p == calls[c].profile IN
         /\ p \in Profiles /\ queue[p] \in Rows /\ Ordered(queue[p])
         /\ \A i \in DOMAIN queue[p] : i # issued + 1
BY DEF QueueInv, Typed, TypeOK, RoutedCall, Filled, QueueIsTotallyOrdered, Ordered, IdsAreIssued

\* A new id is only given out where one is left.
LEMMA AddStep ==
  ASSUME QueueInv, NEW c \in Calls, ApplyAdd(c)
  PROVE  QueueInv'
<1>. DEFINE call == calls[c]
            p == call.profile
            q == queue[p]
            v == call.video
            r == Enqueued(q, v, issued + 1)
<1>1. /\ call.pc = "apply" /\ call.op = "add" /\ call \in Call /\ v \in Videos /\ p \in Profiles
      /\ q \in Rows /\ Ordered(q) /\ issued + 1 \notin DOMAIN q
      /\ issued \in Nat /\ MaxItems \in Nat
  BY RoutedRows, QueueAssumption DEF ApplyAdd, QueueInv, Typed, TypeOK, RoutedCall
<1>2. c \in Adding
  BY <1>1 DEF Adding
<1>3. CASE Full(q, v)
  <2>1. Finish(c) /\ UNCHANGED <<active, queue, removePlayed, issued, ui, commands>>
    BY <1>3 DEF ApplyAdd
  <2>. QED  BY <2>1, IdleType, QuietStep DEF Finish, Idle, QueueInv, Typed, TypeOK
<1>4. CASE ~Full(q, v)
  <2>1. /\ queue' = [queue EXCEPT ![p] = r]
        /\ issued' = (IF Holding(q, v) = {} THEN issued + 1 ELSE issued)
        /\ calls' = [calls EXCEPT ![c].pc = "reload"]
        /\ UNCHANGED <<active, removePlayed, ui, commands>>
    BY <1>4 DEF ApplyAdd, Goto
  <2>2. /\ Adding' \subseteq Adding \ {c}
        /\ Cardinality(Adding') \in Nat /\ Cardinality(Adding) \in Nat
        /\ Cardinality(Adding') <= Cardinality(Adding) - 1
    <3>1. Adding' \in SUBSET (Adding \ {c}) /\ Adding \in SUBSET Calls /\ Adding' \in SUBSET Calls
      BY <2>1 DEF Adding, QueueInv, Typed, TypeOK
    <3>2. IsFiniteSet(Adding) /\ Cardinality(Adding') \in Nat /\ Cardinality(Adding) \in Nat
      BY <3>1, AddingIsFinite
    <3>3. IsFiniteSet(Adding \ {c}) /\ Cardinality(Adding \ {c}) = Cardinality(Adding) - 1
      BY <1>2, <3>2, FS_RemoveElement
    <3>. QED  BY <3>1, <3>2, <3>3, FS_Subset
  <2>3. issued + Cardinality(Adding) <= MaxItems /\ issued + 1 \in Ids
    BY <1>1, <2>2 DEF QueueInv, Filled, AddsFit, Ids
  <2>4. issued' \in 0..MaxItems /\ issued <= issued' /\ AddsFit'
    BY <1>1, <2>1, <2>2, <2>3 DEF AddsFit, Ids
  <2>5. /\ r \in Rows /\ Ordered(r)
        /\ DOMAIN r \subseteq DOMAIN q \cup (IF Holding(q, v) = {} THEN {issued + 1} ELSE {})
    BY <1>1, <1>4, <2>3, EnqueuedRows
  <2>. HIDE DEF r
  <2>6. queue' \in [Profiles -> Rows] /\ \A s \in Profiles : queue'[s] = IF s = p THEN r ELSE queue[s]
    BY <1>1, <2>1, <2>5 DEF QueueInv, Typed, TypeOK
  <2>7. DOMAIN q \subseteq 1..issued /\ \A s \in Profiles : DOMAIN queue[s] \subseteq 1..issued
    BY <1>1 DEF QueueInv, Filled, IdsAreIssued
  <2>8. DOMAIN r \subseteq 1..issued'
    BY <1>1, <2>1, <2>5, <2>7
  <2>9. 1..issued \subseteq 1..issued'
    BY <1>1, <2>4
  <2>10. IdsAreIssued'
    BY <2>9, <2>8, <2>7, <2>6 DEF IdsAreIssued
  <2>11. QueueIsTotallyOrdered'
    BY <2>5, <2>6 DEF QueueInv, Filled, QueueIsTotallyOrdered, Ordered
  <2>12. [call EXCEPT !.pc = "reload"] \in Call /\ RoutedCall([call EXCEPT !.pc = "reload"])
    BY <1>1 DEF Call, Pcs, RoutedCall
  <2>13. calls' = [calls EXCEPT ![c] = [call EXCEPT !.pc = "reload"]]
    BY <2>1
  <2>14. calls' \in [Calls -> Call] /\ \A d \in Calls : RoutedCall(calls'[d])
    <3>. HIDE DEF call
    <3>. QED  BY <2>12, <2>13, CallStep DEF QueueInv
  <2>15. TypeOK' /\ \A d \in Calls : RoutedCall(calls[d])'
    BY <2>14, <2>6, <2>4, <2>1 DEF QueueInv, Typed, TypeOK, RoutedCall
  <2>. QED  BY <2>15, <2>11, <2>10, <2>4 DEF QueueInv, Typed, Filled
<1>. QED  BY <1>3, <1>4

\* The rows of the call's profile change, and it goes on at pc.
LEMMA StatementStep ==
  ASSUME QueueInv, NEW c \in Calls, calls[c].op # "add" \/ calls[c].pc = "normalize",
         calls[c].pc \in {"apply", "normalize"},
         NEW r \in Rows, Ordered(r), DOMAIN r \subseteq DOMAIN queue[calls[c].profile],
         queue' = [queue EXCEPT ![calls[c].profile] = r],
         Finish(c) \/ Goto(c, "reload") \/ Goto(c, "normalize"),
         UNCHANGED <<active, removePlayed, issued, ui, commands>>
  PROVE  QueueInv'
<1>1. calls[c] \in Call /\ calls[c].profile \in Profiles /\ RoutedCall(calls[c])
  BY RoutedRows DEF QueueInv, Typed, TypeOK
<1>2. PICK call : /\ call \in Call /\ RoutedCall(call) /\ calls' = [calls EXCEPT ![c] = call]
                  /\ call.op = "add" => call.pc \notin {"route", "apply"}
  <2>1. CASE Finish(c)
    <3>1. Idle.op # "add" /\ calls' = [calls EXCEPT ![c] = Idle]
      BY <2>1 DEF Finish, Idle
    <3>. QED  BY <3>1, IdleType
  <2>2. ASSUME NEW pc \in {"reload", "normalize"}, Goto(c, pc)
        PROVE  LET call == [calls[c] EXCEPT !.pc = pc] IN
               /\ call \in Call /\ RoutedCall(call) /\ calls' = [calls EXCEPT ![c] = call]
               /\ call.op = "add" => call.pc \notin {"route", "apply"}
    BY <1>1, <2>2 DEF Goto, Call, Pcs, RoutedCall
  <2>. QED  BY <2>1, <2>2
<1>. QED  BY <1>1, <1>2, RowsStep

LEMMA BackendStep ==
  ASSUME QueueInv, NEW c \in Calls, Backend(c)
  PROVE  QueueInv'
<1>. DEFINE call == calls[c]
            p == call.profile
            q == queue[p]
<1>0. /\ call \in Call /\ RoutedCall(call) /\ calls \in [Calls -> Call]
      /\ active \in Profiles /\ removePlayed \in [Profiles -> BOOLEAN] /\ commands \in 0..MaxCommands
      /\ ui \in [queue : Seq(Shown), remove : BOOLEAN, current : Ids \cup {None}, playing : BOOLEAN]
      /\ call.pc = "route" /\ call.op = "add" => c \in Adding
  BY DEF QueueInv, Typed, TypeOK, Adding
<1>1. CASE Route(c)
  <2>. DEFINE new == [call EXCEPT !.profile = active, !.pc = IF call.op \in {"next", "reset"} THEN "decide" ELSE "apply"]
  <2>1. /\ calls' = [calls EXCEPT ![c] = new] /\ call.pc = "route"
        /\ UNCHANGED <<active, queue, removePlayed, issued, ui, commands>>
    BY <1>0, <1>1 DEF Route
  <2>2. new \in Call /\ RoutedCall(new) /\ new.op = call.op
    BY <1>0 DEF Call, Pcs, RoutedCall
  <2>. HIDE DEF new
  <2>. QED  BY <1>0, <2>1, <2>2, QuietStep
<1>2. CASE Decide(c)
  <2>. DEFINE remove == call.flag /\ removePlayed[active]
              new == [call EXCEPT !.remove = remove, !.pc = "apply", !.profile = IF remove THEN active ELSE @]
  <2>1. /\ calls' = [calls EXCEPT ![c] = new] /\ call.pc = "decide"
        /\ UNCHANGED <<active, queue, removePlayed, issued, ui, commands>>
    BY <1>0, <1>2 DEF Decide
  <2>2. remove \in BOOLEAN
    BY <1>0 DEF Call
  <2>3. call.op # "add" /\ call.profile \in Profiles
    BY <1>0, <2>1 DEF RoutedCall
  <2>. HIDE DEF remove
  <2>4. new \in Call /\ RoutedCall(new) /\ new.op # "add"
    BY <1>0, <2>2, <2>3 DEF Call, Pcs, RoutedCall
  <2>. HIDE DEF new
  <2>. QED  BY <1>0, <2>1, <2>4, QuietStep
<1>3. CASE ApplyAdd(c)
  BY <1>3, AddStep
<1>4. CASE ApplyRemove(c)
  <2>1. /\ call.pc = "apply" /\ call.op # "add" /\ Goto(c, "reload")
        /\ queue' = [queue EXCEPT ![p] = Normalized(Without(q, {call.item}))]
        /\ UNCHANGED <<active, removePlayed, issued, ui, commands>>
    BY <1>4 DEF ApplyRemove
  <2>2. q \in Rows /\ Ordered(q)
    BY <2>1, RoutedRows
  <2>3. /\ Normalized(Without(q, {call.item})) \in Rows /\ Ordered(Normalized(Without(q, {call.item})))
        /\ DOMAIN Normalized(Without(q, {call.item})) \subseteq DOMAIN q
    BY <2>2, WithoutRows, NormalizedOrdered
  <2>. QED  BY <2>1, <2>3, StatementStep
<1>5. CASE ApplyMark(c)
  <2>1. /\ call.pc = "apply" /\ call.op # "add"
        /\ UNCHANGED <<active, removePlayed, issued, ui, commands>>
        /\ \/ /\ call.item \in DOMAIN q /\ Goto(c, "reload")
              /\ queue' = [queue EXCEPT ![p][call.item].state = IF call.flag THEN "played" ELSE "pending"]
           \/ UNCHANGED queue /\ Finish(c)
    BY <1>5 DEF ApplyMark
  <2>2. p \in Profiles /\ q \in Rows /\ Ordered(q) /\ queue \in [Profiles -> Rows]
    BY <2>1, RoutedRows DEF QueueInv, Typed, TypeOK
  <2>3. CASE UNCHANGED queue
    <3>1. queue' = [queue EXCEPT ![p] = q]
      BY <2>2, <2>3
    <3>. QED  BY <2>1, <2>2, <3>1, StatementStep
  <2>4. CASE call.item \in DOMAIN q /\ Goto(c, "reload")
              /\ queue' = [queue EXCEPT ![p][call.item].state = IF call.flag THEN "played" ELSE "pending"]
    <3>. DEFINE state == IF call.flag THEN "played" ELSE "pending"
                r == [q EXCEPT ![call.item].state = state]
    <3>1. queue' = [queue EXCEPT ![p] = r] /\ state \in States
      BY <2>2, <2>4 DEF States
    <3>. HIDE DEF state
    <3>2. r \in Rows /\ Ordered(r) /\ DOMAIN r = DOMAIN q
      BY <2>2, <2>4, <3>1, MarkedRows
    <3>. HIDE DEF r
    <3>. QED  BY <2>1, <2>4, <3>1, <3>2, StatementStep
  <2>. QED  BY <2>1, <2>3, <2>4
<1>6. CASE ApplyClear(c)
  <2>. DEFINE items == {i \in DOMAIN q : call.flag => q[i].state = "played"}
  <2>1. /\ call.pc = "apply" /\ call.op # "add" /\ Goto(c, "normalize")
        /\ queue' = [queue EXCEPT ![p] = Without(q, items)]
        /\ UNCHANGED <<active, removePlayed, issued, ui, commands>>
    BY <1>6 DEF ApplyClear
  <2>2. q \in Rows /\ Ordered(q)
    BY <2>1, RoutedRows
  <2>. HIDE DEF items
  <2>3. /\ Without(q, items) \in Rows /\ Ordered(Without(q, items))
        /\ DOMAIN Without(q, items) \subseteq DOMAIN q
    BY <2>2, WithoutRows
  <2>. QED  BY <2>1, <2>3, StatementStep
<1>7. CASE Normalize(c)
  <2>1. /\ call.pc = "normalize" /\ Goto(c, "reload")
        /\ queue' = [queue EXCEPT ![p] = Normalized(q)]
        /\ UNCHANGED <<active, removePlayed, issued, ui, commands>>
    BY <1>7 DEF Normalize
  <2>2. q \in Rows /\ Ordered(q)
    BY <2>1, RoutedRows
  <2>3. Normalized(q) \in Rows /\ Ordered(Normalized(q)) /\ DOMAIN Normalized(q) = DOMAIN q
    BY <2>2, NormalizedOrdered
  <2>. QED  BY <2>1, <2>3, StatementStep
<1>8. CASE ApplyReorder(c)
  <2>1. /\ call.pc = "apply" /\ call.op # "add"
        /\ UNCHANGED <<active, removePlayed, issued, ui, commands>>
        /\ \/ /\ Complete(q, call.order) /\ Finish(c)
              /\ queue' = [queue EXCEPT ![p] = Reordered(q, call.order)]
           \/ UNCHANGED queue /\ Goto(c, "reload")
    BY <1>8 DEF ApplyReorder
  <2>2. p \in Profiles /\ q \in Rows /\ Ordered(q) /\ queue \in [Profiles -> Rows] /\ call.order \in Seq(Ids)
    BY <1>0, <2>1, RoutedRows DEF QueueInv, Typed, TypeOK, Call
  <2>3. CASE UNCHANGED queue
    <3>1. queue' = [queue EXCEPT ![p] = q]
      BY <2>2, <2>3
    <3>. QED  BY <2>1, <2>2, <3>1, StatementStep
  <2>4. CASE /\ Complete(q, call.order) /\ Finish(c)
             /\ queue' = [queue EXCEPT ![p] = Reordered(q, call.order)]
    <3>1. /\ Reordered(q, call.order) \in Rows /\ Ordered(Reordered(q, call.order))
          /\ DOMAIN Reordered(q, call.order) = DOMAIN q
      BY <2>2, <2>4, ReorderedRows
    <3>. QED  BY <2>1, <2>4, <3>1, StatementStep
  <2>. QED  BY <2>1, <2>3, <2>4
<1>9. CASE ApplyPrefs(c)
  <2>1. /\ call.pc = "apply" /\ Finish(c) /\ call.flag \in BOOLEAN /\ p \in Profiles
        /\ removePlayed' = [removePlayed EXCEPT ![p] = call.flag]
        /\ ui' = [ui EXCEPT !.remove = call.flag]
        /\ UNCHANGED <<active, queue, issued, commands>>
    BY <1>0, <1>9 DEF ApplyPrefs, RoutedCall, Call
  <2>2. /\ removePlayed' \in [Profiles -> BOOLEAN]
        /\ ui' \in [queue : Seq(Shown), remove : BOOLEAN, current : Ids \cup {None}, playing : BOOLEAN]
    BY <1>0, <2>1
  <2>. QED  BY <1>0, <2>1, <2>2, IdleType, QuietStep DEF Finish, Idle
<1>10. CASE Reload(c)
  <2>. DEFINE new == [call EXCEPT !.pc = "snapshot", !.profile = active]
  <2>1. calls' = [calls EXCEPT ![c] = new] /\ UNCHANGED <<active, queue, removePlayed, issued, ui, commands>>
    BY <1>0, <1>10 DEF Reload
  <2>2. new \in Call /\ RoutedCall(new) /\ new.pc = "snapshot"
    BY <1>0 DEF Call, Pcs, RoutedCall
  <2>. HIDE DEF new
  <2>. QED  BY <1>0, <2>1, <2>2, QuietStep
<1>11. CASE Snapshot(c)
  <2>. DEFINE new == [call EXCEPT !.pc = "deliver", !.snap = Listed(q), !.remove = removePlayed[active]]
  <2>1. /\ calls' = [calls EXCEPT ![c] = new] /\ call.pc = "snapshot"
        /\ UNCHANGED <<active, queue, removePlayed, issued, ui, commands>>
    BY <1>0, <1>11 DEF Snapshot
  <2>2. Listed(q) \in Seq(Shown) /\ removePlayed[active] \in BOOLEAN
    BY <1>0, <2>1, RoutedRows, ListedType
  <2>3. new \in Call /\ RoutedCall(new) /\ new.pc = "deliver"
    BY <1>0, <2>1, <2>2 DEF Call, Pcs, RoutedCall
  <2>. HIDE DEF new
  <2>. QED  BY <1>0, <2>1, <2>3, QuietStep
<1>12. CASE Deliver(c)
  <2>. DEFINE shown == [ui EXCEPT !.queue = call.snap, !.remove = call.remove]
  <2>1. shown \in [queue : Seq(Shown), remove : BOOLEAN, current : Ids \cup {None}, playing : BOOLEAN]
    BY <1>0 DEF Call
  <2>2. /\ Finish(c) /\ UNCHANGED <<active, queue, removePlayed, issued, commands>>
        /\ \/ ui' = shown
           \/ ui' = [shown EXCEPT !.playing = FALSE]
           \/ ui' = [shown EXCEPT !.current = Choice(call), !.playing = TRUE]
    BY <1>12 DEF Deliver
  <2>3. Choice(call) \in Ids \cup {None}
    BY <1>0, ChoiceType
  <2>. HIDE DEF shown
  <2>4. ui' \in [queue : Seq(Shown), remove : BOOLEAN, current : Ids \cup {None}, playing : BOOLEAN]
    BY <2>1, <2>2, <2>3
  <2>. QED  BY <1>0, <2>2, <2>4, IdleType, QuietStep DEF Finish, Idle
<1>. QED  BY <1>1, <1>2, <1>3, <1>4, <1>5, <1>6, <1>7, <1>8, <1>9, <1>10, <1>11, <1>12 DEF Backend

LEMMA QueueStep ==
  ASSUME QueueInv, [Next]_vars
  PROVE  QueueInv'
<1>0. /\ ui \in [queue : Seq(Shown), remove : BOOLEAN, current : Ids \cup {None}, playing : BOOLEAN]
      /\ commands \in 0..MaxCommands /\ active \in Profiles /\ MaxCommands \in Nat
      /\ removePlayed \in [Profiles -> BOOLEAN]
  BY QueueAssumption DEF QueueInv, Typed, TypeOK
\* A step that starts no call and moves none.
<1>1. ASSUME UNCHANGED <<queue, removePlayed, issued, calls>>, active' \in Profiles, commands' \in 0..MaxCommands,
             ui' \in [queue : Seq(Shown), remove : BOOLEAN, current : Ids \cup {None}, playing : BOOLEAN]
      PROVE  QueueInv'
  <2>1. TypeOK' /\ \A d \in Calls : RoutedCall(calls[d])'
    BY <1>1 DEF QueueInv, Typed, TypeOK, RoutedCall
  <2>2. IdsAreIssued' /\ AddsFit' /\ QueueIsTotallyOrdered'
    BY <1>1 DEF QueueInv, Filled, IdsAreIssued, AddsFit, Adding, QueueIsTotallyOrdered
  <2>. QED  BY <2>1, <2>2 DEF QueueInv, Typed, Filled
<1>2. ASSUME NEW c \in Calls, Ended(c) PROVE QueueInv'
  <2>1. /\ ui' = [ui EXCEPT !.playing = FALSE] /\ UNCHANGED <<active, queue, removePlayed, issued, commands>>
        /\ PlayNext(c) \/ UNCHANGED calls
    BY <1>2 DEF Ended
  <2>2. ui' \in [queue : Seq(Shown), remove : BOOLEAN, current : Ids \cup {None}, playing : BOOLEAN]
    BY <1>0, <2>1
  <2>. QED  BY <1>0, <1>1, <2>1, <2>2, NextStep
<1>3. ASSUME NEW n, PlayItem(n) PROVE QueueInv'
  <2>1. ui.queue[n].item \in Ids
    BY <1>0, <1>3, ShownItems DEF PlayItem
  <2>2. /\ UNCHANGED <<active, queue, removePlayed, issued, calls>>
        /\ ui' = [ui EXCEPT !.current = ui.queue[n].item, !.playing = TRUE]
        /\ commands' \in 0..MaxCommands
    BY <1>0, <1>3 DEF PlayItem
  <2>3. ui' \in [queue : Seq(Shown), remove : BOOLEAN, current : Ids \cup {None}, playing : BOOLEAN]
    BY <1>0, <2>1, <2>2
  <2>. QED  BY <1>0, <1>1, <2>2, <2>3
<1>4. CASE PlayOther
  <2>1. /\ UNCHANGED <<active, queue, removePlayed, issued, calls>>
        /\ ui' = [ui EXCEPT !.current = None, !.playing = TRUE]
        /\ commands' \in 0..MaxCommands
    BY <1>0, <1>4 DEF PlayOther
  <2>2. ui' \in [queue : Seq(Shown), remove : BOOLEAN, current : Ids \cup {None}, playing : BOOLEAN]
    BY <1>0, <2>1
  <2>. QED  BY <1>0, <1>1, <2>1, <2>2
<1>5. ASSUME NEW p \in Profiles, SwitchProfile(p) PROVE QueueInv'
  <2>1. UNCHANGED <<queue, removePlayed, issued, ui, calls>> /\ commands' \in 0..MaxCommands /\ active' \in Profiles
    BY <1>0, <1>5 DEF SwitchProfile
  <2>. QED  BY <1>0, <1>1, <2>1
<1>6. CASE UNCHANGED vars
  BY <1>0, <1>1, <1>6 DEF vars
<1>. QED  BY <1>2, <1>3, <1>4, <1>5, <1>6, UserStep, BackendStep DEF Next

LEMMA QueueInvariant == Spec => []QueueInv
<1>1. QueueInv /\ [Next]_vars => QueueInv'
  BY QueueStep
<1>. QED  BY <1>1, InitQueue, PTL DEF Spec

\* Every state of the queue, of the store and of the calls under way is one of
\* those TypeOK lists: in particular an item or a profile that a call works on
\* exists, and no id is given out beyond the bound of the model.
THEOREM QueueTyped == Spec => []TypeOK
<1>1. QueueInv => TypeOK
  BY DEF QueueInv, Typed
<1>. QED  BY <1>1, QueueInvariant, PTL

\* normalizeQueuePositions and the transactions around it: whatever overlaps, no
\* two rows of a profile ever share a position, no video is queued twice and the
\* limit of the queue holds.
THEOREM QueueIsOrdered == Spec => []QueueIsTotallyOrdered
<1>1. QueueInv => QueueIsTotallyOrdered
  BY DEF QueueInv, Filled
<1>. QED  BY <1>1, QueueInvariant, PTL

--------------------------------------------------------------------------------
(* Who changes the order. *)

\* Two rows that a statement leaves keep their places.
KeepsOrder(q, r) == \A i, j \in DOMAIN q \cap DOMAIN r : ~(Before(q, i, j) /\ Before(r, j, i))

LEMMA DeletingKeepsOrder ==
  ASSUME NEW q \in Rows, Ordered(q), NEW items
  PROVE  KeepsOrder(q, Without(q, items)) /\ KeepsOrder(q, Normalized(Without(q, items)))
<1>1. IsQueue(q)
  BY RowsAreQueues
<1>. DEFINE r == Without(q, items)
<1>2. r \in Rows /\ Ordered(r) /\ DOMAIN r \subseteq DOMAIN q /\ \A i \in DOMAIN r : r[i] = q[i]
  BY WithoutRows
<1>. HIDE DEF r
<1>3. \A i, j \in DOMAIN r : Before(r, i, j) <=> Before(q, i, j)
  BY <1>2 DEF Before
<1>4. DOMAIN Normalized(r) = DOMAIN r /\ \A i, j \in DOMAIN r : Before(Normalized(r), i, j) <=> Before(r, i, j)
  BY <1>2, NormalizedOrdered
<1>5. \A i, j \in DOMAIN q : Before(q, i, j) => ~Before(q, j, i)
  BY <1>1, BeforeIsOrder
<1>6. KeepsOrder(q, r) /\ KeepsOrder(q, Normalized(r))
  BY <1>2, <1>3, <1>4, <1>5 DEF KeepsOrder
<1>. QED  BY <1>6 DEF r

\* A statement that keeps the order, whichever profile it is for.
LEMMA OrderKept ==
  ASSUME QueueInv, NEW s, NEW r, s \in Profiles => KeepsOrder(queue[s], r),
         queue' = [queue EXCEPT ![s] = r], NEW p \in Profiles
  PROVE  KeepsOrder(queue[p], queue'[p])
<1>1. queue \in [Profiles -> Rows]
  BY DEF QueueInv, Typed, TypeOK
<1>2. CASE p = s
  BY <1>1, <1>2
<1>3. CASE p # s
  <2>1. queue'[p] = queue[p] /\ IsQueue(queue[p])
    BY <1>1, <1>3, RowsAreQueues
  <2>. QED  BY <2>1, BeforeIsOrder DEF KeepsOrder
<1>. QED  BY <1>2, <1>3

\* Every step but the two that are meant to.
LEMMA QuietKeepsOrder ==
  ASSUME QueueInv, [Next]_vars, ~(\E c \in Calls : ApplyAdd(c) \/ ApplyReorder(c)), NEW p \in Profiles
  PROVE  KeepsOrder(queue[p], queue'[p])
<1>1. queue \in [Profiles -> Rows] /\ IsQueue(queue[p])
  BY RowsAreQueues DEF QueueInv, Typed, TypeOK
<1>2. CASE UNCHANGED queue
  BY <1>1, <1>2, BeforeIsOrder DEF KeepsOrder
<1>3. ASSUME NEW c \in Calls, ApplyRemove(c) \/ ApplyMark(c) \/ ApplyClear(c) \/ Normalize(c), queue' # queue
      PROVE  KeepsOrder(queue[p], queue'[p])
  <2>. DEFINE call == calls[c]
              s == call.profile
              q == queue[s]
  <2>1. call.pc \in {"apply", "normalize"}
    BY <1>3 DEF ApplyRemove, ApplyMark, ApplyClear, Normalize
  <2>2. q \in Rows /\ Ordered(q) /\ s \in Profiles /\ IsQueue(q)
    BY <2>1, RoutedRows, RowsAreQueues
  <2>3. CASE ApplyRemove(c)
    <3>1. queue' = [queue EXCEPT ![s] = Normalized(Without(q, {call.item}))]
      BY <2>3 DEF ApplyRemove
    <3>. QED  BY <2>2, <3>1, DeletingKeepsOrder, OrderKept
  <2>4. CASE ApplyMark(c)
    <3>. DEFINE state == IF call.flag THEN "played" ELSE "pending"
                r == [q EXCEPT ![call.item].state = state]
    <3>1. queue' = [queue EXCEPT ![s] = r] /\ state \in States /\ call.item \in DOMAIN q
      BY <1>1, <1>3, <2>2, <2>4 DEF ApplyMark, States
    <3>. HIDE DEF state
    <3>2. DOMAIN r = DOMAIN q /\ \A j, k \in DOMAIN q : Before(r, j, k) <=> Before(q, j, k)
      BY <2>2, <3>1, MarkedRows
    <3>. HIDE DEF r
    <3>3. KeepsOrder(q, r)
      BY <2>2, <3>2, BeforeIsOrder DEF KeepsOrder
    <3>. QED  BY <3>1, <3>3, OrderKept
  <2>5. CASE ApplyClear(c)
    <3>. DEFINE items == {i \in DOMAIN q : call.flag => q[i].state = "played"}
    <3>1. queue' = [queue EXCEPT ![s] = Without(q, items)]
      BY <2>5 DEF ApplyClear
    <3>. HIDE DEF items
    <3>. QED  BY <2>2, <3>1, DeletingKeepsOrder, OrderKept
  <2>6. CASE Normalize(c)
    <3>1. queue' = [queue EXCEPT ![s] = Normalized(q)]
      BY <2>6 DEF Normalize
    <3>2. DOMAIN Normalized(q) = DOMAIN q /\ \A j, k \in DOMAIN q : Before(Normalized(q), j, k) <=> Before(q, j, k)
      BY <2>2, NormalizedOrdered
    <3>3. KeepsOrder(q, Normalized(q))
      BY <2>2, <3>2, BeforeIsOrder DEF KeepsOrder
    <3>. QED  BY <3>1, <3>3, OrderKept
  <2>. QED  BY <1>3, <2>6, <2>5, <2>4, <2>3
<1>4. ASSUME NEW c \in Calls, User(c) \/ Ended(c) PROVE UNCHANGED queue
  BY <1>4 DEF User, AddToQueue, RemoveFromQueue, ClearQueue, ResetItem, SetRemovePlayed, Refresh, ReorderQueue,
              NextButton, Ended
<1>5. ASSUME NEW c \in Calls, Backend(c)
      PROVE  UNCHANGED queue \/ ApplyRemove(c) \/ ApplyMark(c) \/ ApplyClear(c) \/ Normalize(c)
  BY <1>5 DEF Backend, Route, Decide, ApplyPrefs, Reload, Snapshot, Deliver
<1>6. ASSUME (\E n \in 1..MaxQueueItems : PlayItem(n)) \/ PlayOther \/ (\E s \in Profiles : SwitchProfile(s)) \/ UNCHANGED vars
      PROVE  UNCHANGED queue
  BY <1>6 DEF PlayItem, PlayOther, SwitchProfile, vars
<1>. QED  BY <1>2, <1>3, <1>4, <1>5, <1>6 DEF Next

\* An add moves the rows that hold its video, to the end of the queue.
LEMMA AddRequeues ==
  ASSUME QueueInv, NEW c \in Calls, ApplyAdd(c), NEW p \in Profiles,
         NEW i \in DOMAIN queue[p] \cap DOMAIN queue'[p], NEW j \in DOMAIN queue[p] \cap DOMAIN queue'[p],
         Before(queue[p], i, j), Before(queue'[p], j, i)
  PROVE  Requeued(p, i)
<1>. DEFINE call == calls[c]
            s == call.profile
            q == queue[s]
            r == Enqueued(q, call.video, issued + 1)
<1>1. /\ call.pc = "apply" /\ call.op = "add" /\ call.video \in Videos /\ s \in Profiles
      /\ q \in Rows /\ Ordered(q) /\ issued + 1 \notin DOMAIN q /\ IsQueue(queue[p])
      /\ queue \in [Profiles -> Rows] /\ calls \in [Calls -> Call]
      /\ issued \in Nat /\ MaxItems \in Nat
  BY RoutedRows, RowsAreQueues, QueueAssumption DEF ApplyAdd, QueueInv, Typed, TypeOK, RoutedCall
<1>2. queue'[p] # queue[p]
  BY <1>1, BeforeIsOrder
<1>3. ~Full(q, call.video) /\ queue' = [queue EXCEPT ![s] = r] /\ Goto(c, "reload")
  BY <1>2 DEF ApplyAdd
<1>4. p = s /\ queue'[p] = r
  BY <1>1, <1>2, <1>3
<1>5. issued + 1 \in Ids
  <2>1. c \in Adding
    BY <1>1 DEF Adding
  <2>2. Cardinality(Adding) \in Nat /\ IsFiniteSet(Adding)
    BY AddingIsFinite
  <2>3. Cardinality(Adding) # 0
    BY <2>1, <2>2, FS_EmptySet
  <2>. QED  BY <1>1, <2>2, <2>3 DEF QueueInv, Filled, AddsFit, Ids
<1>6. q[i].video = call.video
  <2>1. \A k, l \in DOMAIN q : Before(q, k, l) /\ Before(r, l, k) => q[k].video = call.video
    BY <1>1, <1>3, <1>5, EnqueuedRows
  <2>. HIDE DEF r
  <2>. QED  BY <1>4, <2>1
<1>7. calls'[c] # calls[c]
  BY <1>1, <1>3 DEF Goto, Call
<1>. QED  BY <1>1, <1>4, <1>6, <1>7 DEF Requeued

\* An order that is accepted is the one the user asked for.
LEMMA ReorderFollowsUser ==
  ASSUME QueueInv, NEW c \in Calls, ApplyReorder(c), NEW p \in Profiles, ~KeepsOrder(queue[p], queue'[p])
  PROVE  Reorders(p)
<1>. DEFINE call == calls[c]
            s == call.profile
            q == queue[s]
<1>1. /\ call.pc = "apply" /\ call.op = "reorder" /\ call.order \in Seq(Ids) /\ s \in Profiles
      /\ q \in Rows /\ Ordered(q) /\ IsQueue(queue[p])
      /\ queue \in [Profiles -> Rows] /\ calls \in [Calls -> Call]
  BY RoutedRows, RowsAreQueues DEF ApplyReorder, QueueInv, Typed, TypeOK, Call
<1>2. queue'[p] # queue[p]
  BY <1>1, BeforeIsOrder DEF KeepsOrder
<1>3. Complete(q, call.order) /\ queue' = [queue EXCEPT ![s] = Reordered(q, call.order)] /\ Finish(c)
  BY <1>2 DEF ApplyReorder
<1>4. p = s /\ queue'[p] = Reordered(q, call.order)
  BY <1>1, <1>2, <1>3
<1>5. \A n \in DOMAIN call.order : queue'[p][call.order[n]].pos = n - 1
  BY <1>1, <1>3, <1>4, ReorderedRows
<1>6. calls'[c].pc = "idle"
  BY <1>1, <1>3 DEF Finish, Idle
<1>. QED  BY <1>1, <1>4, <1>5, <1>6 DEF Reorders

\* The order of a queue is its user's: two items change places only when the
\* user reorders the queue of their profile, and then to the order that was asked
\* for, or when the one in front is queued again.  Deletions, normalizations and
\* marks of calls that overlap, and switches of the profile, never move an item.
THEOREM OrderFollowsUser == Spec => OrderIsTheUsers
<1>1. ASSUME QueueInv, [Next]_vars
      PROVE  [\A p \in Profiles : \A i, j \in DOMAIN queue[p] \cap DOMAIN queue'[p] :
                Before(queue[p], i, j) /\ Before(queue'[p], j, i) => Reorders(p) \/ Requeued(p, i)]_vars
  <2>. SUFFICES ASSUME NEW p \in Profiles,
                       NEW i \in DOMAIN queue[p] \cap DOMAIN queue'[p],
                       NEW j \in DOMAIN queue[p] \cap DOMAIN queue'[p],
                       Before(queue[p], i, j), Before(queue'[p], j, i)
                PROVE  Reorders(p) \/ Requeued(p, i)
    OBVIOUS
  <2>1. ~KeepsOrder(queue[p], queue'[p])
    BY DEF KeepsOrder
  <2>2. PICK c \in Calls : ApplyAdd(c) \/ ApplyReorder(c)
    BY <1>1, <2>1, QuietKeepsOrder
  <2>. QED  BY <1>1, <2>1, <2>2, AddRequeues, ReorderFollowsUser
<1>. QED  BY <1>1, QueueInvariant, PTL DEF Spec, OrderIsTheUsers
================================================================================
