---------------------------- MODULE IndexerProofs ----------------------------
(***************************************************************************)
(* The queue and the lifecycle of a workspace indexer: for any paths,      *)
(* event lists, timers and callers of Stop, publications of a workspace    *)
(* never overlap, no accepted path is lost and what waits is scheduled.    *)
(*                                                                         *)
(* Then the processes around it: lock, socket file and connections stay    *)
(* consistent for any number of servers and commands, whoever starts,      *)
(* stops, times out or dies.                                               *)
(***************************************************************************)
EXTENDS IndexerManager, IndexerServer, FiniteSetTheorems, SequenceTheorems,
        WellFoundedInduction, TLAPS
-----------------------------------------------------------------------------
(* The queue's helpers. *)

LEMMA LeastNumber ==
  ASSUME NEW T, T \subseteq Nat, T # {}
  PROVE  \E x \in T : \A y \in T : x <= y
<1>1. PICK x \in T : \A y \in T : ~ (<<y, x>> \in OpToRel(<, Nat))
  BY NatLessThanWellFounded, WFMin
<1>2. x \in T /\ \A y \in T : ~(y < x)
  BY <1>1 DEF OpToRel
<1> QED BY <1>2

(* How many of the positions are at i or before it. *)
Rank(positions, i) == Cardinality({j \in positions : j <= i})

LEMMA RankCounts ==
  ASSUME NEW n \in Nat, NEW positions, positions \subseteq 1 .. n
  PROVE  /\ IsFiniteSet(positions) /\ Cardinality(positions) \in Nat
         /\ Rank(positions, 0) = 0
         /\ Rank(positions, n) = Cardinality(positions)
         /\ \A i \in 0 .. n : Rank(positions, i) \in Nat
         /\ \A i \in 1 .. n : i \in positions => Rank(positions, i) = Rank(positions, i - 1) + 1
         /\ \A i \in 1 .. n : i \notin positions => Rank(positions, i) = Rank(positions, i - 1)
         /\ \A i, j \in positions : i < j => Rank(positions, i) < Rank(positions, j)
         /\ \A i \in positions : Rank(positions, i) \in 1 .. Cardinality(positions)
<1> DEFINE UpTo(i) == {j \in positions : j <= i}
<1>1. IsFiniteSet(positions) /\ Cardinality(positions) \in Nat
  <2>1. IsFiniteSet(1 .. n)
    BY FS_Interval
  <2>2. IsFiniteSet(positions)
    BY <2>1, FS_Subset
  <2> QED BY <2>2, FS_CardinalityType
<1>2. ASSUME NEW i
      PROVE  /\ IsFiniteSet(UpTo(i)) /\ Cardinality(UpTo(i)) \in Nat
             /\ Cardinality(UpTo(i)) <= Cardinality(positions)
  <2>1. UpTo(i) \subseteq positions
    OBVIOUS
  <2> HIDE DEF UpTo
  <2>2. IsFiniteSet(UpTo(i)) /\ Cardinality(UpTo(i)) <= Cardinality(positions)
    BY <1>1, <2>1, FS_Subset
  <2> QED BY <2>2, FS_CardinalityType
<1>3. \A i : Rank(positions, i) = Cardinality(UpTo(i))
  BY DEF Rank
<1>a. \A j \in positions : j \in Nat /\ 1 <= j /\ j <= n
  OBVIOUS
<1>4. UpTo(0) = {} /\ UpTo(n) = positions
  <2>1. \A j \in positions : ~(j <= 0)
    BY <1>a
  <2> QED BY <1>a, <2>1
<1>5. ASSUME NEW i \in 1 .. n
      PROVE  /\ i \in positions => UpTo(i) = UpTo(i - 1) \cup {i} /\ i \notin UpTo(i - 1)
             /\ i \notin positions => UpTo(i) = UpTo(i - 1)
  <2>1. \A j \in positions : (j <= i <=> j <= i - 1 \/ j = i) /\ ~(i <= i - 1)
    BY <1>a
  <2> QED BY <2>1
<1>6. ASSUME NEW i \in positions, NEW j \in positions, i < j
      PROVE  UpTo(i) \subseteq UpTo(j) /\ UpTo(i) # UpTo(j)
  <2>1. \A k \in positions : k <= i => k <= j
    BY <1>6, <1>a
  <2>2. j <= j /\ ~(j <= i)
    BY <1>6, <1>a
  <2>3. UpTo(i) \subseteq UpTo(j)
    BY <2>1
  <2>4. j \in UpTo(j) /\ j \notin UpTo(i)
    BY <2>2
  <2> QED BY <2>3, <2>4
<1>7. \A i \in positions : UpTo(i) # {}
  OBVIOUS
<1> HIDE DEF UpTo
<1>8. Cardinality(UpTo(0)) = 0 /\ Cardinality(UpTo(n)) = Cardinality(positions)
  BY <1>4, FS_EmptySet
<1>9. ASSUME NEW i \in 1 .. n
      PROVE  /\ i \in positions => Cardinality(UpTo(i)) = Cardinality(UpTo(i - 1)) + 1
             /\ i \notin positions => Cardinality(UpTo(i)) = Cardinality(UpTo(i - 1))
  BY <1>2, <1>5, FS_AddElement
<1>10. ASSUME NEW i \in positions, NEW j \in positions, i < j
       PROVE  Cardinality(UpTo(i)) < Cardinality(UpTo(j))
  <2>1. /\ Cardinality(UpTo(i)) <= Cardinality(UpTo(j))
        /\ Cardinality(UpTo(i)) = Cardinality(UpTo(j)) => UpTo(i) = UpTo(j)
    BY <1>2, <1>6, <1>10, FS_Subset
  <2> QED BY <1>2, <1>6, <1>10, <2>1
<1>11. \A i \in positions : Cardinality(UpTo(i)) \in 1 .. Cardinality(positions)
  BY <1>1, <1>2, <1>7, FS_EmptySet
<1> QED BY <1>1, <1>2, <1>3, <1>8, <1>9, <1>10, <1>11

(* Every rank is taken. *)
LEMMA RankReached ==
  ASSUME NEW n \in Nat, NEW positions, positions \subseteq 1 .. n,
         NEW k \in 1 .. Cardinality(positions)
  PROVE  \E i \in positions : Rank(positions, i) = k
<1> DEFINE T == {i \in 0 .. n : k <= Rank(positions, i)}
<1>r. /\ Cardinality(positions) \in Nat
      /\ Rank(positions, 0) = 0
      /\ Rank(positions, n) = Cardinality(positions)
      /\ \A i \in 0 .. n : Rank(positions, i) \in Nat
      /\ \A i \in 1 .. n : i \in positions => Rank(positions, i) = Rank(positions, i - 1) + 1
      /\ \A i \in 1 .. n : i \notin positions => Rank(positions, i) = Rank(positions, i - 1)
  BY RankCounts
<1>0. k \in Nat /\ k # 0 /\ k <= Cardinality(positions)
  BY <1>r
<1>1. T \subseteq Nat /\ n \in T
  BY <1>0, <1>r
<1>2. PICK i \in T : \A j \in T : i <= j
  <2> HIDE DEF T
  <2> QED BY <1>1, LeastNumber
<1>3. i \in 0 .. n /\ k <= Rank(positions, i)
  BY <1>2
<1>4. i # 0
  BY <1>0, <1>3, <1>r
<1>5. i \in 1 .. n /\ i - 1 \in 0 .. n
  BY <1>3, <1>4
<1>6. i - 1 \notin T
  BY <1>2, <1>5
<1>7. ~(k <= Rank(positions, i - 1))
  BY <1>5, <1>6
<1>8. Rank(positions, i) \in Nat /\ Rank(positions, i - 1) \in Nat
  BY <1>3, <1>5, <1>r
<1>9. i \in positions
  BY <1>3, <1>5, <1>7, <1>r
<1>10. Rank(positions, i) = Rank(positions, i - 1) + 1
  BY <1>5, <1>9, <1>r
<1> QED BY <1>0, <1>3, <1>7, <1>8, <1>9, <1>10

(* The elements at some positions of a sequence are a sequence of exactly  *)
(* those, and have no duplicates when the positions distinguish them.      *)
LEMMA ElementsAtHolds ==
  ASSUME NEW S, NEW seq \in Seq(S), NEW positions, positions \subseteq DOMAIN seq
  PROVE  LET e == ElementsAt(seq, positions) IN
         /\ e \in Seq(S) /\ Len(e) = Cardinality(positions) /\ DOMAIN e = 1 .. Len(e)
         /\ \A k \in DOMAIN e : \E i \in positions : e[k] = seq[i]
         /\ \A i \in positions : \E k \in DOMAIN e : e[k] = seq[i]
         /\ (\A i, j \in positions : seq[i] = seq[j] => i = j) => NoDuplicates(e)
<1> DEFINE e == ElementsAt(seq, positions)
           At(k) == CHOOSE i \in positions : Rank(positions, i) = k
           n == Len(seq)
<1>0. n \in Nat /\ DOMAIN seq = 1 .. n /\ positions \subseteq 1 .. n
  OBVIOUS
<1>1. Cardinality(positions) \in Nat
  BY <1>0, RankCounts
<1>2. e = [k \in 1 .. Cardinality(positions) |-> seq[At(k)]]
  BY DEF ElementsAt, Rank
<1>3. ASSUME NEW k \in 1 .. Cardinality(positions)
      PROVE  At(k) \in positions /\ Rank(positions, At(k)) = k
  <2>1. \E i \in positions : Rank(positions, i) = k
    BY <1>0, RankReached
  <2> QED BY <2>1
<1>4. ASSUME NEW i \in positions
      PROVE  Rank(positions, i) \in 1 .. Cardinality(positions) /\ At(Rank(positions, i)) = i
  <2>1. Rank(positions, i) \in 1 .. Cardinality(positions)
    BY <1>0, RankCounts
  <2>2. PICK j : j = At(Rank(positions, i))
    OBVIOUS
  <2>3. j \in positions /\ Rank(positions, j) = Rank(positions, i)
    BY <1>3, <2>1, <2>2
  <2>4. ~(i < j) /\ ~(j < i) /\ i \in Nat /\ j \in Nat
    BY <1>0, <1>1, <2>1, <2>3, RankCounts
  <2> QED BY <2>1, <2>2, <2>4
<1> HIDE DEF At, e
<1>5. \A i \in positions : seq[i] \in S
  OBVIOUS
<1>6. e \in [1 .. Cardinality(positions) -> S]
  BY <1>2, <1>3, <1>5
<1>7. /\ e \in Seq(S) /\ Len(e) = Cardinality(positions)
      /\ DOMAIN e = 1 .. Cardinality(positions)
  BY <1>1, <1>6
<1>8. \A k \in DOMAIN e : \E i \in positions : e[k] = seq[i]
  BY <1>2, <1>3, <1>7
<1>9. \A i \in positions : \E k \in DOMAIN e : e[k] = seq[i]
  BY <1>2, <1>4, <1>7
<1>10. ASSUME \A i, j \in positions : seq[i] = seq[j] => i = j
       PROVE  NoDuplicates(e)
  <2>1. ASSUME NEW k \in DOMAIN e, NEW l \in DOMAIN e, e[k] = e[l] PROVE k = l
    <3>1. k \in 1 .. Cardinality(positions) /\ l \in 1 .. Cardinality(positions)
      BY <1>7
    <3>2. At(k) = At(l)
      BY <1>2, <1>3, <1>10, <2>1, <3>1
    <3> QED BY <1>3, <3>1, <3>2
  <2> QED BY <2>1 DEF NoDuplicates
<1> QED BY <1>7, <1>8, <1>9, <1>10 DEF e

(* Every path of a list has a first position, and first positions          *)
(* distinguish the paths.                                                  *)
LEMMA FirstPositions ==
  ASSUME NEW seq \in Seq(Path)
  PROVE  /\ \A i \in DOMAIN seq : \E j \in DOMAIN seq : FirstAt(seq, j) /\ seq[j] = seq[i]
         /\ \A i, j \in DOMAIN seq : FirstAt(seq, i) /\ FirstAt(seq, j) /\ seq[i] = seq[j] => i = j
<1>0. Len(seq) \in Nat /\ DOMAIN seq = 1 .. Len(seq)
  OBVIOUS
<1>1. ASSUME NEW i \in DOMAIN seq
      PROVE  \E j \in DOMAIN seq : FirstAt(seq, j) /\ seq[j] = seq[i]
  <2> DEFINE T == {j \in DOMAIN seq : seq[j] = seq[i]}
  <2>1. T \subseteq Nat /\ T # {}
    BY <1>0
  <2>2. PICK j \in T : \A k \in T : j <= k
    <3> HIDE DEF T
    <3> QED BY <2>1, LeastNumber
  <2>3. j \in DOMAIN seq /\ seq[j] = seq[i]
    BY <2>2
  <2>4. ASSUME NEW k \in 1 .. j - 1 PROVE seq[k] # seq[j]
    <3>1. k \in DOMAIN seq /\ ~(j <= k)
      BY <1>0, <2>3
    <3> QED BY <2>2, <2>3, <3>1
  <2> QED BY <2>3, <2>4 DEF FirstAt
<1>2. ASSUME NEW i \in DOMAIN seq, NEW j \in DOMAIN seq,
             FirstAt(seq, i), FirstAt(seq, j), seq[i] = seq[j]
      PROVE  i = j
  <2>1. i \in Nat /\ j \in Nat /\ i >= 1 /\ j >= 1
    BY <1>0
  <2>2. ~(i < j)
    <3> SUFFICES ASSUME i < j PROVE FALSE
      OBVIOUS
    <3>1. i \in 1 .. j - 1
      BY <2>1
    <3> QED BY <1>2, <3>1 DEF FirstAt
  <2>3. ~(j < i)
    <3> SUFFICES ASSUME j < i PROVE FALSE
      OBVIOUS
    <3>1. j \in 1 .. i - 1
      BY <2>1
    <3> QED BY <1>2, <3>1 DEF FirstAt
  <2> QED BY <2>1, <2>2, <2>3
<1> QED BY <1>1, <1>2

(* uniquePaths keeps every path, once.                                     *)
LEMMA UniquePathsHolds ==
  ASSUME NEW seq \in Seq(Path)
  PROVE  /\ UniquePaths(seq) \in Seq(Path)
         /\ NoDuplicates(UniquePaths(seq))
         /\ ToSet(UniquePaths(seq)) = ToSet(seq)
<1>1. PICK firsts : firsts = {i \in DOMAIN seq : FirstAt(seq, i)}
  OBVIOUS
<1>2. PICK e : e = ElementsAt(seq, firsts)
  OBVIOUS
<1>3. firsts \subseteq DOMAIN seq /\ \A i, j \in firsts : seq[i] = seq[j] => i = j
  BY <1>1, FirstPositions
<1>4. /\ e \in Seq(Path) /\ NoDuplicates(e)
      /\ \A k \in DOMAIN e : \E i \in firsts : e[k] = seq[i]
      /\ \A i \in firsts : \E k \in DOMAIN e : e[k] = seq[i]
  BY <1>2, <1>3, ElementsAtHolds
<1>5. \A i \in DOMAIN seq : \E k \in DOMAIN e : e[k] = seq[i]
  BY <1>1, <1>4, FirstPositions
<1>6. ToSet(e) = ToSet(seq)
  BY <1>3, <1>4, <1>5 DEF ToSet
<1> QED BY <1>1, <1>2, <1>4, <1>6 DEF UniquePaths

(* Queueing events adds their paths and keeps the queue free of            *)
(* duplicates and its index in step.                                       *)
LEMMA QueueHolds ==
  ASSUME NEW w \in Worker, w.pendingSet = ToSet(w.pending), NoDuplicates(w.pending),
         NEW events \in Seq(Path)
  PROVE  LET q == Queue(w, events) IN
         /\ q \in Worker /\ q.pendingSet = ToSet(q.pending) /\ NoDuplicates(q.pending)
         /\ ToSet(q.pending) = ToSet(w.pending) \cup ToSet(events)
         /\ q.pending = <<>> => w.pending = <<>>
         /\ q.running = w.running /\ q.timer = w.timer /\ q.reconcileTimer = w.reconcileTimer
         /\ q.publishing = w.publishing /\ q.stopping = w.stopping
<1>1. PICK new : new = {i \in DOMAIN events : FirstAt(events, i) /\ events[i] \notin w.pendingSet}
  OBVIOUS
<1>2. PICK e : e = ElementsAt(events, new)
  OBVIOUS
<1>3. new \subseteq DOMAIN events /\ \A i, j \in new : events[i] = events[j] => i = j
  BY <1>1, FirstPositions
<1>4. /\ e \in Seq(Path) /\ NoDuplicates(e)
      /\ \A k \in DOMAIN e : \E i \in new : e[k] = events[i]
      /\ \A i \in new : \E k \in DOMAIN e : e[k] = events[i]
  BY <1>2, <1>3, ElementsAtHolds
<1>5. w.pending \in Seq(Path) /\ w.pendingSet \in SUBSET Path
  BY DEF Worker
<1>6. PICK pending : pending = w.pending \o e
  OBVIOUS
<1>7. /\ pending \in Seq(Path) /\ Len(pending) = Len(w.pending) + Len(e)
      /\ Len(w.pending) \in Nat /\ Len(e) \in Nat
      /\ DOMAIN pending = 1 .. Len(pending) /\ DOMAIN w.pending = 1 .. Len(w.pending)
      /\ DOMAIN e = 1 .. Len(e)
      /\ \A i \in 1 .. Len(w.pending) : pending[i] = w.pending[i] /\ i \in DOMAIN pending
      /\ \A i \in 1 .. Len(e) :
           pending[Len(w.pending) + i] = e[i] /\ Len(w.pending) + i \in DOMAIN pending
      /\ \A i \in DOMAIN pending :
           i \in DOMAIN w.pending \/ \E k \in DOMAIN e : i = Len(w.pending) + k
  <2>1. /\ pending \in Seq(Path) /\ Len(pending) = Len(w.pending) + Len(e)
        /\ \A i \in 1 .. Len(w.pending) + Len(e) :
             pending[i] = IF i <= Len(w.pending) THEN w.pending[i] ELSE e[i - Len(w.pending)]
    BY <1>4, <1>5, <1>6, ConcatProperties
  <2>2. /\ Len(w.pending) \in Nat /\ Len(e) \in Nat
        /\ DOMAIN pending = 1 .. Len(pending) /\ DOMAIN w.pending = 1 .. Len(w.pending)
        /\ DOMAIN e = 1 .. Len(e)
    BY <1>4, <1>5, <2>1
  <2>3. ASSUME NEW i \in 1 .. Len(w.pending)
        PROVE  pending[i] = w.pending[i] /\ i \in DOMAIN pending
    BY <2>1, <2>2
  <2>4. ASSUME NEW i \in 1 .. Len(e)
        PROVE  pending[Len(w.pending) + i] = e[i] /\ Len(w.pending) + i \in DOMAIN pending
    <3>1. /\ Len(w.pending) + i \in 1 .. Len(w.pending) + Len(e)
          /\ ~(Len(w.pending) + i <= Len(w.pending))
          /\ (Len(w.pending) + i) - Len(w.pending) = i
      BY <2>2
    <3> QED BY <2>1, <2>2, <3>1
  <2>5. ASSUME NEW i \in DOMAIN pending
        PROVE  i \in DOMAIN w.pending \/ \E k \in DOMAIN e : i = Len(w.pending) + k
    <3>1. CASE i <= Len(w.pending)
      BY <2>1, <2>2, <3>1
    <3>2. CASE ~(i <= Len(w.pending))
      <4>1. i - Len(w.pending) \in DOMAIN e /\ i = Len(w.pending) + (i - Len(w.pending))
        BY <2>1, <2>2, <3>2
      <4> QED BY <4>1
    <3> QED BY <3>1, <3>2
  <2> QED BY <2>1, <2>2, <2>3, <2>4, <2>5
<1>8. \A k \in DOMAIN e : \A i \in DOMAIN w.pending : e[k] # w.pending[i]
  BY <1>1, <1>4 DEF ToSet
<1>9. NoDuplicates(pending)
  <2>1. ASSUME NEW i \in DOMAIN pending, NEW j \in DOMAIN pending, pending[i] = pending[j]
        PROVE  i = j
    <3>1. CASE i \in DOMAIN w.pending /\ j \in DOMAIN w.pending
      BY <1>7, <2>1, <3>1 DEF NoDuplicates
    <3>2. CASE i \in DOMAIN w.pending /\ j \notin DOMAIN w.pending
      BY <1>7, <1>8, <2>1, <3>2
    <3>3. CASE i \notin DOMAIN w.pending /\ j \in DOMAIN w.pending
      BY <1>7, <1>8, <2>1, <3>3
    <3>4. CASE i \notin DOMAIN w.pending /\ j \notin DOMAIN w.pending
      <4>1. PICK k \in DOMAIN e : i = Len(w.pending) + k
        BY <1>7, <3>4
      <4>2. PICK l \in DOMAIN e : j = Len(w.pending) + l
        BY <1>7, <3>4
      <4>3. e[k] = e[l]
        BY <1>7, <2>1, <4>1, <4>2
      <4> QED BY <1>4, <4>1, <4>2, <4>3 DEF NoDuplicates
    <3> QED BY <3>1, <3>2, <3>3, <3>4
  <2> QED BY <2>1 DEF NoDuplicates
<1>10. ToSet(pending) = ToSet(w.pending) \cup ToSet(events)
  <2>1. ASSUME NEW p \in ToSet(pending) PROVE p \in ToSet(w.pending) \cup ToSet(events)
    <3>1. PICK i \in DOMAIN pending : p = pending[i]
      BY DEF ToSet
    <3>2. CASE i \in DOMAIN w.pending
      BY <1>7, <3>1, <3>2 DEF ToSet
    <3>3. CASE i \notin DOMAIN w.pending
      <4>1. PICK k \in DOMAIN e : i = Len(w.pending) + k
        BY <1>7, <3>3
      <4>2. p = e[k]
        BY <1>7, <3>1, <4>1
      <4> QED BY <1>3, <1>4, <4>2 DEF ToSet
    <3> QED BY <3>2, <3>3
  <2>2. ASSUME NEW p \in ToSet(w.pending) PROVE p \in ToSet(pending)
    BY <1>7 DEF ToSet
  <2>3. ASSUME NEW p \in ToSet(events), p \notin ToSet(w.pending) PROVE p \in ToSet(pending)
    <3>1. PICK i \in DOMAIN events : p = events[i]
      BY DEF ToSet
    <3>2. PICK j \in DOMAIN events : FirstAt(events, j) /\ events[j] = p
      BY <3>1, FirstPositions
    <3>3. j \in new
      BY <1>1, <2>3, <3>2
    <3>4. PICK k \in DOMAIN e : e[k] = p
      BY <1>4, <3>2, <3>3
    <3>5. Len(w.pending) + k \in DOMAIN pending /\ pending[Len(w.pending) + k] = p
      BY <1>7, <3>4
    <3> QED BY <3>5 DEF ToSet
  <2> QED BY <2>1, <2>2, <2>3
<1>11. pending = <<>> => w.pending = <<>>
  <2>1. Len(<<>>) = 0 /\ (w.pending # <<>> => Len(w.pending) # 0)
    BY <1>5, EmptySeq
  <2> QED BY <1>7, <2>1
<1>12. PICK q : q = Queue(w, events)
  OBVIOUS
<1>13. q = [w EXCEPT !.pending = pending, !.pendingSet = @ \cup ToSet(events)]
  BY <1>1, <1>2, <1>6, <1>12 DEF Queue
<1>14. ToSet(events) \subseteq Path
  BY DEF ToSet
<1>15. /\ q \in Worker /\ q.pending = pending /\ q.pendingSet = w.pendingSet \cup ToSet(events)
       /\ q.running = w.running /\ q.timer = w.timer /\ q.reconcileTimer = w.reconcileTimer
       /\ q.publishing = w.publishing /\ q.stopping = w.stopping
  BY <1>5, <1>7, <1>13, <1>14 DEF Worker
<1> QED BY <1>9, <1>10, <1>11, <1>12, <1>15

(* A failed batch returns to the queue, in front of what came meanwhile.   *)
LEMMA AfterFailureHolds ==
  ASSUME NEW w \in Worker, NEW paths \in Seq(Path)
  PROVE  LET d == AfterFailure(w, paths) IN
         /\ d \in Worker /\ d.pendingSet = ToSet(d.pending) /\ NoDuplicates(d.pending)
         /\ ToSet(w.pending) \subseteq ToSet(d.pending) /\ ToSet(paths) \subseteq ToSet(d.pending)
         /\ d.running = w.running /\ d.timer = w.timer /\ d.reconcileTimer = w.reconcileTimer
         /\ d.publishing = FALSE /\ d.stopping = w.stopping
<1>1. w.pending \in Seq(Path)
  BY DEF Worker
<1>2. PICK all : all = paths \o w.pending
  OBVIOUS
<1>3. /\ all \in Seq(Path) /\ Len(all) = Len(paths) + Len(w.pending)
      /\ \A i \in 1 .. Len(paths) + Len(w.pending) :
           all[i] = IF i <= Len(paths) THEN paths[i] ELSE w.pending[i - Len(paths)]
  BY <1>1, <1>2, ConcatProperties
<1>4. Len(paths) \in Nat /\ Len(w.pending) \in Nat /\ DOMAIN all = 1 .. Len(all)
      /\ DOMAIN paths = 1 .. Len(paths) /\ DOMAIN w.pending = 1 .. Len(w.pending)
  BY <1>1, <1>3
<1>5. ToSet(paths) \subseteq ToSet(all)
  <2>1. \A i \in DOMAIN paths : i \in DOMAIN all /\ all[i] = paths[i]
    BY <1>3, <1>4
  <2> QED BY <2>1 DEF ToSet
<1>6. ToSet(w.pending) \subseteq ToSet(all)
  <2>1. ASSUME NEW i \in DOMAIN w.pending
        PROVE  Len(paths) + i \in DOMAIN all /\ all[Len(paths) + i] = w.pending[i]
    <3>1. /\ Len(paths) + i \in 1 .. Len(paths) + Len(w.pending)
          /\ ~(Len(paths) + i <= Len(paths)) /\ (Len(paths) + i) - Len(paths) = i
      BY <1>4
    <3> QED BY <1>3, <1>4, <3>1
  <2> QED BY <2>1 DEF ToSet
<1>7. PICK pending : pending = UniquePaths(all)
  OBVIOUS
<1>8. pending \in Seq(Path) /\ NoDuplicates(pending) /\ ToSet(pending) = ToSet(all)
  BY <1>3, <1>7, UniquePathsHolds
<1>9. ToSet(pending) \subseteq Path
  BY <1>8 DEF ToSet
<1>10. PICK d : d = AfterFailure(w, paths)
  OBVIOUS
<1>11. d = [w EXCEPT !.publishing = FALSE, !.pending = pending, !.pendingSet = ToSet(pending)]
  BY <1>2, <1>7, <1>10 DEF AfterFailure
<1>12. /\ d \in Worker /\ d.pending = pending /\ d.pendingSet = ToSet(pending)
       /\ d.running = w.running /\ d.timer = w.timer /\ d.reconcileTimer = w.reconcileTimer
       /\ d.publishing = FALSE /\ d.stopping = w.stopping
  BY <1>8, <1>9, <1>11 DEF Worker
<1> QED BY <1>5, <1>6, <1>8, <1>10, <1>12
-----------------------------------------------------------------------------
(* The inductive invariant. *)
ManagerInv ==
  /\ QueueInv
  /\ OnePublicationAtATime
  /\ AcceptedPathsAreKept
  /\ WorkStaysScheduled

IsPublication(c) == c.kind = "publish" /\ c.at = "calling"
Scheduled(c) == c.kind = "publish" /\ c.at \in {"armed", "fired"}
Reconciles(c) == c.kind = "reconcile" /\ c.at # "idle"

(* A step that neither starts nor ends a publication leaves the batch in   *)
(* flight as it is.                                                        *)
LEMMA SamePublications ==
  ASSUME \A x \in Timer : \/ callback'[x] = callback[x]
                          \/ ~IsPublication(callback[x]) /\ ~IsPublication(callback'[x])
  PROVE  Publishing' = Publishing /\ InFlight' = InFlight
<1>1. Publishing' = Publishing
  BY DEF Publishing, IsPublication
<1>2. \A x \in Publishing : callback'[x] = callback[x]
  BY DEF Publishing, IsPublication
<1> QED BY <1>1, <1>2 DEF InFlight

LEMMA ArmedIs ==
  ASSUME NEW kind \in {"publish", "reconcile"}
  PROVE  /\ Armed(kind) \in Callback /\ Armed(kind).kind = kind /\ Armed(kind).at = "armed"
         /\ Idle \in Callback /\ Idle.kind = "publish" /\ Idle.at = "idle"
<1>1. /\ Idle.kind = "publish" /\ Idle.at = "idle" /\ Idle.paths = <<>>
      /\ Idle = [kind |-> "publish", at |-> "idle", paths |-> Idle.paths]
  BY DEF Idle
<1>2. Idle.paths \in Seq(Path)
  BY <1>1
<1>3. Idle \in Callback
  BY <1>1, <1>2 DEF Callback
<1>4. PICK c : c = Idle
  OBVIOUS
<1>5. Armed(kind) \in Callback /\ Armed(kind).kind = kind /\ Armed(kind).at = "armed"
  BY <1>3, <1>4 DEF Armed, Callback
<1> QED BY <1>1, <1>3, <1>5

LEMMA NewWorkerIs ==
  /\ NewWorker \in Worker /\ NoWorker \in Worker
  /\ NewWorker.running /\ ~NoWorker.running
  /\ \A w \in {NewWorker, NoWorker} :
       /\ w.pending = <<>> /\ w.pendingSet = {} /\ w.timer = NULL /\ w.reconcileTimer = NULL
       /\ ~w.publishing /\ ~w.stopping
  /\ ToSet(<<>>) = {} /\ NoDuplicates(<<>>)
<1>1. ASSUME NEW b \in BOOLEAN
      PROVE  /\ EmptyWorker(b) \in Worker /\ EmptyWorker(b).running = b
             /\ EmptyWorker(b).pending = <<>> /\ EmptyWorker(b).pendingSet = {}
             /\ EmptyWorker(b).timer = NULL /\ EmptyWorker(b).reconcileTimer = NULL
             /\ EmptyWorker(b).publishing = FALSE /\ EmptyWorker(b).stopping = FALSE
  <2>1. PICK none : none = <<>>
    OBVIOUS
  <2>2. none \in Seq(Path)
    BY <2>1
  <2> QED BY <2>1, <2>2 DEF EmptyWorker, Worker
<1>6. ToSet(<<>>) = {} /\ NoDuplicates(<<>>)
  BY DEF ToSet, NoDuplicates
<1> QED BY <1>1, <1>6 DEF NewWorker, NoWorker

LEMMA ManagerInit == Init => ManagerInv
<1> SUFFICES ASSUME Init PROVE ManagerInv
  OBVIOUS
<1>1. Idle \in Callback /\ Idle.kind = "publish" /\ Idle.at = "idle"
  BY ArmedIs
<1>2. worker = NoWorker /\ accepted = {} /\ \A t \in Timer : callback[t] = Idle
  BY DEF Init
<1>3. callback \in [Timer -> Callback] /\ stopper \in [Stopper -> {"out", "entered", "waiting"}]
  BY <1>1 DEF Init
<1>4. QueueInv
  BY <1>2, <1>3, NewWorkerIs DEF Init, QueueInv, TypeOK, StoppedIsEmpty, TimerIsOnItsWay
<1>5. Publishing = {}
  BY <1>1, <1>2 DEF Publishing
<1>6. OnePublicationAtATime /\ AcceptedPathsAreKept /\ WorkStaysScheduled
  BY <1>2, <1>5, NewWorkerIs
     DEF OnePublicationAtATime, AcceptedPathsAreKept, WorkStaysScheduled, Live
<1> QED BY <1>4, <1>6 DEF ManagerInv

(* What the invariant says, with the named conditions on callbacks.        *)
LEMMA ManagerSays ==
  ASSUME ManagerInv
  PROVE  /\ worker \in Worker /\ worker.pendingSet = ToSet(worker.pending)
         /\ NoDuplicates(worker.pending) /\ worker.pending \in Seq(Path)
         /\ worker.running \in BOOLEAN /\ worker.publishing \in BOOLEAN
         /\ worker.stopping \in BOOLEAN
         /\ callback \in [Timer -> Callback]
         /\ stopper \in [Stopper -> {"out", "entered", "waiting"}]
         /\ accepted \subseteq Path /\ disarmed \in BOOLEAN
         /\ ~worker.running => worker = NoWorker
         /\ worker.timer # NULL => /\ worker.timer \in Timer /\ Scheduled(callback[worker.timer])
                                   /\ Live /\ ~worker.publishing /\ worker.pending # <<>>
         /\ \A t, u \in Publishing : t = u
         /\ worker.publishing <=> Publishing # {}
         /\ worker.publishing => worker.running
         /\ accepted \subseteq ToSet(worker.pending) \cup InFlight
         /\ Live /\ ~disarmed => \E t \in Timer : Reconciles(callback[t])
         /\ Live /\ ~disarmed /\ accepted # {} =>
              worker.publishing \/ \E t \in Timer : Scheduled(callback[t])
<1>1. TypeOK /\ StoppedIsEmpty /\ TimerIsOnItsWay
  BY DEF ManagerInv, QueueInv
<1>2. /\ worker \in Worker /\ worker.pendingSet = ToSet(worker.pending)
      /\ NoDuplicates(worker.pending)
      /\ callback \in [Timer -> Callback]
      /\ stopper \in [Stopper -> {"out", "entered", "waiting"}]
      /\ accepted \subseteq Path /\ disarmed \in BOOLEAN
  BY <1>1 DEF TypeOK
<1>3. /\ worker.pending \in Seq(Path) /\ worker.timer \in Timer \cup {NULL}
      /\ worker.running \in BOOLEAN /\ worker.publishing \in BOOLEAN
      /\ worker.stopping \in BOOLEAN
  BY <1>2 DEF Worker
<1>4. worker.timer # NULL => /\ worker.timer \in Timer /\ Scheduled(callback[worker.timer])
                             /\ Live /\ ~worker.publishing /\ worker.pending # <<>>
  BY <1>1, <1>3 DEF TimerIsOnItsWay, Scheduled
<1>5. /\ \A t, u \in Publishing : t = u
      /\ worker.publishing <=> Publishing # {}
      /\ worker.publishing => worker.running
  BY DEF ManagerInv, OnePublicationAtATime
<1>6. accepted \subseteq ToSet(worker.pending) \cup InFlight
  BY DEF ManagerInv, AcceptedPathsAreKept
<1>7. /\ Live /\ ~disarmed => \E t \in Timer : Reconciles(callback[t])
      /\ Live /\ ~disarmed /\ accepted # {} =>
           worker.publishing \/ \E t \in Timer : Scheduled(callback[t])
  BY DEF ManagerInv, WorkStaysScheduled, Reconciles, Scheduled
<1> QED BY <1>1, <1>2, <1>3, <1>4, <1>5, <1>6, <1>7 DEF StoppedIsEmpty

(* What a step must establish for the invariant to hold after it.          *)
LEMMA ManagerKept ==
  ASSUME worker' \in Worker, worker'.pendingSet = ToSet(worker'.pending),
         NoDuplicates(worker'.pending),
         callback' \in [Timer -> Callback],
         stopper' \in [Stopper -> {"out", "entered", "waiting"}],
         accepted' \subseteq Path, disarmed' \in BOOLEAN,
         ~worker'.running => worker' = NoWorker,
         worker'.timer # NULL => /\ Scheduled(callback'[worker'.timer])
                                 /\ Live' /\ ~worker'.publishing /\ worker'.pending # <<>>,
         \A t, u \in Publishing' : t = u,
         worker'.publishing <=> Publishing' # {},
         worker'.publishing => worker'.running,
         accepted' \subseteq ToSet(worker'.pending) \cup InFlight',
         Live' /\ ~disarmed' => \E t \in Timer : Reconciles(callback'[t]),
         Live' /\ ~disarmed' /\ accepted' # {} =>
           worker'.publishing \/ \E t \in Timer : Scheduled(callback'[t])
  PROVE  ManagerInv'
<1>1. TypeOK'
  BY DEF TypeOK
<1>2. StoppedIsEmpty'
  <2>1. NoWorker' = NoWorker
    BY DEF NoWorker, EmptyWorker
  <2> QED BY <2>1 DEF StoppedIsEmpty
<1>3. TimerIsOnItsWay'
  BY DEF TimerIsOnItsWay, Scheduled
<1>4. OnePublicationAtATime'
  BY DEF OnePublicationAtATime
<1>5. AcceptedPathsAreKept'
  BY DEF AcceptedPathsAreKept
<1>6. WorkStaysScheduled'
  BY DEF WorkStaysScheduled, Reconciles, Scheduled
<1> QED BY <1>1, <1>2, <1>3, <1>4, <1>5, <1>6 DEF ManagerInv, QueueInv

(* Start on a workspace without a worker.                                  *)
LEMMA StartKeeps == ManagerInv /\ Start => ManagerInv'
<1> SUFFICES ASSUME ManagerInv, Start PROVE ManagerInv'
  OBVIOUS
<1>1. PICK t \in Free : /\ worker' = [NewWorker EXCEPT !.reconcileTimer = t]
                        /\ callback' = [callback EXCEPT ![t] = Armed("reconcile")]
  BY DEF Start
<1>2. /\ ~worker.running /\ UNCHANGED <<stopper, accepted, disarmed>>
      /\ t \in Timer /\ callback[t].at = "idle"
  BY <1>1 DEF Start, Free
<1>3. worker = NoWorker /\ worker.pending = <<>> /\ ~worker.publishing
  BY <1>2, ManagerSays, NewWorkerIs
<1>4. callback \in [Timer -> Callback]
  BY ManagerSays
<1>5. worker' = [running |-> TRUE, pending |-> <<>>, pendingSet |-> {},
                 timer |-> NULL, reconcileTimer |-> t, publishing |-> FALSE, stopping |-> FALSE]
  BY <1>1 DEF NewWorker, EmptyWorker
<1>6. /\ worker' \in Worker /\ worker'.pending = <<>> /\ worker'.pendingSet = {}
      /\ worker'.timer = NULL /\ worker'.running /\ ~worker'.publishing
  BY <1>2, <1>5 DEF Worker
<1>7. /\ callback' \in [Timer -> Callback] /\ Reconciles(callback'[t])
      /\ \A x \in Timer : x # t => callback'[x] = callback[x]
      /\ ~IsPublication(callback[t]) /\ ~IsPublication(callback'[t])
  BY <1>1, <1>2, <1>4, ArmedIs DEF Reconciles, IsPublication
<1>8. Publishing' = Publishing /\ InFlight' = InFlight
  BY <1>7, SamePublications
<1>9. Publishing = {}
  BY <1>3, ManagerSays
<1>10. accepted = {}
  <2>1. InFlight = {}
    BY <1>9 DEF InFlight
  <2> QED BY <1>3, <2>1, ManagerSays, NewWorkerIs
<1>11. accepted' \subseteq ToSet(worker'.pending) \cup InFlight'
  BY <1>2, <1>10
<1> QED BY <1>2, <1>6, <1>7, <1>8, <1>9, <1>10, <1>11, ManagerSays, ManagerKept, NewWorkerIs

(* Events enter the queue, from a caller or from the reconciler: unless    *)
(* they are refused half-way, whatever waits then has a timer, or had one, *)
(* or follows the publication in flight.                                   *)
LEMMA EnqueuedKeeps ==
  ASSUME ManagerInv, NEW callbacks \in [Timer -> Callback],
         \A x \in Timer : \/ callbacks[x] = callback[x]
                          \/ /\ callback[x].kind = "reconcile" /\ callback[x].at # "idle"
                             /\ callbacks[x].kind = "reconcile" /\ callbacks[x].at # "idle",
         NEW events \in Seq(Path), NEW rejected \in BOOLEAN,
         Enqueued(callbacks, events, rejected)
  PROVE  ManagerInv'
<1>1. PICK q : q = Queue(worker, events)
  OBVIOUS
<1>2. /\ q \in Worker /\ q.pendingSet = ToSet(q.pending) /\ NoDuplicates(q.pending)
      /\ ToSet(q.pending) = ToSet(worker.pending) \cup ToSet(events)
      /\ q.pending = <<>> => worker.pending = <<>>
      /\ q.running = worker.running /\ q.timer = worker.timer
      /\ q.publishing = worker.publishing /\ q.stopping = worker.stopping
  BY <1>1, ManagerSays, QueueHolds
<1>3. /\ Live /\ UNCHANGED <<stopper, disarmed>>
      /\ accepted' = IF rejected THEN accepted ELSE accepted \cup ToSet(events)
  BY DEF Enqueued
<1>a. accepted' \subseteq accepted \cup ToSet(events) /\ (rejected => accepted' = accepted)
  BY <1>3
<1>4. accepted' \subseteq ToSet(q.pending) \cup InFlight
  BY <1>2, <1>a, ManagerSays
<1>5. ToSet(events) \subseteq Path /\ ToSet(<<>>) = {}
  BY DEF ToSet
<1>6. worker.running /\ ~worker.stopping
  BY <1>3 DEF Live
<1>7. CASE ~rejected /\ q.pending # <<>> /\ ~worker.publishing /\ worker.timer = NULL
  <2>1. PICK t \in Free : /\ worker' = [q EXCEPT !.timer = t]
                          /\ callback' = [callbacks EXCEPT ![t] = Armed("publish")]
    BY <1>1, <1>7 DEF Enqueued
  <2>2. t \in Timer /\ callback[t].at = "idle" /\ t # NULL
    BY <2>1, ManagerAssumption DEF Free
  <2>3. /\ worker' \in Worker /\ worker'.pending = q.pending
        /\ worker'.pendingSet = q.pendingSet /\ worker'.timer = t
        /\ worker'.running = q.running /\ worker'.publishing = q.publishing
        /\ worker'.stopping = q.stopping
    BY <1>2, <2>1, <2>2 DEF Worker
  <2>4. /\ callback' \in [Timer -> Callback] /\ Scheduled(callback'[t])
        /\ \A x \in Timer : x # t => callback'[x] = callbacks[x]
        /\ ~IsPublication(callback[t]) /\ ~IsPublication(callback'[t])
    BY <2>1, <2>2, ArmedIs DEF Scheduled, IsPublication
  <2>5. Publishing' = Publishing /\ InFlight' = InFlight
    BY <2>4, SamePublications DEF IsPublication
  <2>6. \A x \in Timer : Reconciles(callback[x]) => Reconciles(callback'[x])
    BY <2>2, <2>4 DEF Reconciles
  <2>7. Live' /\ ~worker'.publishing /\ worker'.running
    BY <1>2, <1>6, <1>7, <2>3 DEF Live
  <2> QED BY <1>2, <1>3, <1>4, <1>5, <1>7, <1>a, <2>2, <2>3, <2>4, <2>5, <2>6, <2>7,
             ManagerSays, ManagerKept
<1>8. CASE ~(~rejected /\ q.pending # <<>> /\ ~worker.publishing /\ worker.timer = NULL)
  <2>1. worker' = q /\ callback' = callbacks
    BY <1>1, <1>8 DEF Enqueued
  <2>2. \A x \in Timer : /\ Reconciles(callback[x]) => Reconciles(callback'[x])
                         /\ Scheduled(callback[x]) => Scheduled(callback'[x])
    BY <2>1 DEF Reconciles, Scheduled
  <2>3. Publishing' = Publishing /\ InFlight' = InFlight
    BY <2>1, SamePublications DEF IsPublication
  <2>4. Live' /\ worker'.running
    BY <1>2, <1>6, <2>1 DEF Live
  <2>5. /\ \A t, u \in Publishing : t = u
        /\ worker.publishing <=> Publishing # {}
        /\ worker.timer # NULL => /\ worker.timer \in Timer /\ Scheduled(callback[worker.timer])
                                  /\ ~worker.publishing /\ worker.pending # <<>>
        /\ ~disarmed => \E t \in Timer : Reconciles(callback[t])
        /\ ~disarmed /\ accepted # {} =>
             worker.publishing \/ \E t \in Timer : Scheduled(callback[t])
    BY <1>3, ManagerSays
  <2>6. ~worker.publishing /\ q.pending = <<>> => accepted' = {}
    <3> SUFFICES ASSUME ~worker.publishing, q.pending = <<>> PROVE accepted' = {}
      OBVIOUS
    <3>1. InFlight = {}
      BY <2>5 DEF InFlight
    <3> QED BY <1>4, <1>5, <3>1
  <2>7. ~disarmed /\ accepted' # {} =>
          worker.publishing \/ \E t \in Timer : Scheduled(callback'[t])
    <3>1. CASE rejected
      BY <1>a, <2>2, <2>5, <3>1
    <3>2. CASE worker.timer # NULL
      BY <2>2, <2>5, <3>2
    <3>3. CASE ~worker.publishing /\ q.pending = <<>>
      BY <2>6, <3>3
    <3> QED BY <1>8, <3>1, <3>2, <3>3
  <2>8. accepted' \subseteq Path
    BY <1>5, <1>a, ManagerSays
  <2>9. /\ disarmed' \in BOOLEAN /\ stopper' \in [Stopper -> {"out", "entered", "waiting"}]
        /\ disarmed' = disarmed
    BY <1>3, ManagerSays
  <2>10. worker'.timer # NULL => /\ Scheduled(callback'[worker'.timer])
                                 /\ Live' /\ ~worker'.publishing /\ worker'.pending # <<>>
    BY <1>2, <2>1, <2>2, <2>4, <2>5
  <2> QED BY <1>2, <1>4, <2>1, <2>2, <2>3, <2>4, <2>5, <2>7, <2>8, <2>9, <2>10, ManagerKept
<1> QED BY <1>7, <1>8

(* A timer fires.                                                          *)
LEMMA FireKeeps == ASSUME ManagerInv, NEW t \in Timer, Fire(t) PROVE ManagerInv'
<1>1. /\ callback[t].at = "armed" /\ callback' = [callback EXCEPT ![t].at = "fired"]
      /\ UNCHANGED <<worker, stopper, accepted, disarmed>>
  BY DEF Fire
<1>2. callback \in [Timer -> Callback]
  BY ManagerSays
<1>3. /\ callback' \in [Timer -> Callback]
      /\ callback'[t].kind = callback[t].kind /\ callback'[t].at = "fired"
      /\ \A x \in Timer : x # t => callback'[x] = callback[x]
  BY <1>1, <1>2 DEF Callback
<1>4. Publishing' = Publishing /\ InFlight' = InFlight
  BY <1>1, <1>3, SamePublications DEF IsPublication
<1>5. \A x \in Timer : /\ Reconciles(callback[x]) => Reconciles(callback'[x])
                       /\ Scheduled(callback[x]) => Scheduled(callback'[x])
  BY <1>1, <1>3 DEF Reconciles, Scheduled
<1>6. Live' <=> Live
  BY <1>1 DEF Live
<1> QED BY <1>1, <1>3, <1>4, <1>5, <1>6, ManagerSays, ManagerKept

(* A publication begins: no other is in flight, even if the callback is    *)
(* one left over from a stopped worker.                                    *)
LEMMA PublishBeginsKeeps == ASSUME ManagerInv, NEW t \in Timer, PublishBegins(t) PROVE ManagerInv'
<1>1. /\ callback[t].kind = "publish" /\ callback[t].at = "fired"
      /\ UNCHANGED <<stopper, accepted, disarmed>>
  BY DEF PublishBegins
<1>2. callback \in [Timer -> Callback] /\ worker \in Worker /\ worker.pending \in Seq(Path)
  BY ManagerSays
<1>3. t \notin Publishing
  BY <1>1 DEF Publishing
<1>4. CASE Live /\ ~worker.publishing /\ worker.pending # <<>>
  <2>1. /\ callback' = [callback EXCEPT ![t].at = "calling", ![t].paths = worker.pending]
        /\ worker' = [worker EXCEPT !.pending = <<>>, !.pendingSet = {}, !.timer = NULL,
                                    !.publishing = TRUE]
    BY <1>4 DEF PublishBegins
  <2>2. /\ callback' \in [Timer -> Callback]
        /\ callback'[t].kind = "publish" /\ callback'[t].at = "calling"
        /\ callback'[t].paths = worker.pending
        /\ \A x \in Timer : x # t => callback'[x] = callback[x]
    BY <1>1, <1>2, <2>1 DEF Callback
  <2>3. PICK none : none = <<>>
    OBVIOUS
  <2>4. none \in Seq(Path)
    BY <2>3
  <2>5. worker' = [worker EXCEPT !.pending = none, !.pendingSet = {}, !.timer = NULL,
                                 !.publishing = TRUE]
    BY <2>1, <2>3
  <2>6. /\ worker' \in Worker /\ worker'.pending = none /\ worker'.pendingSet = {}
        /\ worker'.timer = NULL /\ worker'.publishing = TRUE
        /\ worker'.running = worker.running /\ worker'.stopping = worker.stopping
    BY <1>2, <2>4, <2>5 DEF Worker
  <2>7. Publishing = {}
    BY <1>4, ManagerSays
  <2>8. Publishing' = {t}
    <3>1. \A x \in Timer : x \in Publishing' <=> x = t
      BY <2>2, <2>7 DEF Publishing
    <3>2. Publishing' \subseteq Timer
      BY DEF Publishing
    <3> QED BY <3>1, <3>2
  <2>9. InFlight' = ToSet(worker.pending)
    BY <2>2, <2>8 DEF InFlight
  <2>10. InFlight = {}
    BY <2>7 DEF InFlight
  <2>11. accepted' \subseteq InFlight'
    BY <1>1, <2>9, <2>10, ManagerSays
  <2>12. \A x \in Timer : Reconciles(callback[x]) => Reconciles(callback'[x])
    BY <1>1, <2>2 DEF Reconciles
  <2>13. worker'.running
    BY <1>4, <2>6 DEF Live
  <2>14. Live /\ ~disarmed => \E x \in Timer : Reconciles(callback[x])
    BY ManagerSays
  <2>15. ToSet(worker'.pending) = {} /\ NoDuplicates(worker'.pending)
    BY <2>3, <2>6, NewWorkerIs
  <2>16. /\ stopper' \in [Stopper -> {"out", "entered", "waiting"}]
         /\ accepted' \subseteq Path /\ disarmed' \in BOOLEAN /\ disarmed' = disarmed
    BY <1>1, ManagerSays
  <2> QED BY <1>4, <2>2, <2>6, <2>8, <2>11, <2>12, <2>13, <2>14, <2>15, <2>16, ManagerKept
<1>5. CASE ~(Live /\ ~worker.publishing /\ worker.pending # <<>>)
  <2>1. callback' = [callback EXCEPT ![t] = Idle] /\ UNCHANGED worker
    BY <1>5 DEF PublishBegins
  <2>2. /\ callback' \in [Timer -> Callback]
        /\ callback'[t].at = "idle" /\ callback'[t].kind = "publish"
        /\ \A x \in Timer : x # t => callback'[x] = callback[x]
    BY <1>2, <2>1, ArmedIs
  <2>3. Publishing' = Publishing /\ InFlight' = InFlight
    BY <1>1, <2>2, SamePublications DEF IsPublication
  <2>4. \A x \in Timer : Reconciles(callback[x]) => Reconciles(callback'[x])
    BY <1>1, <2>2 DEF Reconciles
  <2>5. Live' <=> Live
    BY <2>1 DEF Live
  <2>6. worker.timer # NULL => worker.timer # t /\ worker.timer \in Timer
    BY <1>5, ManagerSays
  <2>7. Live /\ ~worker.publishing => accepted = {}
    <3> SUFFICES ASSUME Live, ~worker.publishing PROVE accepted = {}
      OBVIOUS
    <3>1. worker.pending = <<>> /\ Publishing = {}
      BY <1>5, ManagerSays
    <3>2. InFlight = {}
      BY <3>1 DEF InFlight
    <3> QED BY <3>1, <3>2, ManagerSays, NewWorkerIs
  <2> QED BY <1>1, <2>1, <2>2, <2>3, <2>4, <2>5, <2>6, <2>7, ManagerSays, ManagerKept
<1> QED BY <1>4, <1>5

(* A publication ends: it was the only one, and the worker whose batch it  *)
(* was takes a failed batch back.                                          *)
LEMMA PublishEndsKeeps ==
  ASSUME ManagerInv, NEW t \in Timer, NEW ok \in BOOLEAN, PublishEnds(t, ok)
  PROVE  ManagerInv'
<1>1. /\ callback[t].kind = "publish" /\ callback[t].at = "calling" /\ disarmed' = disarmed
      /\ stopper' = [s \in Stopper |-> IF stopper[s] = "waiting" THEN "entered" ELSE stopper[s]]
      /\ accepted' = IF ok THEN accepted \ (ToSet(callback[t].paths) \ worker.pendingSet)
                     ELSE accepted
  BY DEF PublishEnds
<1>2. /\ callback \in [Timer -> Callback] /\ worker \in Worker
      /\ stopper \in [Stopper -> {"out", "entered", "waiting"}]
      /\ worker.pendingSet = ToSet(worker.pending) /\ NoDuplicates(worker.pending)
      /\ worker.pending \in Seq(Path)
  BY ManagerSays
<1>3. callback[t].paths \in Seq(Path)
  BY <1>2 DEF Callback
<1>4. t \in Publishing /\ Publishing \subseteq Timer
  BY <1>1 DEF Publishing
<1>5. /\ Publishing = {t} /\ worker.publishing /\ worker.running /\ worker.timer = NULL
  BY <1>4, ManagerSays
<1>6. InFlight = ToSet(callback[t].paths)
  BY <1>5 DEF InFlight
<1>7. PICK done \in {IF ok THEN AfterSuccess(worker) ELSE AfterFailure(worker, callback[t].paths)} :
        \/ /\ done.pending # <<>> /\ ~done.stopping /\ done.timer = NULL
           /\ \E u \in Free \cup {t} :
                /\ worker' = [done EXCEPT !.timer = u]
                /\ callback' = [callback EXCEPT ![t] = Idle, ![u] = Armed("publish")]
        \/ /\ ~(done.pending # <<>> /\ ~done.stopping /\ done.timer = NULL)
           /\ worker' = done /\ callback' = [callback EXCEPT ![t] = Idle]
  BY DEF PublishEnds
<1>8. /\ done \in Worker /\ done.pendingSet = ToSet(done.pending) /\ NoDuplicates(done.pending)
      /\ ToSet(worker.pending) \subseteq ToSet(done.pending)
      /\ ~ok => ToSet(callback[t].paths) \subseteq ToSet(done.pending)
      /\ done.running = worker.running /\ done.timer = worker.timer
      /\ done.publishing = FALSE /\ done.stopping = worker.stopping
  <2>1. CASE ok
    <3>1. done = [worker EXCEPT !.publishing = FALSE]
      BY <1>7, <2>1 DEF AfterSuccess
    <3> QED BY <1>2, <2>1, <3>1 DEF Worker
  <2>2. CASE ~ok
    <3>1. done = AfterFailure(worker, callback[t].paths)
      BY <1>7, <2>2
    <3> QED BY <1>2, <1>3, <3>1, AfterFailureHolds
  <2> QED BY <2>1, <2>2
<1>9. accepted' \subseteq ToSet(done.pending) /\ accepted' \subseteq accepted
  <2>1. accepted \subseteq ToSet(worker.pending) \cup ToSet(callback[t].paths)
    BY <1>6, ManagerSays
  <2>2. CASE ok
    BY <1>1, <1>2, <1>8, <2>1, <2>2
  <2>3. CASE ~ok
    BY <1>1, <1>8, <2>1, <2>3
  <2> QED BY <2>2, <2>3
<1>10. stopper' \in [Stopper -> {"out", "entered", "waiting"}]
  BY <1>1, <1>2
<1>11. accepted' \subseteq Path /\ disarmed' \in BOOLEAN
  BY <1>1, <1>9, ManagerSays
<1>12. Live /\ ~disarmed => \E x \in Timer : Reconciles(callback[x])
  BY ManagerSays
<1>13. CASE done.pending # <<>> /\ ~done.stopping /\ done.timer = NULL
  <2>1. PICK u \in Free \cup {t} :
          /\ worker' = [done EXCEPT !.timer = u]
          /\ callback' = [callback EXCEPT ![t] = Idle, ![u] = Armed("publish")]
    BY <1>7, <1>13
  <2>2. u \in Timer /\ u # NULL /\ (u = t \/ callback[u].at = "idle")
    BY <2>1, ManagerAssumption DEF Free
  <2>3. /\ worker' \in Worker /\ worker'.pending = done.pending
        /\ worker'.pendingSet = done.pendingSet /\ worker'.timer = u
        /\ worker'.running = done.running /\ worker'.publishing = done.publishing
        /\ worker'.stopping = done.stopping
    BY <1>8, <2>1, <2>2 DEF Worker
  <2>4. /\ callback' \in [Timer -> Callback] /\ Scheduled(callback'[u])
        /\ \A x \in Timer : x # t /\ x # u => callback'[x] = callback[x]
        /\ ~IsPublication(callback'[t]) /\ ~IsPublication(callback'[u])
    BY <1>2, <2>1, <2>2, ArmedIs DEF Scheduled, IsPublication
  <2>5. Publishing' = {}
    <3>1. \A x \in Timer : x \notin Publishing'
      BY <1>5, <2>4 DEF Publishing, IsPublication
    <3> QED BY <3>1 DEF Publishing
  <2>6. \A x \in Timer : Reconciles(callback[x]) => Reconciles(callback'[x])
    BY <1>1, <2>2, <2>4 DEF Reconciles
  <2>7. /\ Live' /\ Live /\ worker'.running /\ ~worker'.publishing
    BY <1>5, <1>8, <1>13, <2>3 DEF Live
  <2> QED BY <1>1, <1>8, <1>9, <1>10, <1>11, <1>12, <1>13, <2>2, <2>3, <2>4, <2>5, <2>6, <2>7,
             ManagerKept
<1>14. CASE ~(done.pending # <<>> /\ ~done.stopping /\ done.timer = NULL)
  <2>1. worker' = done /\ callback' = [callback EXCEPT ![t] = Idle]
    BY <1>7, <1>14
  <2>2. /\ callback' \in [Timer -> Callback] /\ ~IsPublication(callback'[t])
        /\ \A x \in Timer : x # t => callback'[x] = callback[x]
    BY <1>2, <2>1, ArmedIs DEF IsPublication
  <2>3. Publishing' = {}
    <3>1. \A x \in Timer : x \notin Publishing'
      BY <1>5, <2>2 DEF Publishing, IsPublication
    <3> QED BY <3>1 DEF Publishing
  <2>4. \A x \in Timer : Reconciles(callback[x]) => Reconciles(callback'[x])
    BY <1>1, <2>2 DEF Reconciles
  <2>5. /\ Live' <=> Live
    BY <1>8, <2>1 DEF Live
  <2>6. Live' => accepted' = {}
    <3> SUFFICES ASSUME Live' PROVE accepted' = {}
      OBVIOUS
    <3>1. ~done.stopping
      BY <2>1 DEF Live
    <3>2. done.pending = <<>>
      BY <1>5, <1>8, <1>14, <3>1
    <3> QED BY <1>9, <3>2, NewWorkerIs
  <2> QED BY <1>1, <1>5, <1>8, <1>9, <1>10, <1>11, <1>12, <2>1, <2>2, <2>3, <2>4, <2>5, <2>6,
             ManagerKept
<1> QED BY <1>13, <1>14
-----------------------------------------------------------------------------
(* A step of a reconciliation that only moves its callback on.             *)
LEMMA ReconcileMoves ==
  ASSUME ManagerInv, NEW t \in Timer, callback[t].kind = "reconcile",
         callback' \in [Timer -> Callback], callback'[t].at # "calling" \/ callback'[t].kind # "publish",
         \A x \in Timer : x # t => callback'[x] = callback[x],
         Live /\ ~disarmed => \E x \in Timer : Reconciles(callback'[x]),
         UNCHANGED <<stopper, accepted, disarmed>>,
         worker' \in Worker, ~worker'.running => worker' = NoWorker,
         worker'.pending = worker.pending, worker'.pendingSet = worker.pendingSet,
         worker'.timer = worker.timer, worker'.running = worker.running,
         worker'.publishing = worker.publishing, worker'.stopping = worker.stopping
  PROVE  ManagerInv'
<1>1. Publishing' = Publishing /\ InFlight' = InFlight
  BY SamePublications DEF IsPublication
<1>2. \A x \in Timer : Scheduled(callback[x]) => Scheduled(callback'[x])
  BY DEF Scheduled
<1>3. Live' <=> Live
  BY DEF Live
<1> QED BY <1>1, <1>2, <1>3, ManagerSays, ManagerKept

LEMMA ReconcileKeeps ==
  ASSUME ManagerInv, NEW t \in Timer,
         ReconcileBegins(t) \/ ReconcileReturns(t)
  PROVE  ManagerInv'
<1>1. callback \in [Timer -> Callback] /\ worker \in Worker
      /\ (~worker.running => worker = NoWorker)
      /\ (Live /\ ~disarmed => \E x \in Timer : Reconciles(callback[x]))
  BY ManagerSays
<1>2. CASE ReconcileReturns(t)
  <2>1. /\ callback[t].kind = "reconcile" /\ callback' = [callback EXCEPT ![t].at = "returned"]
        /\ UNCHANGED <<worker, stopper, accepted, disarmed>>
    BY <1>2 DEF ReconcileReturns
  <2>2. /\ callback' \in [Timer -> Callback]
        /\ callback'[t].kind = "reconcile" /\ callback'[t].at = "returned"
        /\ \A x \in Timer : x # t => callback'[x] = callback[x]
    BY <1>1, <2>1 DEF Callback
  <2>3. Reconciles(callback'[t])
    BY <2>2 DEF Reconciles
  <2> QED BY <1>1, <2>1, <2>2, <2>3, ReconcileMoves
<1>3. CASE ReconcileBegins(t) /\ Live
  <2>1. /\ callback[t].kind = "reconcile" /\ callback' = [callback EXCEPT ![t].at = "calling"]
        /\ worker' = [worker EXCEPT !.reconcileTimer = NULL]
        /\ UNCHANGED <<stopper, accepted, disarmed>>
    BY <1>3 DEF ReconcileBegins
  <2>2. /\ callback' \in [Timer -> Callback]
        /\ callback'[t].kind = "reconcile" /\ callback'[t].at = "calling"
        /\ \A x \in Timer : x # t => callback'[x] = callback[x]
    BY <1>1, <2>1 DEF Callback
  <2>3. Reconciles(callback'[t])
    BY <2>2 DEF Reconciles
  <2>4. /\ worker' \in Worker
        /\ worker'.pending = worker.pending /\ worker'.pendingSet = worker.pendingSet
        /\ worker'.timer = worker.timer /\ worker'.running = worker.running
        /\ worker'.publishing = worker.publishing /\ worker'.stopping = worker.stopping
    BY <1>1, <2>1 DEF Worker
  <2>5. worker.running
    BY <1>3 DEF Live
  <2> QED BY <2>1, <2>2, <2>3, <2>4, <2>5, ReconcileMoves
<1>4. CASE ReconcileBegins(t) /\ ~Live
  <2>1. /\ callback[t].kind = "reconcile" /\ callback' = [callback EXCEPT ![t] = Idle]
        /\ UNCHANGED <<worker, stopper, accepted, disarmed>>
    BY <1>4 DEF ReconcileBegins
  <2>2. /\ callback' \in [Timer -> Callback] /\ callback'[t].at = "idle"
        /\ \A x \in Timer : x # t => callback'[x] = callback[x]
    BY <1>1, <2>1, ArmedIs
  <2> QED BY <1>1, <1>4, <2>1, <2>2, ReconcileMoves
<1> QED BY <1>2, <1>3, <1>4

(* The reconciliation is over: the worker found now, if there is one, gets *)
(* the next timer.                                                         *)
LEMMA ReconcileEndsKeeps ==
  ASSUME ManagerInv, NEW t \in Timer, ReconcileEnds(t)
  PROVE  ManagerInv'
<1>1. /\ callback[t].kind = "reconcile" /\ callback[t].at = "returned"
      /\ UNCHANGED <<stopper, accepted, disarmed>>
  BY DEF ReconcileEnds
<1>2. callback \in [Timer -> Callback] /\ worker \in Worker
      /\ (~worker.running => worker = NoWorker)
  BY ManagerSays
<1>3. CASE Live
  <2>1. PICK u \in Free \cup {t} :
          /\ worker' = [worker EXCEPT !.reconcileTimer = u]
          /\ callback' = [callback EXCEPT ![t] = Idle, ![u] = Armed("reconcile")]
    BY <1>3 DEF ReconcileEnds
  <2>2. u \in Timer /\ (u = t \/ callback[u].at = "idle")
    BY <2>1 DEF Free
  <2>3. /\ worker' \in Worker
        /\ worker'.pending = worker.pending /\ worker'.pendingSet = worker.pendingSet
        /\ worker'.timer = worker.timer /\ worker'.running = worker.running
        /\ worker'.publishing = worker.publishing /\ worker'.stopping = worker.stopping
    BY <1>2, <2>1, <2>2 DEF Worker
  <2>4. /\ callback' \in [Timer -> Callback] /\ Reconciles(callback'[u])
        /\ \A x \in Timer : x # t /\ x # u => callback'[x] = callback[x]
        /\ ~IsPublication(callback'[t]) /\ ~IsPublication(callback'[u])
        /\ ~IsPublication(callback[t]) /\ ~IsPublication(callback[u])
        /\ ~Scheduled(callback[t]) /\ ~Scheduled(callback[u])
    BY <1>1, <1>2, <2>1, <2>2, ArmedIs DEF Reconciles, IsPublication, Scheduled
  <2>5. Publishing' = Publishing /\ InFlight' = InFlight
    BY <2>4, SamePublications
  <2>6. \A x \in Timer : Scheduled(callback[x]) => Scheduled(callback'[x])
    BY <2>4
  <2>7. Live' /\ worker'.running
    BY <1>3, <2>3 DEF Live
  <2> QED BY <1>1, <1>3, <2>2, <2>3, <2>4, <2>5, <2>6, <2>7, ManagerSays, ManagerKept
<1>4. CASE ~Live
  <2>1. callback' = [callback EXCEPT ![t] = Idle] /\ UNCHANGED worker
    BY <1>4 DEF ReconcileEnds
  <2>2. /\ callback' \in [Timer -> Callback] /\ callback'[t].at = "idle"
        /\ \A x \in Timer : x # t => callback'[x] = callback[x]
    BY <1>2, <2>1, ArmedIs
  <2> QED BY <1>1, <1>2, <1>4, <2>1, <2>2, ReconcileMoves
<1> QED BY <1>3, <1>4
-----------------------------------------------------------------------------
(* Stop is called: nothing but the call is noted.                          *)
LEMMA CallStopKeeps == ASSUME ManagerInv, NEW s \in Stopper, CallStop(s) PROVE ManagerInv'
<1>1. /\ stopper' = [stopper EXCEPT ![s] = "entered"]
      /\ UNCHANGED <<worker, callback, accepted, disarmed>>
  BY DEF CallStop
<1>2. stopper' \in [Stopper -> {"out", "entered", "waiting"}]
  BY <1>1, ManagerSays
<1>3. Publishing' = Publishing /\ InFlight' = InFlight /\ (Live' <=> Live)
  BY <1>1 DEF Publishing, InFlight, Live
<1> QED BY <1>1, <1>2, <1>3, ManagerSays, ManagerKept

(* A turn of Stop: it disarms the timers of a worker only if it marks the  *)
(* worker stopping, forgets it, or leaves it without timers for good.      *)
LEMMA StopTurnKeeps == ASSUME ManagerInv, NEW s \in Stopper, StopTurn(s) PROVE ManagerInv'
<1>1. /\ worker \in Worker /\ callback \in [Timer -> Callback]
      /\ stopper \in [Stopper -> {"out", "entered", "waiting"}]
      /\ \A t, u \in Publishing : t = u
      /\ worker.publishing <=> Publishing # {}
      /\ worker.pendingSet = ToSet(worker.pending) /\ NoDuplicates(worker.pending)
      /\ accepted \subseteq Path /\ disarmed \in BOOLEAN
      /\ accepted \subseteq ToSet(worker.pending) \cup InFlight
  BY ManagerSays
<1>2. CASE ~worker.running
  <2>1. /\ stopper' = [stopper EXCEPT ![s] = "out"]
        /\ UNCHANGED <<worker, callback, accepted, disarmed>>
    BY <1>2 DEF StopTurn
  <2>2. stopper' \in [Stopper -> {"out", "entered", "waiting"}]
    BY <1>1, <2>1
  <2>3. Publishing' = Publishing /\ InFlight' = InFlight /\ (Live' <=> Live)
    BY <2>1 DEF Publishing, InFlight, Live
  <2> QED BY <2>1, <2>2, <2>3, ManagerSays, ManagerKept
<1>3. CASE worker.running
  <2>1. PICK stopped : stopped = [worker EXCEPT !.stopping = TRUE, !.timer = NULL,
                                                !.reconcileTimer = NULL]
    OBVIOUS
  <2>2. /\ stopped \in Worker /\ stopped.pending = worker.pending
        /\ stopped.pendingSet = worker.pendingSet /\ stopped.timer = NULL
        /\ stopped.running = worker.running /\ stopped.publishing = worker.publishing
        /\ stopped.stopping = TRUE
    BY <1>1, <2>1 DEF Worker
  <2>3. /\ callback' = Disarmed({worker.timer, worker.reconcileTimer})
        /\ \/ /\ worker.publishing /\ worker' = stopped
              /\ stopper' = [stopper EXCEPT ![s] = "waiting"]
              /\ UNCHANGED <<accepted, disarmed>>
           \/ /\ ~worker.publishing /\ worker' = NoWorker
              /\ stopper' = [stopper EXCEPT ![s] = "out"]
              /\ accepted' = {} /\ disarmed' = FALSE
           \/ /\ ~worker.publishing /\ worker' = [stopped EXCEPT !.stopping = FALSE]
              /\ stopper' = [stopper EXCEPT ![s] = "out"]
              /\ disarmed' = TRUE /\ UNCHANGED accepted
    BY <1>3, <2>1 DEF StopTurn
  <2>4. stopper' \in [Stopper -> {"out", "entered", "waiting"}]
    BY <1>1, <2>3
  <2>5. /\ callback' \in [Timer -> Callback]
        /\ \A x \in Timer : \/ callback'[x] = callback[x]
                            \/ callback[x].at = "armed" /\ callback'[x] = Idle
    <3>1. PICK idle : idle = Idle
      OBVIOUS
    <3>2. idle \in Callback
      BY <3>1, ArmedIs
    <3>3. PICK timers : timers = {worker.timer, worker.reconcileTimer}
      OBVIOUS
    <3>4. callback' = [x \in Timer |-> IF x \in timers /\ callback[x].at = "armed"
                                       THEN idle ELSE callback[x]]
      BY <2>3, <3>1, <3>3 DEF Disarmed
    <3>5. ASSUME NEW x \in Timer
          PROVE  \/ callback'[x] = callback[x]
                 \/ callback[x].at = "armed" /\ callback'[x] = idle
      <4>1. CASE x \in timers /\ callback[x].at = "armed"
        BY <3>4, <4>1
      <4>2. CASE ~(x \in timers /\ callback[x].at = "armed")
        BY <3>4, <4>2
      <4> QED BY <4>1, <4>2
    <3>6. \A x \in Timer : callback[x] \in Callback
      BY <1>1
    <3>7. ASSUME NEW x \in Timer PROVE callback'[x] \in Callback
      BY <3>2, <3>5, <3>6
    <3>8. callback' \in [Timer -> Callback]
      BY <3>4, <3>7
    <3> QED BY <3>1, <3>5, <3>8
  <2>6. Publishing' = Publishing /\ InFlight' = InFlight
    BY <2>5, SamePublications, ArmedIs DEF IsPublication
  <2>7. CASE worker.publishing /\ worker' = stopped /\ UNCHANGED <<accepted, disarmed>>
    <3>1. ~Live'
      BY <2>2, <2>7 DEF Live
    <3> QED BY <1>1, <1>3, <2>2, <2>4, <2>5, <2>6, <2>7, <3>1, ManagerKept
  <2>8. CASE ~worker.publishing /\ worker' = NoWorker /\ accepted' = {} /\ disarmed' = FALSE
    <3>1. ~Live'
      BY <2>8, NewWorkerIs DEF Live
    <3>2. Publishing = {}
      BY <1>1, <2>8
    <3> QED BY <2>4, <2>5, <2>6, <2>8, <3>1, <3>2, NewWorkerIs, ManagerKept
  <2>9. CASE /\ ~worker.publishing /\ worker' = [stopped EXCEPT !.stopping = FALSE]
             /\ disarmed' = TRUE /\ UNCHANGED accepted
    <3>1. /\ worker' \in Worker /\ worker'.pending = stopped.pending
          /\ worker'.pendingSet = stopped.pendingSet /\ worker'.timer = stopped.timer
          /\ worker'.running = stopped.running /\ worker'.publishing = stopped.publishing
      BY <2>2, <2>9 DEF Worker
    <3> QED BY <1>1, <1>3, <2>2, <2>4, <2>5, <2>6, <2>9, <3>1, ManagerKept
  <2> QED BY <2>3, <2>7, <2>8, <2>9
<1> QED BY <1>2, <1>3
-----------------------------------------------------------------------------
LEMMA ManagerNext == ManagerInv /\ [Next]_vars => ManagerInv'
<1> SUFFICES ASSUME ManagerInv, [Next]_vars PROVE ManagerInv'
  OBVIOUS
<1>0. callback \in [Timer -> Callback] /\ EventLists \subseteq Seq(Path)
  BY ManagerSays, ManagerAssumption
<1>1. CASE UNCHANGED vars
  <2>1. UNCHANGED <<worker, callback, stopper, accepted, disarmed>>
    BY <1>1 DEF vars
  <2>2. Publishing' = Publishing /\ InFlight' = InFlight /\ (Live' <=> Live)
    BY <2>1 DEF Publishing, InFlight, Live
  <2> QED BY <2>1, <2>2, ManagerSays, ManagerKept
<1>2. CASE Start
  BY <1>2, StartKeeps
<1>3. ASSUME NEW events \in EventLists, NEW rejected \in BOOLEAN, Enqueue(events, rejected)
      PROVE  ManagerInv'
  <2>1. Enqueued(callback, events, rejected) /\ events \in Seq(Path)
    BY <1>0, <1>3 DEF Enqueue
  <2> QED BY <1>0, <2>1, EnqueuedKeeps
<1>4. ASSUME NEW t \in Timer, NEW events \in EventLists, NEW rejected \in BOOLEAN,
             ReconcileEnqueues(t, events, rejected)
      PROVE  ManagerInv'
  <2>1. PICK callbacks : callbacks = [callback EXCEPT ![t].at = "returned"]
    OBVIOUS
  <2>2. /\ callback[t].kind = "reconcile" /\ callback[t].at = "calling"
        /\ Enqueued(callbacks, events, rejected) /\ events \in Seq(Path)
    BY <1>0, <1>4, <2>1 DEF ReconcileEnqueues
  <2>3. /\ callbacks \in [Timer -> Callback]
        /\ callbacks[t].kind = "reconcile" /\ callbacks[t].at = "returned"
        /\ \A x \in Timer : x # t => callbacks[x] = callback[x]
    BY <1>0, <2>1, <2>2 DEF Callback
  <2> QED BY <2>2, <2>3, EnqueuedKeeps
<1>5. ASSUME NEW t \in Timer, Fire(t) \/ CallbackStep(t) PROVE ManagerInv'
  BY <1>4, <1>5, FireKeeps, PublishBeginsKeeps, PublishEndsKeeps, ReconcileKeeps,
     ReconcileEndsKeeps DEF CallbackStep
<1>6. ASSUME NEW s \in Stopper, CallStop(s) \/ StopTurn(s) PROVE ManagerInv'
  BY <1>6, CallStopKeeps, StopTurnKeeps
<1> QED BY <1>1, <1>2, <1>3, <1>5, <1>6 DEF Next

(* The three invariants of queue.go and lifecycle.go together with what    *)
(* they rest on hold for any paths, events, timers and callers of Stop.    *)
THEOREM ManagerInvariant == Spec => []ManagerInv
<1>1. Init => ManagerInv
  BY ManagerInit
<1>2. ManagerInv /\ [Next]_vars => ManagerInv'
  BY ManagerNext
<1> QED BY <1>1, <1>2, PTL DEF Spec

(* The queue holds each path once, its index agrees with it, a stopped     *)
(* worker leaves nothing behind, and the timer a worker remembers is       *)
(* pending.                                                                *)
THEOREM QueueInvariant == Spec => []QueueInv
<1>1. ManagerInv => QueueInv
  BY DEF ManagerInv
<1> QED BY <1>1, ManagerInvariant, PTL

(* The publisher is never called twice at once for a workspace.            *)
THEOREM PublicationsNeverOverlap == Spec => []OnePublicationAtATime
<1>1. ManagerInv => OnePublicationAtATime
  BY DEF ManagerInv
<1> QED BY <1>1, ManagerInvariant, PTL

(* No accepted path is lost between Enqueue and its publication.           *)
THEOREM NoAcceptedPathIsLost == Spec => []AcceptedPathsAreKept
<1>1. ManagerInv => AcceptedPathsAreKept
  BY DEF ManagerInv
<1> QED BY <1>1, ManagerInvariant, PTL

(* What waits is scheduled, and reconciliation never stops by itself.      *)
THEOREM WaitingWorkIsScheduled == Spec => []WorkStaysScheduled
<1>1. ManagerInv => WorkStaysScheduled
  BY DEF ManagerInv
<1> QED BY <1>1, ManagerInvariant, PTL
-----------------------------------------------------------------------------
(* The servers and the commands. *)

(* Where a server may be. *)
Places == {"absent", "acquire", "remove", "listen", "accept", "handle",
           "close", "unlink", "release"}

(* A sequence without positions is empty. *)
LEMMA EmptyDomain ==
  ASSUME NEW S, NEW q \in Seq(S), DOMAIN q = {}
  PROVE  q = <<>>
<1>1. Len(q) \in Nat /\ DOMAIN q = 1 .. Len(q)
  BY LenProperties
<1>2. Len(q) = 0
  BY <1>1
<1> QED
  BY <1>2, EmptySeq

(* A server that only moves on.                                            *)
LEMMA MoveServer ==
  ASSUME ServerTypeOK, NEW s \in Server, NEW a \in Places,
         server' = [server EXCEPT ![s].at = a]
  PROVE  /\ server' \in [Server -> Process]
         /\ server'[s].at = a /\ server'[s].backlog = server[s].backlog
         /\ server'[s].serving = server[s].serving
         /\ \A t \in Server : t # s => server'[t] = server[t]
<1>1. server \in [Server -> Process] /\ server[s] \in Process
  BY DEF ServerTypeOK
<1>2. [server[s] EXCEPT !.at = a] \in Process
  BY <1>1 DEF Process, Places
<1>3. server' = [server EXCEPT ![s] = [server[s] EXCEPT !.at = a]]
  OBVIOUS
<1>4. server'[s] = [server[s] EXCEPT !.at = a]
  BY <1>1, <1>3
<1> QED
  BY <1>1, <1>2, <1>3, <1>4 DEF Process

(* A server whose process ends.                                            *)
LEMMA EndServer ==
  ASSUME ServerTypeOK, NEW s \in Server, server' = [server EXCEPT ![s] = Absent]
  PROVE  /\ server' \in [Server -> Process]
         /\ server'[s].at = "absent" /\ server'[s].backlog = <<>>
         /\ server'[s].serving = Nobody
         /\ \A t \in Server : t # s => server'[t] = server[t]
<1>1. server \in [Server -> Process]
  BY DEF ServerTypeOK
<1>2. Absent \in Process
  BY DEF Absent, Process
<1> QED
  BY <1>1, <1>2 DEF Absent

(* A command that takes a step of its own.                                 *)
LEMMA MoveClient ==
  ASSUME ServerTypeOK, NEW c \in Client, NEW k \in Command,
         client' = [client EXCEPT ![c] = k]
  PROVE  /\ client' \in [Client -> Command]
         /\ client'[c] = k
         /\ \A d \in Client : d # c => client'[d] = client[d]
  BY DEF ServerTypeOK

(* The connections of a server that closes its listener or dies.           *)
LEMMA DropConnections ==
  ASSUME ServerTypeOK, NEW s \in Server, client' = Disconnected(s)
  PROVE  /\ client' \in [Client -> Command]
         /\ \A c \in Client : /\ client[c].link # s => client'[c] = client[c]
                              /\ client'[c].at = client[c].at
<1>1. \A c \in Client : client[c] \in Command
  BY DEF ServerTypeOK
<1>2. ASSUME NEW c \in Client
      PROVE  [client[c] EXCEPT !.link = Nobody] \in Command
             /\ [client[c] EXCEPT !.link = Nobody].at = client[c].at
  BY <1>1 DEF Command
<1> QED
  BY <1>1, <1>2 DEF Disconnected

LEMMA IdleTyped == NoCommand \in Command
  BY DEF NoCommand, Command

LEMMA RetriedTyped ==
  ASSUME ServerTypeOK, NEW c \in Client
  PROVE  Retried(c) \in Command
<1>1. client[c] \in Command
  BY DEF ServerTypeOK
<1>2. \A a \in {"dial", "launch"} : [client[c] EXCEPT !.at = a, !.link = Nobody] \in Command
  BY <1>1 DEF Command
<1> QED
  BY <1>2, IdleTyped DEF Retried
-----------------------------------------------------------------------------
(* When a server moves on and nothing else changes, the connections stay   *)
(* exclusive if it still listens or has nobody waiting.                    *)
LEMMA MoveKeepsConnections ==
  ASSUME ServerInv, NEW s \in Server,
         server'[s].backlog = server[s].backlog, server'[s].serving = server[s].serving,
         \A t \in Server : t # s => server'[t] = server[t],
         ~Listening(s)' => server[s].backlog = <<>>,
         server'[s].at # "handle" => server[s].serving = Nobody,
         UNCHANGED client
  PROVE  ConnectionsAreExclusive'
  BY DEF ServerInv, ConnectionsAreExclusive, Exclusive, Listening

(* When a command moves on that no server has a connection of, they stay   *)
(* exclusive too.                                                          *)
LEMMA CommandKeepsConnections ==
  ASSUME ServerInv, NEW c \in Client, UNCHANGED server,
         client[c].at \notin {"send", "receive"} \/ client[c].link = Nobody,
         \A d \in Client : d # c => client'[d] = client[d]
  PROVE  ConnectionsAreExclusive'
<1>1. Nobody \notin Server
  BY ServerAssumption
<1> QED
  BY <1>1 DEF ServerInv, ConnectionsAreExclusive, Exclusive, Listening

(* The lock and the socket file while a server that holds the lock moves   *)
(* on.                                                                     *)
LEMMA OwnerKeepsLock ==
  ASSUME ServerInv, NEW s \in Server, server[s].at \notin {"absent", "acquire"},
         \A t \in Server : t # s => server'[t] = server[t],
         UNCHANGED lock,
         server'[s].at = "listen" => endpoint' = Nobody,
         Listening(s)' => endpoint' = s
  PROVE  OwnersHoldLock'
  BY ServerAssumption DEF ServerInv, OwnersHoldLock, Listening-----------------------------------------------------------------------------
(* Servers *)

LEMMA AcquireSound ==
  ASSUME ServerInv, NEW s \in Server, Acquire(s)
  PROVE  ServerInv'
<1>1. ServerTypeOK /\ server[s].at = "acquire" /\ UNCHANGED <<endpoint, client>>
  BY DEF ServerInv, Acquire
<1>2. server[s].backlog = <<>> /\ server[s].serving = Nobody
  BY <1>1 DEF ServerInv, ConnectionsAreExclusive, Exclusive, Listening
<1>3. CASE lock = Nobody
  <2>1. lock' = s /\ server' = [server EXCEPT ![s].at = "remove"]
    BY <1>3 DEF Acquire
  <2>2. /\ server' \in [Server -> Process]
        /\ server'[s].at = "remove" /\ server'[s].backlog = server[s].backlog
        /\ server'[s].serving = server[s].serving
        /\ \A t \in Server : t # s => server'[t] = server[t]
    BY <1>1, <2>1, MoveServer DEF Places
  <2>3. ServerTypeOK'
    BY <1>1, <2>1, <2>2 DEF ServerTypeOK
  <2>4. OwnersHoldLock'
    BY <1>1, <1>3, <2>1, <2>2, ServerAssumption DEF ServerInv, OwnersHoldLock, Listening
  <2>5. ConnectionsAreExclusive'
    BY <1>1, <1>2, <2>2, MoveKeepsConnections
  <2> QED
    BY <2>3, <2>4, <2>5 DEF ServerInv
<1>4. CASE lock # Nobody
  <2>1. lock' = lock /\ server' = [server EXCEPT ![s] = Absent]
    BY <1>4 DEF Acquire
  <2>2. /\ server' \in [Server -> Process]
        /\ server'[s].at = "absent" /\ server'[s].backlog = <<>>
        /\ server'[s].serving = Nobody
        /\ \A t \in Server : t # s => server'[t] = server[t]
    BY <1>1, <2>1, EndServer
  <2>3. ServerTypeOK'
    BY <1>1, <2>1, <2>2 DEF ServerTypeOK
  <2>4. OwnersHoldLock'
    BY <1>1, <2>1, <2>2 DEF ServerInv, OwnersHoldLock, Listening
  <2>5. ConnectionsAreExclusive'
    BY <1>1, <1>2, <2>2, MoveKeepsConnections
  <2> QED
    BY <2>3, <2>4, <2>5 DEF ServerInv
<1> QED
  BY <1>3, <1>4

(* Between Acquire and Release: the steps in which nobody is connected, or *)
(* nobody's connection changes.                                            *)
LEMMA OwnerMoves ==
  ASSUME ServerInv, NEW s \in Server,
         RemoveEndpoint(s) \/ Listen(s) \/ IdleTimeout(s) \/ RemoveOwnEndpoint(s)
  PROVE  ServerInv'
<1>1. ServerTypeOK /\ UNCHANGED <<lock, client>>
      /\ server[s].at \in {"remove", "listen", "accept", "unlink"}
  BY DEF ServerInv, RemoveEndpoint, Listen, IdleTimeout, RemoveOwnEndpoint
<1>2. lock = s /\ server[s].serving = Nobody
      /\ (server[s].at # "accept" => server[s].backlog = <<>>)
      /\ (server[s].at = "listen" => endpoint = Nobody)
      /\ (server[s].at = "accept" => endpoint = s)
  BY <1>1 DEF ServerInv, OwnersHoldLock, ConnectionsAreExclusive, Exclusive, Listening
<1>3. PICK a \in {"listen", "accept", "close", "release"} :
         /\ server' = [server EXCEPT ![s].at = a]
         /\ a = "listen" => endpoint' = Nobody
         /\ a \in {"accept", "close"} => endpoint' = s
         /\ endpoint' \in {endpoint, s, Nobody}
         /\ a \in {"listen", "accept", "release"} => server[s].at # "accept"
  BY <1>2 DEF RemoveEndpoint, Listen, IdleTimeout, RemoveOwnEndpoint
<1>4. /\ server' \in [Server -> Process]
      /\ server'[s].at = a /\ server'[s].backlog = server[s].backlog
      /\ server'[s].serving = server[s].serving
      /\ \A t \in Server : t # s => server'[t] = server[t]
  BY <1>1, <1>3, MoveServer DEF Places
<1>5. ServerTypeOK'
  BY <1>1, <1>3, <1>4 DEF ServerTypeOK
<1>6. OwnersHoldLock'
  BY <1>1, <1>3, <1>4, OwnerKeepsLock DEF Listening
<1>7. ConnectionsAreExclusive'
  BY <1>1, <1>2, <1>3, <1>4, MoveKeepsConnections DEF Listening
<1> QED
  BY <1>5, <1>6, <1>7 DEF ServerInv

(* Accepting takes the oldest connection out of the backlog. *)
LEMMA AcceptSound ==
  ASSUME ServerInv, NEW s \in Server, Accept(s)
  PROVE  ServerInv'
<1> DEFINE waiting == server[s].backlog
<1>1. ServerTypeOK /\ server[s].at = "accept" /\ waiting # <<>> /\ UNCHANGED <<lock, endpoint, client>>
  BY DEF ServerInv, Accept
<1>2. server \in [Server -> Process] /\ server[s] \in Process /\ waiting \in Seq(Client \cup Gone)
  BY <1>1 DEF ServerTypeOK, Process
<1>3. /\ Head(waiting) = waiting[1] /\ Head(waiting) \in Client \cup Gone
      /\ Tail(waiting) \in Seq(Client \cup Gone) /\ 1 \in DOMAIN waiting
      /\ \A i \in DOMAIN Tail(waiting) : /\ i \in Nat \ {0} /\ i + 1 \in DOMAIN waiting
                                         /\ Tail(waiting)[i] = waiting[i + 1]
  BY <1>1, <1>2
<1>4. PICK process : process = [server[s] EXCEPT !.at = "handle", !.backlog = Tail(waiting),
                                                 !.serving = Head(waiting)]
  OBVIOUS
<1>5. /\ process \in Process /\ process.at = "handle" /\ process.backlog = Tail(waiting)
      /\ process.serving = waiting[1]
  BY <1>2, <1>3, <1>4 DEF Process
<1>6. server' = [server EXCEPT ![s] = process]
  BY <1>4 DEF Accept
<1>7. /\ server' \in [Server -> Process] /\ server'[s] = process
      /\ \A t \in Server : t # s => server'[t] = server[t]
  BY <1>2, <1>5, <1>6
<1>8. ServerTypeOK'
  BY <1>1, <1>7 DEF ServerTypeOK
<1>9. OwnersHoldLock'
  BY <1>1, <1>5, <1>7, OwnerKeepsLock DEF ServerInv, OwnersHoldLock, Listening
<1>10. ConnectionsAreExclusive'
  <2> SUFFICES ASSUME NEW t \in Server
               PROVE  Exclusive(t)'
    BY DEF ConnectionsAreExclusive
  <2>1. CASE t # s
    BY <1>1, <1>7, <2>1 DEF ServerInv, ConnectionsAreExclusive, Exclusive, Listening
  <2>2. CASE t = s
    <3>1. /\ \A i, j \in DOMAIN waiting : waiting[i] = waiting[j] /\ waiting[i] \in Client => i = j
          /\ \A c \in Client : (\E i \in DOMAIN waiting : waiting[i] = c) =>
                client[c].link = s /\ client[c].at \in {"send", "receive"}
      BY DEF ServerInv, ConnectionsAreExclusive, Exclusive
    <3>2. server'[t].backlog = Tail(waiting) /\ server'[t].serving = waiting[1]
          /\ server'[t].at = "handle" /\ Listening(t)'
      BY <1>5, <1>7, <2>2 DEF Listening
    <3> HIDE DEF waiting
    <3>3. \A i, j \in DOMAIN Tail(waiting) :
             Tail(waiting)[i] = Tail(waiting)[j] /\ Tail(waiting)[i] \in Client => i = j
      <4> SUFFICES ASSUME NEW i \in DOMAIN Tail(waiting), NEW j \in DOMAIN Tail(waiting),
                          Tail(waiting)[i] = Tail(waiting)[j], Tail(waiting)[i] \in Client
                   PROVE  i = j
        OBVIOUS
      <4>1. i + 1 = j + 1
        BY <1>3, <3>1
      <4> QED
        BY <1>3, <4>1
    <3>4. \A i \in DOMAIN Tail(waiting) :
             Tail(waiting)[i] \in Client => Tail(waiting)[i] # waiting[1]
      <4> SUFFICES ASSUME NEW i \in DOMAIN Tail(waiting), Tail(waiting)[i] \in Client,
                          Tail(waiting)[i] = waiting[1]
                   PROVE  FALSE
        OBVIOUS
      <4>1. i + 1 = 1
        BY <1>3, <3>1
      <4> QED
        BY <1>3, <4>1
    <3>5. \A c \in Client :
             waiting[1] = c \/ (\E i \in DOMAIN Tail(waiting) : Tail(waiting)[i] = c) =>
               client[c].link = s /\ client[c].at \in {"send", "receive"}
      BY <1>3, <3>1
    <3> QED
      BY <1>1, <2>2, <3>2, <3>3, <3>4, <3>5 DEF Exclusive
  <2> QED
    BY <2>1, <2>2
<1> QED
  BY <1>8, <1>9, <1>10 DEF ServerInv

(* What follows when the server that handles a connection is done with it. *)
LEMMA ServedSound ==
  ASSUME ServerInv, NEW s \in Server, server[s].at = "handle", NEW a \in {"accept", "close"},
         server' = [server EXCEPT ![s].at = a, ![s].serving = Nobody],
         client' \in [Client -> Command], UNCHANGED <<lock, endpoint>>,
         \A c \in Client : c # server[s].serving => client'[c] = client[c]
  PROVE  ServerInv'
<1>1. ServerTypeOK /\ server \in [Server -> Process] /\ server[s] \in Process
  BY DEF ServerInv, ServerTypeOK
<1>2. PICK process : process = [server[s] EXCEPT !.at = a, !.serving = Nobody]
  OBVIOUS
<1>3. /\ process \in Process /\ process.at = a /\ process.backlog = server[s].backlog
      /\ process.serving = Nobody
  BY <1>1, <1>2 DEF Process
<1>4. server' = [server EXCEPT ![s] = process]
  BY <1>2
<1>5. /\ server' \in [Server -> Process] /\ server'[s] = process
      /\ \A t \in Server : t # s => server'[t] = server[t]
  BY <1>1, <1>3, <1>4, ZenonT(30)
<1>6. ServerTypeOK'
  BY <1>1, <1>5 DEF ServerTypeOK
<1>7. OwnersHoldLock'
  BY <1>3, <1>5, OwnerKeepsLock DEF ServerInv, OwnersHoldLock, Listening
<1>8. ConnectionsAreExclusive'
  <2> SUFFICES ASSUME NEW t \in Server
               PROVE  Exclusive(t)'
    BY DEF ConnectionsAreExclusive
  <2>1. Nobody \notin Client /\ Exclusive(t) /\ Exclusive(s)
    BY ServerAssumption DEF ServerInv, ConnectionsAreExclusive
  <2>2. CASE t # s
    <3>1. server'[t] = server[t] /\ (Listening(t)' <=> Listening(t))
      BY <1>5, <2>2 DEF Listening
    <3>2. ASSUME NEW c \in Client, server[t].serving = c
                   \/ \E i \in DOMAIN server[t].backlog : server[t].backlog[i] = c
          PROVE  client'[c].link = t /\ client'[c].at \in {"send", "receive"}
      <4>1. client[c].link = t /\ client[c].at \in {"send", "receive"}
        BY <2>1, <3>2 DEF Exclusive
      <4>2. c # server[s].serving
        BY <2>1, <2>2, <4>1 DEF Exclusive
      <4> QED
        BY <4>1, <4>2
    <3>3. /\ ~Listening(t) => server[t].backlog = <<>>
          /\ server[t].at # "handle" => server[t].serving = Nobody
          /\ \A i, j \in DOMAIN server[t].backlog :
               server[t].backlog[i] = server[t].backlog[j] /\ server[t].backlog[i] \in Client => i = j
          /\ \A i \in DOMAIN server[t].backlog :
               server[t].backlog[i] \in Client => server[t].backlog[i] # server[t].serving
      BY <2>1 DEF Exclusive
    <3>4. /\ ~Listening(t)' => server'[t].backlog = <<>>
          /\ server'[t].at # "handle" => server'[t].serving = Nobody
      BY <3>1, <3>3
    <3>5. \A i, j \in DOMAIN server'[t].backlog :
            server'[t].backlog[i] = server'[t].backlog[j] /\ server'[t].backlog[i] \in Client => i = j
      BY <3>1, <3>3
    <3>6. \A i \in DOMAIN server'[t].backlog :
            server'[t].backlog[i] \in Client => server'[t].backlog[i] # server'[t].serving
      BY <3>1, <3>3
    <3>7. \A c \in Client : server'[t].serving = c
             \/ (\E i \in DOMAIN server'[t].backlog : server'[t].backlog[i] = c) =>
               client'[c].link = t /\ client'[c].at \in {"send", "receive"}
      BY <3>1, <3>2, ZenonT(30)
    <3> QED
      BY <3>4, <3>5, <3>6, <3>7 DEF Exclusive
  <2>3. CASE t = s
    <3>1. server'[s].backlog = server[s].backlog /\ server'[s].serving = Nobody /\ Listening(s)'
      BY <1>3, <1>5 DEF Listening
    <3>2. ASSUME NEW c \in Client,
                 \E i \in DOMAIN server[s].backlog : server[s].backlog[i] = c
          PROVE  client'[c].link = s /\ client'[c].at \in {"send", "receive"}
      BY <2>1, <3>2 DEF Exclusive
    <3>3. \A i, j \in DOMAIN server[s].backlog :
            server[s].backlog[i] = server[s].backlog[j] /\ server[s].backlog[i] \in Client => i = j
      BY <2>1 DEF Exclusive
    <3>4. \A i, j \in DOMAIN server'[s].backlog :
            server'[s].backlog[i] = server'[s].backlog[j] /\ server'[s].backlog[i] \in Client => i = j
      BY <3>1, <3>3
    <3>5. \A i \in DOMAIN server'[s].backlog :
            server'[s].backlog[i] \in Client => server'[s].backlog[i] # server'[s].serving
      BY <2>1, <3>1
    <3>6. \A c \in Client : server'[s].serving = c
             \/ (\E i \in DOMAIN server'[s].backlog : server'[s].backlog[i] = c) =>
               client'[c].link = s /\ client'[c].at \in {"send", "receive"}
      BY <2>1, <3>1, <3>2, ZenonT(30)
    <3>7. Exclusive(s)'
      BY <3>1, <3>4, <3>5, <3>6 DEF Exclusive
    <3> QED
      BY <2>3, <3>7
  <2> QED
    BY <2>2, <2>3
<1> QED
  BY <1>6, <1>7, <1>8 DEF ServerInv

LEMMA HandleSound ==
  ASSUME ServerInv, NEW s \in Server, Handle(s)
  PROVE  ServerInv'
<1>1. PICK c \in Client : c = server[s].serving
  BY DEF Handle
<1>2. PICK answered : answered = [client[c] EXCEPT !.link = Nobody, !.reply = s]
  OBVIOUS
<1>3. ServerTypeOK /\ client[c] \in Command
  BY DEF ServerInv, ServerTypeOK
<1>4. answered \in Command
  BY <1>2, <1>3 DEF Command
<1>5. client' = [client EXCEPT ![c] = answered]
  BY <1>1, <1>2 DEF Handle
<1>6. client' \in [Client -> Command] /\ \A d \in Client : d # c => client'[d] = client[d]
  BY <1>3, <1>4, <1>5, MoveClient
<1>7. PICK a \in {"accept", "close"} : server' = [server EXCEPT ![s].at = a, ![s].serving = Nobody]
  BY DEF Handle
<1> QED
  BY <1>1, <1>6, <1>7, ServedSound, ZenonT(30) DEF Handle

LEMMA HandleGoneSound ==
  ASSUME ServerInv, NEW s \in Server, HandleGone(s)
  PROVE  ServerInv'
<1>1. PICK a \in {"accept", "close"} : server' = [server EXCEPT ![s].at = a, ![s].serving = Nobody]
  BY DEF HandleGone
<1>2. client' = client /\ client \in [Client -> Command]
  BY DEF HandleGone, ServerInv, ServerTypeOK
<1> QED
  BY <1>1, <1>2, ServedSound DEF HandleGone
(* Closing the listener resets whoever waits. *)
LEMMA CloseListenerSound ==
  ASSUME ServerInv, NEW s \in Server, CloseListener(s)
  PROVE  ServerInv'
<1>1. ServerTypeOK /\ server \in [Server -> Process] /\ server[s] \in Process /\ server[s].at = "close"
      /\ endpoint' = Nobody /\ lock' = lock /\ client' = Disconnected(s)
  BY DEF ServerInv, ServerTypeOK, CloseListener
<1>2. PICK process : process = [server[s] EXCEPT !.at = "unlink", !.backlog = <<>>]
  OBVIOUS
<1>3. /\ process \in Process /\ process.at = "unlink" /\ process.backlog = <<>>
      /\ process.serving = server[s].serving
  <2>1. <<>> \in Seq(Client \cup Gone)
    BY EmptySeq
  <2>2. PICK empty \in Seq(Client \cup Gone) : empty = <<>>
    BY <2>1
  <2>3. process = [server[s] EXCEPT !.at = "unlink", !.backlog = empty]
    BY <1>2, <2>2
  <2> QED
    BY <1>1, <2>2, <2>3 DEF Process
<1>4. server' = [server EXCEPT ![s] = process]
  BY <1>2 DEF CloseListener
<1>5. /\ server' \in [Server -> Process] /\ server'[s] = process
      /\ \A t \in Server : t # s => server'[t] = server[t]
  BY <1>1, <1>3, <1>4
<1>6. /\ client' \in [Client -> Command]
      /\ \A c \in Client : client[c].link # s => client'[c] = client[c]
  BY <1>1, DropConnections
<1>7. ServerTypeOK'
  BY <1>1, <1>5, <1>6 DEF ServerTypeOK
<1>8. OwnersHoldLock'
  BY <1>1, <1>3, <1>5, OwnerKeepsLock DEF Listening
<1>9. ConnectionsAreExclusive'
  <2> SUFFICES ASSUME NEW t \in Server
               PROVE  Exclusive(t)'
    BY DEF ConnectionsAreExclusive
  <2>1. Nobody \notin Client /\ Exclusive(t) /\ Exclusive(s)
    BY ServerAssumption DEF ServerInv, ConnectionsAreExclusive
  <2>2. CASE t # s
    BY <1>5, <1>6, <2>1, <2>2 DEF Exclusive, Listening
  <2>3. CASE t = s
    BY <1>1, <1>3, <1>5, <2>1, <2>3 DEF Exclusive, Listening
  <2> QED
    BY <2>2, <2>3
<1> QED
  BY <1>7, <1>8, <1>9 DEF ServerInv

(* Release, or the death of a server wherever it is. *)
LEMMA ServerEndsSound ==
  ASSUME ServerInv, NEW s \in Server, Release(s) \/ ServerDies(s)
  PROVE  ServerInv'
<1>1. ServerTypeOK /\ UNCHANGED endpoint /\ lock' = (IF lock = s THEN Nobody ELSE lock)
      /\ server' = [server EXCEPT ![s] = Absent]
  BY DEF ServerInv, Release, ServerDies
<1>2. /\ server' \in [Server -> Process]
      /\ server'[s].at = "absent" /\ server'[s].backlog = <<>>
      /\ server'[s].serving = Nobody
      /\ \A t \in Server : t # s => server'[t] = server[t]
  BY <1>1, EndServer
<1>3. /\ client' \in [Client -> Command]
      /\ \A c \in Client : client[c].link # s => client'[c] = client[c]
  <2>1. CASE Release(s)
    BY <2>1 DEF Release, ServerInv, ServerTypeOK
  <2>2. CASE ServerDies(s)
    BY <1>1, <2>2, DropConnections DEF ServerDies
  <2> QED
    BY <2>1, <2>2
<1>4. ServerTypeOK'
  BY <1>1, <1>2, <1>3 DEF ServerTypeOK
<1>5. OwnersHoldLock'
  BY <1>1, <1>2 DEF ServerInv, OwnersHoldLock, Listening
<1>6. ConnectionsAreExclusive'
  <2> SUFFICES ASSUME NEW t \in Server
               PROVE  Exclusive(t)'
    BY DEF ConnectionsAreExclusive
  <2>1. Nobody \notin Client /\ Exclusive(t)
    BY ServerAssumption DEF ServerInv, ConnectionsAreExclusive
  <2>2. CASE t # s
    BY <1>2, <1>3, <2>1, <2>2 DEF Exclusive, Listening
  <2>3. CASE t = s
    BY <1>2, <2>1, <2>3 DEF Exclusive, Listening
  <2> QED
    BY <2>2, <2>3
<1> QED
  BY <1>4, <1>5, <1>6 DEF ServerInv
-----------------------------------------------------------------------------
(* Commands *)

(* The steps of a command that no server has a connection of. *)
LEMMA CommandMoves ==
  ASSUME ServerInv, NEW c \in Client, NEW k \in Command,
         client[c].at \notin {"send", "receive"} \/ client[c].link = Nobody,
         client' = [client EXCEPT ![c] = k], UNCHANGED <<lock, endpoint, server>>
  PROVE  ServerInv'
<1>1. /\ client' \in [Client -> Command]
      /\ \A d \in Client : d # c => client'[d] = client[d]
  BY MoveClient DEF ServerInv
<1>2. ServerTypeOK'
  BY <1>1 DEF ServerInv, ServerTypeOK
<1>3. OwnersHoldLock'
  BY DEF ServerInv, OwnersHoldLock, Listening
<1>4. ConnectionsAreExclusive'
  BY <1>1, CommandKeepsConnections
<1> QED
  BY <1>2, <1>3, <1>4 DEF ServerInv

LEMMA BeginCommandSound ==
  ASSUME ServerInv, NEW c \in Client, BeginCommand(c)
  PROVE  ServerInv'
<1>1. PICK command \in {"start", "status", "stop"} :
         client' = [client EXCEPT ![c] = [NoCommand EXCEPT !.at = "dial", !.command = command]]
  BY DEF BeginCommand
<1>2. [NoCommand EXCEPT !.at = "dial", !.command = command] \in Command
  BY IdleTyped DEF Command
<1> QED
  BY <1>1, <1>2, CommandMoves DEF BeginCommand

(* A connection is queued at the server that listens on the socket. *)
LEMMA DialSound ==
  ASSUME ServerInv, NEW c \in Client, Dial(c)
  PROVE  ServerInv'
<1>1. ServerTypeOK /\ client[c].at = "dial" /\ UNCHANGED <<lock, endpoint>>
      /\ client[c] \in Command /\ server \in [Server -> Process]
  BY DEF ServerInv, ServerTypeOK, Dial
<1>2. CASE endpoint # Nobody /\ Listening(endpoint) /\ Len(server[endpoint].backlog) < Backlog
  <2>1. PICK s \in Server : s = endpoint
    BY <1>1, <1>2 DEF ServerTypeOK
  <2> DEFINE waiting == server[s].backlog
  <2>2. server[s] \in Process /\ waiting \in Seq(Client \cup Gone) /\ Listening(s)
    BY <1>1, <1>2, <2>1 DEF Process
  <2>3. PICK process : process = [server[s] EXCEPT !.backlog = Append(waiting, c)]
    OBVIOUS
  <2>4. PICK queued : queued = [client[c] EXCEPT !.at = "send", !.link = s]
    OBVIOUS
  <2>5. server' = [server EXCEPT ![s] = process] /\ client' = [client EXCEPT ![c] = queued]
    BY <1>2, <2>1, <2>3, <2>4 DEF Dial
  <2>6. /\ process \in Process /\ process.at = server[s].at /\ process.serving = server[s].serving
        /\ process.backlog = Append(waiting, c)
    <3>1. PICK queue \in Seq(Client \cup Gone) : queue = Append(waiting, c)
      BY <2>2, AppendProperties
    <3>2. process = [server[s] EXCEPT !.backlog = queue]
      BY <2>3, <3>1
    <3> QED
      BY <2>2, <3>1, <3>2 DEF Process
  <2>7. queued \in Command /\ queued.at = "send" /\ queued.link = s
    BY <1>1, <2>4 DEF Command
  <2>8. /\ server' \in [Server -> Process] /\ server'[s] = process
        /\ \A t \in Server : t # s => server'[t] = server[t]
    BY <1>1, <2>5, <2>6
  <2>9. /\ client' \in [Client -> Command] /\ client'[c] = queued
        /\ \A d \in Client : d # c => client'[d] = client[d]
    BY <1>1, <2>5, <2>7, MoveClient
  <2>10. ServerTypeOK'
    BY <1>1, <2>8, <2>9 DEF ServerTypeOK
  <2>11. OwnersHoldLock'
    <3>1. \A t \in Server : server'[t].at = server[t].at
      BY <2>6, <2>8
    <3> QED
      BY <1>1, <3>1 DEF ServerInv, OwnersHoldLock, Listening
  <2>12. ConnectionsAreExclusive'
    <3> SUFFICES ASSUME NEW t \in Server PROVE Exclusive(t)'
      BY DEF ConnectionsAreExclusive
    <3>1. Exclusive(t) /\ Exclusive(s)
      BY DEF ServerInv, ConnectionsAreExclusive
    <3>2. \A u \in Server : Exclusive(u) =>
            server[u].serving # c /\ ~\E i \in DOMAIN server[u].backlog : server[u].backlog[i] = c
      BY <1>1 DEF Exclusive
    <3>3. CASE t # s
      BY <2>8, <2>9, <3>1, <3>2, <3>3 DEF Exclusive, Listening
    <3>4. CASE t = s
      <4> DEFINE queue == Append(waiting, c)
      <4>1. server'[s].backlog = queue /\ server'[s].serving = server[s].serving
            /\ server'[s].at = server[s].at /\ Listening(s)'
        BY <2>2, <2>6, <2>8 DEF Listening
      <4>2. \A i \in DOMAIN waiting : waiting[i] # c
        BY <3>1, <3>2
      <4>3. \A i \in DOMAIN queue :
              (i \in DOMAIN waiting /\ queue[i] = waiting[i]) \/ (i = Len(waiting) + 1 /\ queue[i] = c)
        BY <2>2
      <4> HIDE DEF queue, waiting
      <4>4. \A i, j \in DOMAIN queue : queue[i] = queue[j] /\ queue[i] \in Client => i = j
        BY <3>1, <4>2, <4>3 DEF Exclusive, waiting
      <4>5. \A i \in DOMAIN queue : queue[i] \in Client => queue[i] # server[s].serving
        BY <3>1, <3>2, <4>3 DEF Exclusive, waiting
      <4>6. ASSUME NEW d \in Client,
                   server[s].serving = d \/ \E i \in DOMAIN queue : queue[i] = d
            PROVE  client'[d].link = s /\ client'[d].at \in {"send", "receive"}
        <5>1. CASE d = c
          BY <2>7, <2>9, <5>1
        <5>2. CASE d # c
          <6>1. server[s].serving = d \/ \E i \in DOMAIN waiting : waiting[i] = d
            BY <4>3, <4>6, <5>2
          <6>2. client[d].link = s /\ client[d].at \in {"send", "receive"}
            BY <3>1, <6>1 DEF Exclusive, waiting
          <6> QED
            BY <2>9, <5>2, <6>2
        <5> QED
          BY <5>1, <5>2
      <4>7. server[s].at # "handle" => server[s].serving = Nobody
        BY <3>1 DEF Exclusive
      <4>8. Exclusive(s)'
        BY <4>1, <4>4, <4>5, <4>6, <4>7 DEF Exclusive
      <4> QED
        BY <3>4, <4>8
    <3> QED
      BY <3>3, <3>4
  <2> QED
    BY <2>10, <2>11, <2>12 DEF ServerInv
<1>3. CASE ~(endpoint # Nobody /\ Listening(endpoint) /\ Len(server[endpoint].backlog) < Backlog)
  <2>1. client' = [client EXCEPT ![c] = Retried(c)] /\ server' = server
    BY <1>3 DEF Dial
  <2> QED
    BY <1>1, <2>1, CommandMoves, RetriedTyped
<1> QED
  BY <1>2, <1>3

LEMMA SendSound ==
  ASSUME ServerInv, NEW c \in Client, Send(c)
  PROVE  ServerInv'
<1>1. ServerTypeOK /\ client[c].at = "send" /\ UNCHANGED <<lock, endpoint, server>>
      /\ client[c] \in Command
  BY DEF ServerInv, ServerTypeOK, Send
<1>2. CASE client[c].link = Nobody
  <2>1. client' = [client EXCEPT ![c] = Retried(c)]
    BY <1>2 DEF Send
  <2> QED
    BY <1>1, <1>2, <2>1, CommandMoves, RetriedTyped
<1>3. CASE client[c].link # Nobody
  <2>1. PICK sent : sent = [client[c] EXCEPT !.at = "receive"]
    OBVIOUS
  <2>2. sent \in Command /\ sent.at = "receive" /\ sent.link = client[c].link
    BY <1>1, <2>1 DEF Command
  <2>3. client' = [client EXCEPT ![c] = sent]
    BY <1>3, <2>1 DEF Send
  <2>4. /\ client' \in [Client -> Command] /\ client'[c] = sent
        /\ \A d \in Client : d # c => client'[d] = client[d]
    BY <1>1, <2>2, <2>3, MoveClient
  <2>5. ServerTypeOK' /\ OwnersHoldLock'
    BY <1>1, <2>4 DEF ServerInv, ServerTypeOK, OwnersHoldLock, Listening
  <2>6. \A d \in Client : /\ client'[d].link = client[d].link
                          /\ client[d].at \in {"send", "receive"} => client'[d].at \in {"send", "receive"}
    BY <2>2, <2>4
  <2>7. ConnectionsAreExclusive'
    BY <1>1, <2>6 DEF ServerInv, ConnectionsAreExclusive, Exclusive, Listening
  <2> QED
    BY <2>5, <2>7 DEF ServerInv
<1> QED
  BY <1>2, <1>3

LEMMA ReceiveSound ==
  ASSUME ServerInv, NEW c \in Client, Receive(c)
  PROVE  ServerInv'
<1>1. PICK k \in {NoCommand, Retried(c)} : client' = [client EXCEPT ![c] = k]
  BY DEF Receive
<1>2. k \in Command
  BY IdleTyped, RetriedTyped DEF ServerInv
<1> QED
  BY <1>1, <1>2, CommandMoves DEF Receive

LEMMA LaunchSound ==
  ASSUME ServerInv, NEW c \in Client, Launch(c)
  PROVE  ServerInv'
<1>1. ServerTypeOK /\ client[c].at = "launch" /\ UNCHANGED <<lock, endpoint>> /\ client[c] \in Command
  BY DEF ServerInv, ServerTypeOK, Launch
<1>2. PICK s \in Server : server[s].at = "absent" /\ server' = [server EXCEPT ![s].at = "acquire"]
  BY DEF Launch
<1>3. /\ server' \in [Server -> Process]
      /\ server'[s].at = "acquire" /\ server'[s].backlog = server[s].backlog
      /\ server'[s].serving = server[s].serving
      /\ \A t \in Server : t # s => server'[t] = server[t]
  BY <1>1, <1>2, MoveServer DEF Places
<1>4. PICK k : k = [client[c] EXCEPT !.at = "dial", !.polling = TRUE]
  OBVIOUS
<1>5. k \in Command
  BY <1>1, <1>4 DEF Command
<1>6. client' = [client EXCEPT ![c] = k]
  BY <1>4 DEF Launch
<1>7. /\ client' \in [Client -> Command]
      /\ \A d \in Client : d # c => client'[d] = client[d]
  BY <1>1, <1>5, <1>6, MoveClient
<1>8. ServerTypeOK' /\ OwnersHoldLock'
  BY <1>1, <1>2, <1>3, <1>7 DEF ServerInv, ServerTypeOK, OwnersHoldLock, Listening
<1>9. ConnectionsAreExclusive'
  <2> SUFFICES ASSUME NEW t \in Server PROVE Exclusive(t)'
    BY DEF ConnectionsAreExclusive
  <2>1. Exclusive(t)
    BY DEF ServerInv, ConnectionsAreExclusive
  <2>2. server'[t].backlog = server[t].backlog /\ server'[t].serving = server[t].serving
        /\ (Listening(t)' <=> Listening(t)) /\ (server'[t].at = "handle" <=> server[t].at = "handle")
    BY <1>2, <1>3 DEF Listening
  <2> QED
    BY <1>1, <1>7, <2>1, <2>2 DEF Exclusive
<1> QED
  BY <1>8, <1>9 DEF ServerInv

LEMMA DeadlineSound ==
  ASSUME ServerInv, NEW c \in Client, DeadlinePasses(c)
  PROVE  ServerInv'
<1>1. ServerTypeOK /\ UNCHANGED <<lock, endpoint, server>> /\ client[c] \in Command
  BY DEF ServerInv, ServerTypeOK, DeadlinePasses
<1>2. PICK k : k = [client[c] EXCEPT !.expired = TRUE]
  OBVIOUS
<1>3. k \in Command /\ k.at = client[c].at /\ k.link = client[c].link
  BY <1>1, <1>2 DEF Command
<1>4. client' = [client EXCEPT ![c] = k]
  BY <1>2 DEF DeadlinePasses
<1>5. /\ client' \in [Client -> Command] /\ client'[c] = k
      /\ \A d \in Client : d # c => client'[d] = client[d]
  BY <1>1, <1>3, <1>4, MoveClient
<1>6. \A d \in Client : client'[d].link = client[d].link /\ client'[d].at = client[d].at
  BY <1>3, <1>5
<1>7. ServerTypeOK' /\ OwnersHoldLock'
  BY <1>1, <1>5 DEF ServerInv, ServerTypeOK, OwnersHoldLock, Listening
<1>8. ConnectionsAreExclusive'
  BY <1>1, <1>6 DEF ServerInv, ConnectionsAreExclusive, Exclusive, Listening
<1> QED
  BY <1>7, <1>8 DEF ServerInv

(* A command that dies leaves a dead connection where it waited. *)
LEMMA ClientDiesSound ==
  ASSUME ServerInv, NEW c \in Client, ClientDies(c)
  PROVE  ServerInv'
<1>0. Client \cap Gone = {} /\ Nobody \notin Client
  BY ServerAssumption
<1>1. ServerTypeOK /\ UNCHANGED <<lock, endpoint>> /\ server \in [Server -> Process]
  BY DEF ServerInv, ServerTypeOK, ClientDies
<1>2. client' = [client EXCEPT ![c] = NoCommand]
  BY DEF ClientDies
<1>3. /\ client' \in [Client -> Command]
      /\ \A d \in Client : d # c => client'[d] = client[d]
  BY <1>1, <1>2, IdleTyped, MoveClient
<1>4. PICK gone \in Gone :
        server' = [s \in Server |->
          [server[s] EXCEPT
             !.backlog = [i \in DOMAIN server[s].backlog |->
                            IF server[s].backlog[i] = c THEN gone ELSE server[s].backlog[i]],
             !.serving = IF server[s].serving = c THEN gone ELSE server[s].serving]]
  BY DEF ClientDies, Gone
<1>5. ASSUME NEW s \in Server
      PROVE  /\ server'[s] \in Process /\ server'[s].at = server[s].at
             /\ server'[s].serving = IF server[s].serving = c THEN gone ELSE server[s].serving
             /\ server'[s].backlog = [i \in DOMAIN server[s].backlog |->
                    IF server[s].backlog[i] = c THEN gone ELSE server[s].backlog[i]]
  <2>1. server[s] \in Process /\ server[s].backlog \in Seq(Client \cup Gone)
    BY <1>1 DEF Process
  <2>2. PICK queue : queue = [i \in DOMAIN server[s].backlog |->
                    IF server[s].backlog[i] = c THEN gone ELSE server[s].backlog[i]]
    OBVIOUS
  <2>3. queue \in Seq(Client \cup Gone)
    <3>1. PICK n \in Nat : server[s].backlog \in [1 .. n -> Client \cup Gone]
      BY <2>1, SeqDef
    <3>2. queue \in [1 .. n -> Client \cup Gone]
      BY <2>2, <3>1
    <3> QED
      BY <3>2, SeqDef
  <2>4. PICK next \in Client \cup Gone \cup {Nobody} :
          next = IF server[s].serving = c THEN gone ELSE server[s].serving
    BY <2>1 DEF Process
  <2>5. server'[s] = [server[s] EXCEPT !.backlog = queue, !.serving = next]
    BY <1>4, <2>2, <2>4
  <2> QED
    BY <2>1, <2>2, <2>3, <2>4, <2>5 DEF Process
<1>6. server' \in [Server -> Process]
  BY <1>4, <1>5
<1>7. ServerTypeOK' /\ OwnersHoldLock'
  BY <1>1, <1>3, <1>5, <1>6 DEF ServerInv, ServerTypeOK, OwnersHoldLock, Listening
<1>8. ConnectionsAreExclusive'
  <2> SUFFICES ASSUME NEW t \in Server PROVE Exclusive(t)'
    BY DEF ConnectionsAreExclusive
  <2>1. Exclusive(t)
    BY DEF ServerInv, ConnectionsAreExclusive
  <2> DEFINE waiting == server[t].backlog
             queue == server'[t].backlog
  <2>2. DOMAIN queue = DOMAIN waiting
        /\ \A i \in DOMAIN waiting : queue[i] = IF waiting[i] = c THEN gone ELSE waiting[i]
    BY <1>5
  <2>3. \A i \in DOMAIN queue : queue[i] \in Client => queue[i] = waiting[i] /\ queue[i] # c
    BY <1>0, <2>2
  <2>4. server'[t].serving \in Client => server'[t].serving = server[t].serving
                                         /\ server'[t].serving # c
    BY <1>0, <1>5
  <2>5. ~Listening(t)' => queue = <<>>
    <3>1. Listening(t)' <=> Listening(t)
      BY <1>5 DEF Listening
    <3>2. waiting = <<>> => queue = <<>>
      <4>1. ASSUME waiting = <<>> PROVE queue = <<>>
        <5>1. DOMAIN queue = {}
          BY <2>2, <4>1
        <5>2. queue \in Seq(Client \cup Gone)
          BY <1>6 DEF Process
        <5> QED
          BY <5>1, <5>2, EmptyDomain
      <4> QED
        BY <4>1
    <3> QED
      BY <2>1, <3>1, <3>2 DEF Exclusive
  <2>6. server'[t].at # "handle" => server'[t].serving = Nobody
    BY <1>0, <1>5, <2>1 DEF Exclusive
  <2>7. \A i, j \in DOMAIN queue : queue[i] = queue[j] /\ queue[i] \in Client => i = j
    BY <2>1, <2>2, <2>3 DEF Exclusive
  <2>8. \A i \in DOMAIN queue : queue[i] \in Client => queue[i] # server'[t].serving
    BY <2>1, <2>2, <2>3, <2>4 DEF Exclusive
  <2>9. ASSUME NEW d \in Client, server'[t].serving = d \/ \E i \in DOMAIN queue : queue[i] = d
        PROVE  client'[d].link = t /\ client'[d].at \in {"send", "receive"}
    <3>1. d # c /\ (server[t].serving = d \/ \E i \in DOMAIN waiting : waiting[i] = d)
      BY <2>2, <2>3, <2>4, <2>9
    <3>2. client[d].link = t /\ client[d].at \in {"send", "receive"}
      BY <2>1, <3>1 DEF Exclusive
    <3> QED
      BY <1>3, <3>1, <3>2
  <2> QED
    BY <2>5, <2>6, <2>7, <2>8, <2>9 DEF Exclusive
<1> QED
  BY <1>7, <1>8 DEF ServerInv
-----------------------------------------------------------------------------
LEMMA InitSound == ServerInit => ServerInv
<1> SUFFICES ASSUME ServerInit PROVE ServerInv
  OBVIOUS
<1>1. Absent \in Process /\ NoCommand \in Command
  BY IdleTyped DEF Absent, Process
<1>2. ServerTypeOK
  BY <1>1 DEF ServerInit, ServerTypeOK
<1>3. \A s \in Server : server[s].at = "absent" /\ server[s].backlog = <<>> /\ server[s].serving = Nobody
  BY DEF ServerInit, Absent
<1>4. OwnersHoldLock
  BY <1>3 DEF OwnersHoldLock, Listening
<1>5. ConnectionsAreExclusive
  BY <1>3, ServerAssumption DEF ConnectionsAreExclusive, Exclusive
<1> QED
  BY <1>2, <1>4, <1>5 DEF ServerInv

LEMMA NextSound == ServerInv /\ [ServerNext]_serverVars => ServerInv'
<1> SUFFICES ASSUME ServerInv, [ServerNext]_serverVars PROVE ServerInv'
  OBVIOUS
<1>1. CASE UNCHANGED serverVars
  BY <1>1 DEF serverVars, ServerInv, ServerTypeOK, OwnersHoldLock, ConnectionsAreExclusive, Exclusive, Listening
<1>2. ASSUME NEW s \in Server, ServerSteps(s) \/ IdleTimeout(s) \/ ServerDies(s)
      PROVE  ServerInv'
  BY <1>2, AcquireSound, OwnerMoves, AcceptSound, HandleSound, HandleGoneSound,
     CloseListenerSound, ServerEndsSound DEF ServerSteps
<1>3. ASSUME NEW c \in Client, ClientSteps(c) \/ BeginCommand(c) \/ Launch(c)
                                \/ DeadlinePasses(c) \/ ClientDies(c)
      PROVE  ServerInv'
  BY <1>3, DialSound, SendSound, ReceiveSound, BeginCommandSound, LaunchSound,
     DeadlineSound, ClientDiesSound DEF ClientSteps
<1> QED
  BY <1>1, <1>2, <1>3 DEF ServerNext

(* However many servers compete for a workspace and however many commands  *)
(* come and go, the lock has one owner, the socket is the owner's, and a   *)
(* command is connected to one server at most.                             *)
THEOREM ServerInvariant == ServerSpec => []ServerInv
  BY InitSound, NextSound, PTL DEF ServerSpec

(* Whoever serves can be reached, and a socket file left by a crash never  *)
(* keeps the next owner from listening.                                    *)
THEOREM SocketAlwaysFollowsLock == ServerSpec => []SocketFollowsLock
<1>1. ServerInv => SocketFollowsLock
  BY DEF ServerInv, OwnersHoldLock, Listening, SocketFollowsLock
<1> QED
  BY <1>1, ServerInvariant, PTL
=============================================================================
