------------------------ MODULE ProjectionCacheProofs ------------------------
(***************************************************************************)
(* The resolver projection cache: for any number of readers and writers, a *)
(* read that no rollback crosses leaves an exact entry.                    *)
(***************************************************************************)
EXTENDS ProjectionCache, FiniteSetTheorems, FunctionTheorems, WellFoundedInduction, TLAPS

(* The newest version is the upper end of the run of retained versions.    *)
LEMMA EndOfRun ==
  ASSUME NEW lo \in Nat, NEW hi \in Nat, lo <= hi
  PROVE  (CHOOSE v \in lo .. hi : \A w \in lo .. hi : w <= v) = hi
<1>1. hi \in lo .. hi /\ \A w \in lo .. hi : w <= hi
  OBVIOUS
<1>2. \A v \in lo .. hi : (\A w \in lo .. hi : w <= v) => v = hi
  OBVIOUS
<1>. QED  BY <1>1, <1>2

LEMMA CurrentIs ==
  ASSUME CacheTypeOK
  PROVE  /\ Current \in 0 .. MaxVersion
         /\ DOMAIN graphs # {} => Current \in DOMAIN graphs
         /\ \A v \in DOMAIN graphs : v \in Version /\ v <= Current /\ graphs[v] \in Content
         /\ graphs \in [DOMAIN graphs -> Content]
         /\ \E lo \in 1 .. MaxVersion + 1 : DOMAIN graphs = lo .. Current
<1>1. PICK lo \in 1 .. MaxVersion + 1, hi \in 0 .. MaxVersion : graphs \in [lo .. hi -> Content]
  BY DEF CacheTypeOK
<1>2. DOMAIN graphs = lo .. hi /\ lo \in Nat /\ hi \in Nat /\ 1 <= lo /\ hi <= MaxVersion
  BY <1>1, CacheAssumption
<1>3. CASE lo <= hi
  <2>1. DOMAIN graphs # {} /\ hi \in DOMAIN graphs
    BY <1>2, <1>3
  <2>2. Current = hi
    BY <1>2, <1>3, <2>1, EndOfRun DEF Current
  <2>. QED  BY <1>1, <1>2, <2>1, <2>2, CacheAssumption DEF Version
<1>4. CASE ~(lo <= hi)
  <2>1. DOMAIN graphs = {}
    BY <1>2, <1>4
  <2>2. Current = 0
    BY <2>1 DEF Current
  <2>3. DOMAIN graphs = 1 .. Current /\ 1 \in 1 .. MaxVersion + 1
    BY <2>1, <2>2, CacheAssumption
  <2>. QED  BY <1>1, <2>1, <2>2, <2>3, CacheAssumption
<1>. QED  BY <1>3, <1>4

(* What remains of the run after a publication, a rollback or a pruning.   *)
LEMMA NewRun ==
  ASSUME NEW lo \in 1 .. MaxVersion + 1, NEW hi \in 0 .. MaxVersion, lo <= hi,
         graphs' \in [lo .. hi -> Content]
  PROVE  Current' = hi /\ DOMAIN graphs' = lo .. hi
<1>1. lo \in Nat /\ hi \in Nat
  BY CacheAssumption
<1>2. DOMAIN graphs' = lo .. hi
  OBVIOUS
<1>3. lo \in lo .. hi
  BY <1>1
<1>. QED  BY <1>1, <1>2, <1>3, EndOfRun DEF Current

LEMMA ShownIs ==
  ASSUME CacheTypeOK, NEW v
  PROVE  Shown(v) \in Content \cup {Nothing} /\ (v \in DOMAIN graphs => Shown(v) = graphs[v])
<1>1. /\ \A u \in DOMAIN graphs : graphs[u] \in Content
      /\ Current > 0 => Current \in DOMAIN graphs
  <2>1. DOMAIN graphs = {} => ~(Current > 0)
    BY DEF Current
  <2>. QED  BY <2>1, CurrentIs
<1>. QED  BY <1>1 DEF Shown

LEMMA ValueTyped ==
  ASSUME CacheTypeOK, NEW r \in Reader
  PROVE  ValueOf(r) \in Value /\ reader[r].undisturbed \in BOOLEAN
  BY DEF CacheTypeOK, ValueOf, Value, ReaderState

LEMMA IdleTyped ==
  /\ Idle \in ReaderState /\ Idle.at = "idle"
  /\ NoInvalidation \in [drop : SUBSET Version, pending : BOOLEAN]
  /\ NoInvalidation.drop = {} /\ NoInvalidation.pending = FALSE
  BY DEF Idle, ReaderState, NoInvalidation

LEMMA CacheInit == Init => CacheInv
<1>. SUFFICES ASSUME Init PROVE CacheInv
  OBVIOUS
<1>. USE DEF Init
<1>1. DOMAIN graphs = {} /\ DOMAIN projections = {}
  OBVIOUS
<1>2. CacheTypeOK
  <2>1. graphs \in [1 .. 0 -> Content] /\ 1 \in 1 .. MaxVersion + 1 /\ 0 \in 0 .. MaxVersion
    <3>1. 1 .. 0 = {}
      OBVIOUS
    <3>. QED  BY <3>1, CacheAssumption
  <2>2. \E lo \in 1 .. MaxVersion + 1, hi \in 0 .. MaxVersion : graphs \in [lo .. hi -> Content]
    BY <2>1
  <2>. QED  BY <1>1, <2>2, IdleTyped DEF CacheTypeOK
<1>3. ReadsAreOfOneVersion
  BY IdleTyped DEF ReadsAreOfOneVersion
<1>4. LeftoversAreDropped /\ UndisturbedReadsAreExact
  BY <1>1, IdleTyped DEF LeftoversAreDropped, UndisturbedReadsAreExact
<1>. QED  BY <1>2, <1>3, <1>4 DEF CacheInv
-----------------------------------------------------------------------------
(* Readers *)

(* A reader that moves on while store and cache stay as they are. *)
LEMMA ReaderMoves ==
  ASSUME CacheInv, NEW r \in Reader, NEW to \in ReaderState,
         reader' = [reader EXCEPT ![r] = to],
         to.at # "idle" => to.version \in Version,
         to.at # "idle" /\ to.undisturbed =>
           /\ to.version <= Current
           /\ to.version \in DOMAIN graphs /\ to.at # "listing" => to.sources = graphs[to.version]
           /\ to.version \in DOMAIN graphs /\ to.at = "read" => to.facts = graphs[to.version],
         UNCHANGED <<graphs, projections, writer>>
  PROVE  CacheInv'
<1>0. reader \in [Reader -> ReaderState] /\ reader' \in [Reader -> ReaderState]
  BY DEF CacheInv, CacheTypeOK
<1>1. reader'[r] = to /\ \A s \in Reader : s # r => reader'[s] = reader[s]
  BY <1>0
<1>2. CacheTypeOK'
  BY <1>0, <1>1 DEF CacheInv, CacheTypeOK
<1>3. Current' = Current
  BY DEF Current
<1>4. ReadsAreOfOneVersion'
  BY <1>1, <1>3 DEF CacheInv, ReadsAreOfOneVersion
<1>5. LeftoversAreDropped' /\ UndisturbedReadsAreExact'
  BY <1>3 DEF CacheInv, LeftoversAreDropped, UndisturbedReadsAreExact, Exact
<1>. QED  BY <1>2, <1>4, <1>5 DEF CacheInv

LEMMA OpenSnapshotKeeps ==
  ASSUME CacheInv, NEW r \in Reader, OpenSnapshot(r)
  PROVE  CacheInv'
<1>1. PICK v \in DOMAIN graphs :
        reader' = [reader EXCEPT ![r] = [Idle EXCEPT !.at = "listing", !.version = v]]
  BY DEF OpenSnapshot
<1>. DEFINE to == [Idle EXCEPT !.at = "listing", !.version = v]
<1>2. v \in Version /\ v <= Current
  BY CurrentIs DEF CacheInv
<1>3. to \in ReaderState /\ to.at = "listing" /\ to.version = v
  <2>1. v \in Nat
    BY <1>2, CacheAssumption DEF Version
  <2>. QED  BY <2>1, IdleTyped DEF ReaderState
<1>. HIDE DEF to
<1>4. reader' = [reader EXCEPT ![r] = to]
  BY <1>1 DEF to
<1>. QED  BY <1>2, <1>3, <1>4, ReaderMoves DEF OpenSnapshot

LEMMA ReadSourcesKeeps ==
  ASSUME CacheInv, NEW r \in Reader, ReadSources(r)
  PROVE  CacheInv'
<1>. DEFINE v == reader[r].version
            to == [reader[r] EXCEPT !.at = "reading", !.sources = Shown(v)]
<1>1. reader[r] \in ReaderState /\ v \in Version /\ reader[r].at = "listing"
  BY DEF ReadSources, CacheInv, CacheTypeOK
<1>2. Shown(v) \in Content \cup {Nothing} /\ (v \in DOMAIN graphs => Shown(v) = graphs[v])
  BY ShownIs DEF CacheInv
<1>3. /\ to \in ReaderState /\ to.at = "reading" /\ to.version = v /\ to.sources = Shown(v)
      /\ to.undisturbed = reader[r].undisturbed
  BY <1>1, <1>2 DEF ReaderState
<1>4. reader' = [reader EXCEPT ![r] = to]
  BY DEF ReadSources, CacheInv, CacheTypeOK
<1>5. reader[r].undisturbed => v <= Current
  BY <1>1 DEF CacheInv, ReadsAreOfOneVersion
<1>6. UNCHANGED <<graphs, projections, writer>>
  BY DEF ReadSources
<1>. HIDE DEF to, v
<1>. QED  BY <1>1, <1>2, <1>3, <1>4, <1>5, <1>6, ReaderMoves

LEMMA ReadFactsKeeps ==
  ASSUME CacheInv, NEW r \in Reader, ReadFacts(r)
  PROVE  CacheInv'
<1>. DEFINE v == reader[r].version
            found == Shown(v)
            facts == IF reader[r].sources = Nothing THEN Nothing ELSE found
            to == [reader[r] EXCEPT !.at = "read", !.facts = facts]
<1>1. reader[r] \in ReaderState /\ v \in Version /\ reader[r].at = "reading"
  BY DEF ReadFacts, CacheInv, CacheTypeOK
<1>2. CASE reader[r].sources # Nothing /\ found = Nothing
  <2>1. reader' = [reader EXCEPT ![r] = Idle]
    BY <1>2 DEF ReadFacts
  <2>. QED  BY <2>1, IdleTyped, ReaderMoves DEF ReadFacts
<1>3. CASE ~(reader[r].sources # Nothing /\ found = Nothing)
  <2>1. found \in Content \cup {Nothing} /\ (v \in DOMAIN graphs => found = graphs[v])
    BY ShownIs DEF CacheInv
  <2>2. /\ to \in ReaderState /\ to.at = "read" /\ to.version = v /\ to.facts = facts
        /\ to.sources = reader[r].sources /\ to.undisturbed = reader[r].undisturbed
    BY <1>1, <2>1 DEF ReaderState
  <2>3. reader' = [reader EXCEPT ![r] = to]
    BY <1>3 DEF ReadFacts, CacheInv, CacheTypeOK
  <2>4. reader[r].undisturbed =>
          /\ v <= Current
          /\ v \in DOMAIN graphs => reader[r].sources = graphs[v]
    BY <1>1 DEF CacheInv, ReadsAreOfOneVersion
  <2>5. reader[r].undisturbed /\ v \in DOMAIN graphs => facts = graphs[v]
    <3>1. v \in DOMAIN graphs => graphs[v] # Nothing
      BY CurrentIs, CacheAssumption DEF CacheInv
    <3>. QED  BY <2>1, <2>4, <3>1
  <2>6. UNCHANGED <<graphs, projections, writer>>
    BY DEF ReadFacts
  <2>7. to.at # "idle" => to.version \in Version
    BY <1>1, <2>2
  <2>8. to.at # "idle" /\ to.undisturbed =>
          /\ to.version <= Current
          /\ to.version \in DOMAIN graphs /\ to.at # "listing" => to.sources = graphs[to.version]
          /\ to.version \in DOMAIN graphs /\ to.at = "read" => to.facts = graphs[to.version]
    <3>. HIDE DEF to, facts
    <3>. QED  BY <2>2, <2>4, <2>5
  <2>. HIDE DEF to
  <2>. QED  BY <2>2, <2>3, <2>6, <2>7, <2>8, ReaderMoves
<1>. QED  BY <1>2, <1>3

LEMMA CachedResolverProjectionsKeeps ==
  ASSUME CacheInv, NEW r \in Reader, CachedResolverProjections(r)
  PROVE  CacheInv'
  BY IdleTyped, ReaderMoves DEF CachedResolverProjections

(* The map that an insertion leaves: every other entry was there before,   *)
(* and keeps its value.                                                    *)
LEMMA InsertionKeepsTheRest ==
  ASSUME CacheInv, NEW r \in Reader, CacheResolverProjections(r),
         ProjectionBytes(ValueOf(r)) <= MaxBytes
  PROVE  /\ projections' \in [DOMAIN projections' -> Entry]
         /\ DOMAIN projections' \subseteq DOMAIN projections \cup {reader[r].version}
         /\ projections'[reader[r].version].value = ValueOf(r)
         /\ projections'[reader[r].version].undisturbed = reader[r].undisturbed
         /\ \A k \in DOMAIN projections' : k # reader[r].version =>
              /\ k \in DOMAIN projections
              /\ projections'[k].value = projections[k].value
              /\ projections'[k].undisturbed = projections[k].undisturbed
<1>. DEFINE v == reader[r].version
            evicted == Evicted(projectionBytes - Bytes({v} \cap DOMAIN projections),
                               ProjectionBytes(ValueOf(r)))
            kept == DOMAIN projections \ (evicted \cup {v})
            new == [value |-> ValueOf(r), order |-> Cardinality(kept) + 1,
                    undisturbed |-> reader[r].undisturbed]
            old(k) == [projections[k] EXCEPT !.order = Cardinality(Older(kept, k)) + 1]
<1>1. ~(ProjectionBytes(ValueOf(r)) > MaxBytes)
  <2>1. ProjectionBytes(ValueOf(r)) \in Nat
    BY ValueTyped, CacheAssumption DEF CacheInv, ProjectionBytes, Value
  <2>. QED  BY <2>1, CacheAssumption
<1>2. projections' = [k \in kept \cup {v} |-> IF k = v THEN new ELSE old(k)]
  BY <1>1 DEF CacheResolverProjections
<1>3. IsFiniteSet(Version)
  BY FS_Interval, CacheAssumption DEF Version
<1>4. kept \subseteq DOMAIN projections /\ kept \subseteq Version /\ v \notin kept
  BY DEF CacheInv, CacheTypeOK
<1>. HIDE DEF kept
<1>5. Cardinality(kept) + 1 \in Nat
  BY <1>3, <1>4, FS_Subset, FS_CardinalityType
<1>6. ASSUME NEW k \in kept  PROVE Cardinality(Older(kept, k)) + 1 \in Nat
  <2>1. Older(kept, k) \subseteq Version
    BY <1>4 DEF Older
  <2>. QED  BY <2>1, <1>3, FS_Subset, FS_CardinalityType
<1>7. new \in Entry /\ new.value = ValueOf(r) /\ new.undisturbed = reader[r].undisturbed
  BY <1>5, ValueTyped DEF CacheInv, Entry
<1>8. ASSUME NEW k \in kept
      PROVE  /\ old(k) \in Entry /\ old(k).value = projections[k].value
             /\ old(k).undisturbed = projections[k].undisturbed
  <2>1. projections[k] \in Entry
    BY <1>4 DEF CacheInv, CacheTypeOK
  <2>. QED  BY <2>1, <1>6 DEF Entry
<1>. HIDE DEF new, old
<1>9. DOMAIN projections' = kept \cup {v} /\ projections'[v] = new
  BY <1>2
<1>10. \A k \in kept : projections'[k] = old(k)
  BY <1>2, <1>4
<1>. QED  BY <1>2, <1>4, <1>7, <1>8, <1>9, <1>10

LEMMA CacheResolverProjectionsKeeps ==
  ASSUME CacheInv, NEW r \in Reader, CacheResolverProjections(r)
  PROVE  CacheInv'
<1>1. CASE ~(ProjectionBytes(ValueOf(r)) <= MaxBytes)
  <2>1. ProjectionBytes(ValueOf(r)) \in Nat
    BY ValueTyped, CacheAssumption DEF CacheInv, ProjectionBytes, Value
  <2>2. ProjectionBytes(ValueOf(r)) > MaxBytes
    BY <1>1, <2>1, CacheAssumption
  <2>3. UNCHANGED <<graphs, projections, writer>> /\ reader' = [reader EXCEPT ![r] = Idle]
    BY <2>2 DEF CacheResolverProjections
  <2>. QED  BY <2>3, IdleTyped, ReaderMoves
<1>2. CASE ProjectionBytes(ValueOf(r)) <= MaxBytes
  <2>. DEFINE v == reader[r].version
  <2>1. UNCHANGED <<graphs, writer>> /\ reader' = [reader EXCEPT ![r] = Idle]
    BY DEF CacheResolverProjections
  <2>2. Current' = Current
    BY <2>1 DEF Current
  <2>3. reader[r].at = "read" /\ v \in Version
    BY DEF CacheResolverProjections, CacheInv, CacheTypeOK
  <2>4. /\ reader' \in [Reader -> ReaderState]
        /\ \A s \in Reader : reader'[s] = reader[s] \/ reader'[s] = Idle
    BY <2>1, IdleTyped DEF CacheInv, CacheTypeOK
  <2>5. CacheTypeOK'
    BY <1>2, <2>1, <2>3, <2>4, IdleTyped, InsertionKeepsTheRest DEF CacheInv, CacheTypeOK
  <2>6. ReadsAreOfOneVersion'
    BY <2>1, <2>2, <2>4, IdleTyped DEF CacheInv, ReadsAreOfOneVersion
  <2>7. LeftoversAreDropped'
    <3>1. \A w \in Writer : ~writer'[w].pending => writer'[w].drop = {}
      BY <2>1 DEF CacheInv, LeftoversAreDropped
    <3>2. SUFFICES ASSUME NEW k \in DOMAIN projections', projections'[k].undisturbed, k > Current
                   PROVE  \E w \in Writer : k \in writer[w].drop
      BY <2>1, <2>2, <3>1 DEF LeftoversAreDropped
    <3>3. CASE k = v
      <4>1. reader[r].undisturbed
        BY <1>2, <3>2, <3>3, InsertionKeepsTheRest
      <4>2. v <= Current
        BY <2>3, <4>1 DEF CacheInv, ReadsAreOfOneVersion
      <4>3. Current \in Int /\ v \in Int
        BY <2>3, CurrentIs, CacheAssumption DEF CacheInv, Version
      <4>. QED  BY <3>2, <3>3, <4>2, <4>3
    <3>4. CASE k # v
      BY <1>2, <3>2, <3>4, InsertionKeepsTheRest DEF CacheInv, LeftoversAreDropped
    <3>. QED  BY <3>3, <3>4
  <2>8. UndisturbedReadsAreExact'
    <3>1. SUFFICES ASSUME NEW k \in DOMAIN projections', projections'[k].undisturbed,
                          k \in DOMAIN graphs, \A w \in Writer : k \notin writer[w].drop
                   PROVE  projections'[k].value = [sources |-> graphs[k], facts |-> graphs[k]]
      BY <2>1 DEF UndisturbedReadsAreExact, Exact
    <3>2. CASE k = v
      <4>1. reader[r].undisturbed /\ projections'[k].value = ValueOf(r)
        BY <1>2, <3>1, <3>2, InsertionKeepsTheRest
      <4>2. reader[r].sources = graphs[v] /\ reader[r].facts = graphs[v]
        BY <2>3, <3>1, <3>2, <4>1 DEF CacheInv, ReadsAreOfOneVersion
      <4>. QED  BY <3>2, <4>1, <4>2 DEF ValueOf
    <3>3. CASE k # v
      BY <1>2, <3>1, <3>3, InsertionKeepsTheRest DEF CacheInv, UndisturbedReadsAreExact, Exact
    <3>. QED  BY <3>2, <3>3
  <2>. QED  BY <2>5, <2>6, <2>7, <2>8 DEF CacheInv
<1>. QED  BY <1>1, <1>2
-----------------------------------------------------------------------------
(* Writers *)

(* A commit in which reads stay of one version, and every version it       *)
(* removes from the top, and every one it adds, is among those to drop.    *)
LEMMA CommitKeeps ==
  ASSUME CacheInv, NEW w \in Writer, NEW newGraphs, NEW drop \in SUBSET Version,
         Commits(w, newGraphs, drop), CacheTypeOK', ReadsAreOfOneVersion',
         \A k \in Version : k > Current' /\ k <= Current => k \in drop,
         \A k \in DOMAIN graphs' \ drop : k \in DOMAIN graphs /\ graphs'[k] = graphs[k]
  PROVE  CacheInv'
<1>1. /\ projections' = projections
      /\ ~writer[w].pending /\ writer' = [writer EXCEPT ![w] = [drop |-> drop, pending |-> TRUE]]
  BY DEF Commits
<1>2. writer \in [Writer -> [drop : SUBSET Version, pending : BOOLEAN]] /\ writer[w].drop = {}
  BY <1>1 DEF CacheInv, CacheTypeOK, LeftoversAreDropped
<1>3. /\ writer'[w].drop = drop /\ writer'[w].pending
      /\ \A x \in Writer : x # w => writer'[x] = writer[x]
  BY <1>1, <1>2
<1>4. \A k : (\E x \in Writer : k \in writer[x].drop) => \E x \in Writer : k \in writer'[x].drop
  BY <1>2, <1>3
<1>5. LeftoversAreDropped'
  <2>1. \A x \in Writer : ~writer'[x].pending => writer'[x].drop = {}
    BY <1>3 DEF CacheInv, LeftoversAreDropped
  <2>2. SUFFICES ASSUME NEW k \in DOMAIN projections, projections[k].undisturbed, k > Current'
                 PROVE  \E x \in Writer : k \in writer'[x].drop
    BY <1>1, <2>1 DEF LeftoversAreDropped
  <2>3. k \in Version /\ k \in Int /\ Current \in Int
    BY CurrentIs, CacheAssumption DEF CacheInv, CacheTypeOK, Version
  <2>4. CASE k <= Current
    BY <1>3, <2>2, <2>3, <2>4
  <2>5. CASE k > Current
    BY <1>4, <2>2, <2>5 DEF CacheInv, LeftoversAreDropped
  <2>. QED  BY <2>3, <2>4, <2>5
<1>6. UndisturbedReadsAreExact'
  <2>1. SUFFICES ASSUME NEW k \in DOMAIN projections, projections[k].undisturbed,
                        k \in DOMAIN graphs', \A x \in Writer : k \notin writer'[x].drop
                 PROVE  projections[k].value = [sources |-> graphs'[k], facts |-> graphs'[k]]
    BY <1>1 DEF UndisturbedReadsAreExact, Exact
  <2>2. k \in DOMAIN graphs /\ graphs'[k] = graphs[k]
    BY <1>3, <2>1
  <2>3. \A x \in Writer : k \notin writer[x].drop
    BY <1>4, <2>1
  <2>. QED  BY <2>1, <2>2, <2>3 DEF CacheInv, UndisturbedReadsAreExact, Exact
<1>. QED  BY <1>5, <1>6 DEF CacheInv

(* The types after a commit that leaves a run of versions. *)
LEMMA CommitTyped ==
  ASSUME CacheInv, NEW w \in Writer, NEW newGraphs, NEW drop \in SUBSET Version,
         Commits(w, newGraphs, drop),
         NEW lo \in 1 .. MaxVersion + 1, NEW hi \in 0 .. MaxVersion,
         graphs' \in [lo .. hi -> Content],
         reader' \in [Reader -> ReaderState],
         \A r \in Reader : reader'[r].at # "idle" => reader'[r].version \in Version
  PROVE  CacheTypeOK'
<1>1. \E l \in 1 .. MaxVersion + 1, h \in 0 .. MaxVersion : graphs' \in [l .. h -> Content]
  OBVIOUS
<1>2. /\ projections' = projections
      /\ writer' = [writer EXCEPT ![w] = [drop |-> drop, pending |-> TRUE]]
  BY DEF Commits
<1>. QED  BY <1>1, <1>2 DEF CacheInv, CacheTypeOK

LEMMA PublishKeeps ==
  ASSUME CacheInv, NEW w \in Writer, Publish(w)
  PROVE  CacheInv'
<1>. DEFINE v == Current + 1
<1>1. PICK c \in Content :
        Commits(w, [u \in {x \in DOMAIN graphs \cup {v} : x > v - Retained} |->
                      IF u = v THEN c ELSE graphs[u]], {v})
  BY DEF Publish
<1>2. PICK lo \in 1 .. MaxVersion + 1 : DOMAIN graphs = lo .. Current
  BY CurrentIs DEF CacheInv
<1>3. /\ MaxVersion \in Nat /\ Retained \in Nat /\ Retained > 0 /\ Current \in Nat
      /\ v <= MaxVersion /\ v \in Version
  BY CurrentIs, CacheAssumption DEF CacheInv, Publish, Version
<1>. DEFINE l == IF DOMAIN graphs = {} THEN v ELSE IF lo > v - Retained THEN lo ELSE v - Retained + 1
<1>4. l \in 1 .. MaxVersion + 1 /\ l <= v /\ v \in 0 .. MaxVersion
  BY <1>2, <1>3
<1>5. {x \in DOMAIN graphs \cup {v} : x > v - Retained} = l .. v
  BY <1>2, <1>3
<1>6. graphs' = [u \in l .. v |-> IF u = v THEN c ELSE graphs[u]] /\ UNCHANGED reader
  BY <1>1, <1>5 DEF Commits, Publish
<1>7. \A u \in l .. v : u # v => u \in DOMAIN graphs
  BY <1>2, <1>3
<1>. HIDE DEF l
<1>8. graphs' \in [l .. v -> Content]
  BY <1>6, <1>7, CurrentIs DEF CacheInv
<1>9. Current' = v /\ DOMAIN graphs' = l .. v
  BY <1>4, <1>8, NewRun
<1>10. CacheTypeOK'
  <2>1. /\ reader' \in [Reader -> ReaderState] /\ {v} \in SUBSET Version
        /\ \A r \in Reader : reader'[r].at # "idle" => reader'[r].version \in Version
    BY <1>3, <1>6 DEF CacheInv, CacheTypeOK
  <2>. QED  BY <1>1, <1>4, <1>8, <2>1, CommitTyped
<1>11. ReadsAreOfOneVersion'
  <2>1. SUFFICES ASSUME NEW r \in Reader, reader[r].at # "idle", reader[r].undisturbed
                 PROVE  LET u == reader[r].version IN
                        /\ u <= Current'
                        /\ u \in DOMAIN graphs' /\ reader[r].at # "listing" =>
                             reader[r].sources = graphs'[u]
                        /\ u \in DOMAIN graphs' /\ reader[r].at = "read" =>
                             reader[r].facts = graphs'[u]
    BY <1>6 DEF ReadsAreOfOneVersion
  <2>. DEFINE u == reader[r].version
  <2>2. u \in Version /\ u \in Int /\ u <= Current
    BY <2>1 DEF CacheInv, CacheTypeOK, ReadsAreOfOneVersion, Version
  <2>3. u \in DOMAIN graphs' => u \in DOMAIN graphs /\ graphs'[u] = graphs[u]
    BY <1>3, <1>6, <1>7, <1>9, <2>2
  <2>. QED  BY <1>3, <1>9, <2>1, <2>2, <2>3 DEF CacheInv, ReadsAreOfOneVersion
<1>12. \A k \in Version : k > Current' /\ k <= Current => k \in {v}
  BY <1>3, <1>9 DEF Version
<1>13. \A k \in DOMAIN graphs' \ {v} : k \in DOMAIN graphs /\ graphs'[k] = graphs[k]
  BY <1>6, <1>7, <1>9
<1>. QED  BY <1>1, <1>3, <1>10, <1>11, <1>12, <1>13, CommitKeeps

LEMMA RollbackKeeps ==
  ASSUME CacheInv, NEW w \in Writer, Rollback(w)
  PROVE  CacheInv'
<1>1. PICK v \in DOMAIN graphs :
        Commits(w, [u \in {x \in DOMAIN graphs : x <= v} |-> graphs[u]], {x \in Version : x > v})
  BY DEF Rollback
<1>2. PICK lo \in 1 .. MaxVersion + 1 : DOMAIN graphs = lo .. Current
  BY CurrentIs DEF CacheInv
<1>3. /\ MaxVersion \in Nat /\ Current \in 0 .. MaxVersion /\ lo \in Nat /\ v \in Nat
      /\ lo <= v /\ v <= Current
  BY <1>2, CurrentIs, CacheAssumption DEF CacheInv
<1>4. {x \in DOMAIN graphs : x <= v} = lo .. v
  BY <1>2, <1>3
<1>5. graphs' = [u \in lo .. v |-> graphs[u]]
  BY <1>1, <1>4 DEF Commits
<1>6. \A u \in lo .. v : u \in DOMAIN graphs
  BY <1>2, <1>3
<1>7. graphs' \in [lo .. v -> Content] /\ v \in 0 .. MaxVersion
  BY <1>3, <1>5, <1>6, CurrentIs DEF CacheInv
<1>8. Current' = v /\ DOMAIN graphs' = lo .. v
  BY <1>3, <1>7, NewRun
<1>9. \A r \in Reader : \/ reader'[r] = Idle
                        \/ /\ reader'[r] \in ReaderState /\ ~reader'[r].undisturbed
                           /\ reader'[r].version \in Version
  <2>1. ASSUME NEW r \in Reader, reader[r].at # "idle"
        PROVE  /\ reader'[r] \in ReaderState /\ ~reader'[r].undisturbed
               /\ reader'[r].version \in Version
    <3>1. reader'[r] = [reader[r] EXCEPT !.undisturbed = FALSE]
      BY <2>1 DEF Rollback
    <3>2. reader[r] \in ReaderState /\ reader[r].version \in Version
      BY <2>1 DEF CacheInv, CacheTypeOK
    <3>. QED  BY <3>1, <3>2 DEF ReaderState
  <2>. QED  BY <2>1 DEF Rollback
<1>10. reader' \in [Reader -> ReaderState]
  <2>1. reader' = [r \in Reader |-> reader'[r]]
    BY DEF Rollback
  <2>. QED  BY <2>1, <1>9, IdleTyped
<1>11. CacheTypeOK'
  <2>1. \A r \in Reader : reader'[r].at # "idle" => reader'[r].version \in Version
    BY <1>9, IdleTyped
  <2>2. {x \in Version : x > v} \in SUBSET Version
    OBVIOUS
  <2>. QED  BY <1>1, <1>7, <1>10, <2>1, <2>2, CommitTyped
<1>12. ReadsAreOfOneVersion'
  BY <1>9, IdleTyped DEF ReadsAreOfOneVersion
<1>13. \A k \in Version : k > Current' /\ k <= Current => k \in {x \in Version : x > v}
  BY <1>8
<1>14. \A k \in DOMAIN graphs' : k \in DOMAIN graphs /\ graphs'[k] = graphs[k]
  BY <1>5, <1>6, <1>8
<1>. QED  BY <1>1, <1>11, <1>12, <1>13, <1>14, CommitKeeps

LEMMA PruneKeeps ==
  ASSUME CacheInv, NEW w \in Writer, Prune(w)
  PROVE  CacheInv'
<1>1. PICK v \in DOMAIN graphs :
        Commits(w, [u \in {x \in DOMAIN graphs : x >= v} |-> graphs[u]], {x \in Version : x < v})
  BY DEF Prune
<1>2. PICK lo \in 1 .. MaxVersion + 1 : DOMAIN graphs = lo .. Current
  BY CurrentIs DEF CacheInv
<1>3. /\ MaxVersion \in Nat /\ Current \in 0 .. MaxVersion /\ v \in 1 .. MaxVersion + 1
      /\ lo <= v /\ v <= Current
  BY <1>2, CurrentIs, CacheAssumption DEF CacheInv
<1>4. {x \in DOMAIN graphs : x >= v} = v .. Current
  BY <1>2, <1>3
<1>5. graphs' = [u \in v .. Current |-> graphs[u]] /\ UNCHANGED reader
  BY <1>1, <1>4 DEF Commits, Prune
<1>6. \A u \in v .. Current : u \in DOMAIN graphs
  BY <1>2, <1>3
<1>7. graphs' \in [v .. Current -> Content]
  BY <1>5, <1>6, CurrentIs DEF CacheInv
<1>8. Current' = Current /\ DOMAIN graphs' = v .. Current
  BY <1>3, <1>7, NewRun
<1>9. \A k \in DOMAIN graphs' : k \in DOMAIN graphs /\ graphs'[k] = graphs[k]
  BY <1>5, <1>6, <1>8
<1>10. CacheTypeOK'
  <2>1. /\ reader' \in [Reader -> ReaderState]
        /\ \A r \in Reader : reader'[r].at # "idle" => reader'[r].version \in Version
    BY <1>5 DEF CacheInv, CacheTypeOK
  <2>. QED  BY <1>1, <1>3, <1>7, <2>1, CommitTyped
<1>11. ReadsAreOfOneVersion'
  BY <1>5, <1>8, <1>9 DEF CacheInv, ReadsAreOfOneVersion
<1>12. \A k \in Version : k > Current' /\ k <= Current => k \in {x \in Version : x < v}
  BY <1>3, <1>8 DEF Version
<1>. QED  BY <1>1, <1>9, <1>10, <1>11, <1>12, CommitKeeps

LEMMA InvalidateWorkspaceCachesKeeps ==
  ASSUME CacheInv, NEW w \in Writer, InvalidateWorkspaceCaches(w)
  PROVE  CacheInv'
<1>1. /\ projections' = Drop(writer[w].drop)
      /\ writer' = [writer EXCEPT ![w] = NoInvalidation]
      /\ UNCHANGED <<graphs, reader>>
  BY DEF InvalidateWorkspaceCaches
<1>2. /\ DOMAIN projections' = DOMAIN projections \ writer[w].drop
      /\ \A k \in DOMAIN projections' : projections'[k] = projections[k]
      /\ projections' = [k \in DOMAIN projections' |-> projections'[k]]
  BY <1>1 DEF Drop
<1>3. /\ writer' \in [Writer -> [drop : SUBSET Version, pending : BOOLEAN]]
      /\ writer'[w] = NoInvalidation
      /\ \A x \in Writer : x # w => writer'[x] = writer[x]
  BY <1>1, IdleTyped DEF CacheInv, CacheTypeOK
<1>4. Current' = Current
  BY <1>1 DEF Current
<1>5. CacheTypeOK'
  <2>1. projections' \in [DOMAIN projections' -> Entry] /\ DOMAIN projections' \subseteq Version
    BY <1>2 DEF CacheInv, CacheTypeOK
  <2>. QED  BY <1>1, <1>3, <2>1 DEF CacheInv, CacheTypeOK
<1>6. ReadsAreOfOneVersion'
  BY <1>1, <1>4 DEF CacheInv, ReadsAreOfOneVersion
<1>7. \A k \in DOMAIN projections' :
        (\E x \in Writer : k \in writer[x].drop) => \E x \in Writer : k \in writer'[x].drop
  BY <1>2, <1>3
<1>8. LeftoversAreDropped'
  <2>1. \A x \in Writer : ~writer'[x].pending => writer'[x].drop = {}
    BY <1>3, IdleTyped DEF CacheInv, LeftoversAreDropped
  <2>2. \A k \in DOMAIN projections' : projections'[k].undisturbed /\ k > Current =>
          \E x \in Writer : k \in writer[x].drop
    BY <1>2 DEF CacheInv, LeftoversAreDropped
  <2>. QED  BY <1>4, <1>7, <2>1, <2>2 DEF LeftoversAreDropped
<1>9. UndisturbedReadsAreExact'
  BY <1>1, <1>2, <1>7 DEF CacheInv, UndisturbedReadsAreExact, Exact
<1>. QED  BY <1>5, <1>6, <1>8, <1>9 DEF CacheInv
-----------------------------------------------------------------------------
LEMMA CacheStep == CacheInv /\ [Next]_vars => CacheInv'
<1>. SUFFICES ASSUME CacheInv, [Next]_vars  PROVE CacheInv'
  OBVIOUS
<1>1. ASSUME NEW r \in Reader,
             \/ OpenSnapshot(r) \/ CachedResolverProjections(r) \/ ReadSources(r)
             \/ ReadFacts(r) \/ CacheResolverProjections(r)
      PROVE  CacheInv'
  BY <1>1, OpenSnapshotKeeps, CachedResolverProjectionsKeeps, ReadSourcesKeeps, ReadFactsKeeps,
     CacheResolverProjectionsKeeps
<1>2. ASSUME NEW w \in Writer,
             Publish(w) \/ Rollback(w) \/ Prune(w) \/ InvalidateWorkspaceCaches(w)
      PROVE  CacheInv'
  BY <1>2, PublishKeeps, RollbackKeeps, PruneKeeps, InvalidateWorkspaceCachesKeeps
<1>3. CASE UNCHANGED vars
  BY <1>3 DEF vars, CacheInv, CacheTypeOK, ReadsAreOfOneVersion, LeftoversAreDropped,
     UndisturbedReadsAreExact, Exact, Current
<1>. QED  BY <1>1, <1>2, <1>3 DEF Next

(* The inductive invariant of the cache: reads that no rollback crossed    *)
(* are of one version, leftovers of rolled back versions are about to be   *)
(* dropped, and undisturbed entries are exact.                             *)
THEOREM CacheInvariant == Spec => []CacheInv
<1>. QED  BY CacheInit, CacheStep, PTL DEF Spec

(* ResolverProjections, cacheResolverProjections, invalidateWorkspaceCaches: *)
(* for any number of readers and writers, any budget and any retention, an   *)
(* entry stored by a read that no rollback crossed holds the projections of  *)
(* the retained version it is filed under.                                   *)
THEOREM UndisturbedReadsStayExact == Spec => []UndisturbedReadsAreExact
<1>1. CacheInv => UndisturbedReadsAreExact
  BY DEF CacheInv
<1>. QED  BY <1>1, CacheInvariant, PTL
-----------------------------------------------------------------------------
(* The byte counter *)

(* Held and Bytes of any map of entries, so that a map can be compared     *)
(* with its successor.                                                     *)
SizeIn(map, k) == Size[map[k].value.facts]
HeldIn(map, keys) == UNION {{k} \X (1 .. SizeIn(map, k)) : k \in keys}
BytesIn(map, keys) == Cardinality(HeldIn(map, keys))

LEMMA BytesAreIn ==
  /\ \A keys : Bytes(keys) = BytesIn(projections, keys)
  /\ Bytes(DOMAIN projections)' = BytesIn(projections', DOMAIN projections')
  BY DEF Bytes, Held, ProjectionBytes, BytesIn, HeldIn, SizeIn

(* Finitely many entries of natural sizes. *)
Measured(map) == DOMAIN map \subseteq Version /\ \A k \in DOMAIN map : SizeIn(map, k) \in Nat

LEMMA EntriesAreMeasured ==
  /\ CacheTypeOK => Measured(projections)
  /\ CacheTypeOK' => Measured(projections')
<1>1. \A value \in Value : Size[value.facts] \in Nat
  BY CacheAssumption DEF Value
<1>. QED  BY <1>1 DEF CacheTypeOK, Measured, SizeIn, Entry

LEMMA UpToSize == \A n \in Nat : IsFiniteSet(1 .. n) /\ Cardinality(1 .. n) = n
<1>1. SUFFICES ASSUME NEW n \in Nat  PROVE IsFiniteSet(1 .. n) /\ Cardinality(1 .. n) = n
  OBVIOUS
<1>2. IsFiniteSet(1 .. n) /\ Cardinality(1 .. n) = IF 1 > n THEN 0 ELSE n - 1 + 1
  BY FS_Interval
<1>. QED  BY <1>2

LEMMA BytesAreFinite ==
  ASSUME NEW map, Measured(map), NEW keys \in SUBSET DOMAIN map
  PROVE  IsFiniteSet(keys) /\ IsFiniteSet(HeldIn(map, keys)) /\ BytesIn(map, keys) \in Nat
<1>1. IsFiniteSet(keys)
  <2>1. IsFiniteSet(Version) /\ keys \subseteq Version
    BY FS_Interval, CacheAssumption DEF Version, Measured
  <2>. QED  BY <2>1, FS_Subset
<1>. DEFINE f == [k \in keys |-> {k} \X (1 .. SizeIn(map, k))]
            T == {f[k] : k \in keys}
<1>2. f \in Surjection(keys, T)
  BY DEF Surjection
<1>. HIDE DEF f
<1>3. IsFiniteSet(T)
  BY <1>1, <1>2, FS_Surjection
<1>4. \A S \in T : IsFiniteSet(S)
  <2>1. SUFFICES ASSUME NEW k \in keys  PROVE IsFiniteSet(f[k])
    OBVIOUS
  <2>2. SizeIn(map, k) \in Nat
    BY DEF Measured
  <2>3. IsFiniteSet({k}) /\ IsFiniteSet(1 .. SizeIn(map, k))
    BY <2>2, FS_Singleton, UpToSize
  <2>4. IsFiniteSet({k} \X (1 .. SizeIn(map, k)))
    BY <2>3, FS_Product
  <2>. QED  BY <2>4 DEF f
<1>5. HeldIn(map, keys) = UNION T
  BY DEF HeldIn, f
<1>6. IsFiniteSet(HeldIn(map, keys))
  <2>. HIDE DEF T
  <2>. QED  BY <1>3, <1>4, <1>5, FS_UNION
<1>. QED  BY <1>1, <1>6, FS_CardinalityType DEF BytesIn

(* The bytes of two sets of entries, and of one entry. *)
LEMMA BytesAdd ==
  ASSUME NEW map, Measured(map), NEW A \in SUBSET DOMAIN map, NEW B \in SUBSET DOMAIN map
  PROVE  BytesIn(map, A \cup B) = BytesIn(map, A) + BytesIn(map, B) - BytesIn(map, A \cap B)
<1>1. IsFiniteSet(HeldIn(map, A)) /\ IsFiniteSet(HeldIn(map, B))
  BY BytesAreFinite
<1>2. HeldIn(map, A \cup B) = HeldIn(map, A) \cup HeldIn(map, B)
  BY DEF HeldIn
<1>3. HeldIn(map, A \cap B) = HeldIn(map, A) \cap HeldIn(map, B)
  BY DEF HeldIn
<1>4. Cardinality(HeldIn(map, A) \cup HeldIn(map, B))
        = Cardinality(HeldIn(map, A)) + Cardinality(HeldIn(map, B))
            - Cardinality(HeldIn(map, A) \cap HeldIn(map, B))
  BY <1>1, FS_Union
<1>. QED  BY <1>2, <1>3, <1>4 DEF BytesIn

LEMMA BytesOfNone == \A map : BytesIn(map, {}) = 0
<1>1. \A map : HeldIn(map, {}) = {}
  BY DEF HeldIn
<1>. QED  BY <1>1, FS_EmptySet DEF BytesIn

LEMMA BytesOfOne ==
  ASSUME NEW map, NEW k, SizeIn(map, k) \in Nat
  PROVE  BytesIn(map, {k}) = SizeIn(map, k)
<1>1. HeldIn(map, {k}) = {k} \X (1 .. SizeIn(map, k))
  BY DEF HeldIn
<1>2. IsFiniteSet({k}) /\ Cardinality({k}) = 1
  BY FS_Singleton
<1>. DEFINE n == SizeIn(map, k)
<1>3. IsFiniteSet(1 .. n) /\ Cardinality(1 .. n) = n
  BY UpToSize
<1>4. Cardinality({k} \X (1 .. n)) = Cardinality({k}) * Cardinality(1 .. n)
  BY <1>2, <1>3, FS_Product
<1>5. Cardinality({k}) * Cardinality(1 .. n) = n
  <2>. HIDE DEF n
  <2>1. n \in Nat
    BY DEF n
  <2>. QED  BY <1>2, <1>3, <2>1
<1>6. BytesIn(map, {k}) = Cardinality({k} \X (1 .. n))
  BY <1>1 DEF BytesIn
<1>. QED  BY <1>4, <1>5, <1>6

LEMMA BytesOfSame ==
  ASSUME NEW map, NEW other, NEW keys, \A k \in keys : map[k].value = other[k].value
  PROVE  BytesIn(map, keys) = BytesIn(other, keys)
<1>1. HeldIn(map, keys) = HeldIn(other, keys)
  BY DEF HeldIn, SizeIn
<1>. QED  BY <1>1 DEF BytesIn

LEMMA LeastOf ==
  ASSUME NEW T, T \subseteq Nat, T # {}
  PROVE  \E x \in T : \A y \in T : x <= y
<1>1. PICK x \in T : \A y \in T : ~(<<y, x>> \in OpToRel(<, Nat))
  BY NatLessThanWellFounded, WFMin
<1>2. \A y \in T : ~(y < x)
  BY <1>1 DEF OpToRel
<1>3. \A y \in T : x <= y
  BY <1>2
<1>. QED  BY <1>3

(* There always is a set of oldest entries to evict: the smallest one that *)
(* is closed under "older" and makes room, or all entries.                 *)
LEMMA EvictionEnds ==
  ASSUME CacheTypeOK, NEW bytes, NEW needed
  PROVE  /\ Evicted(bytes, needed) \subseteq DOMAIN projections
         /\ \/ bytes - Bytes(Evicted(bytes, needed)) + needed <= MaxBytes
            \/ Evicted(bytes, needed) = DOMAIN projections
<1>. DEFINE keys == DOMAIN projections
            fits(K) == bytes - Bytes(K) + needed <= MaxBytes
            closed(K) == \A k \in K : Older(keys, k) \subseteq K
            Right(K) == /\ \A k \in K : Older(keys, k) \subseteq K /\ ~fits(Older(keys, k))
                        /\ fits(K) \/ K = keys
            C == {K \in SUBSET keys : closed(K) /\ fits(K)}
<1>1. ASSUME NEW k \in keys
      PROVE  Older(keys, k) \in SUBSET keys /\ closed(Older(keys, k)) /\ k \notin Older(keys, k)
  <2>1. \A j \in keys : projections[j].order \in Nat
    BY DEF CacheTypeOK, Entry
  <2>. QED  BY <2>1 DEF Older
<1>2. \E K \in SUBSET keys : Right(K)
  <2>1. CASE C = {}
    <3>1. \A k \in keys : ~fits(Older(keys, k))
      <4>. HIDE DEF fits, closed
      <4>. QED  BY <1>1, <2>1
    <3>2. \A k \in keys : Older(keys, k) \subseteq keys
      BY <1>1
    <3>. HIDE DEF fits
    <3>. QED  BY <3>1, <3>2
  <2>2. CASE C # {}
    <3>. DEFINE T == {Cardinality(K) : K \in C}
    <3>1. \A K \in SUBSET keys : IsFiniteSet(K) /\ Cardinality(K) \in Nat
      BY EntriesAreMeasured, BytesAreFinite, FS_CardinalityType
    <3>2. T \subseteq Nat /\ T # {}
      <4>. HIDE DEF fits, closed
      <4>. QED  BY <2>2, <3>1
    <3>. HIDE DEF fits, closed
    <3>3. PICK K \in C : \A L \in C : Cardinality(K) <= Cardinality(L)
      <4>1. PICK x \in T : \A y \in T : x <= y
        BY <3>2, LeastOf
      <4>. QED  BY <4>1
    <3>4. ASSUME NEW k \in K  PROVE Older(keys, k) \subseteq K /\ ~fits(Older(keys, k))
      <4>1. Older(keys, k) \subseteq K
        BY <3>3 DEF closed
      <4>2. Older(keys, k) # K /\ closed(Older(keys, k)) /\ Older(keys, k) \in SUBSET keys
        BY <1>1, <3>3, <3>4
      <4>3. Cardinality(Older(keys, k)) < Cardinality(K)
        BY <3>1, <3>3, <4>1, <4>2, FS_Subset
      <4>4. Older(keys, k) \notin C
        BY <3>1, <3>3, <4>2, <4>3
      <4>. QED  BY <4>1, <4>2, <4>4
    <3>. QED  BY <3>3, <3>4
  <2>. QED  BY <2>1, <2>2
<1>3. Evicted(bytes, needed) = CHOOSE K \in SUBSET keys : Right(K)
  BY DEF Evicted
<1>. HIDE DEF Right
<1>4. Evicted(bytes, needed) \in SUBSET keys /\ Right(Evicted(bytes, needed))
  BY <1>2, <1>3
<1>. QED  BY <1>4 DEF Right

LEMMA HeldBytes ==
  /\ CacheInv => Bytes(DOMAIN projections) \in Nat
  /\ CacheInv' => Bytes(DOMAIN projections)' \in Nat
  BY BytesAreIn, EntriesAreMeasured, BytesAreFinite DEF CacheInv

(* What an insertion does to the counter and to the bytes held. *)
LEMMA InsertionCounts ==
  ASSUME CacheInv, CounterInv, NEW r \in Reader, CacheResolverProjections(r)
  PROVE  /\ CounterInv'
         /\ \/ Drift' = Drift
            \/ /\ Cached(reader[r].version)
               /\ Drift' = Drift + Bytes({reader[r].version})
<1>. DEFINE v == reader[r].version
            needed == ProjectionBytes(ValueOf(r))
            old == {v} \cap DOMAIN projections
            bytes == projectionBytes - Bytes(old)
            evicted == Evicted(bytes, needed)
            kept == DOMAIN projections \ (evicted \cup {v})
<1>1. needed \in Nat /\ MaxBytes \in Nat
  BY ValueTyped, CacheAssumption DEF CacheInv, ProjectionBytes, Value
<1>2. CASE needed > MaxBytes
  <2>1. UNCHANGED <<projections, projectionBytes>>
    BY <1>2 DEF CacheResolverProjections
  <2>2. Bytes(DOMAIN projections)' = Bytes(DOMAIN projections)
    BY <2>1 DEF Bytes, Held, ProjectionBytes
  <2>. QED  BY <2>1, <2>2 DEF CounterInv, Drift
<1>3. CASE ~(needed > MaxBytes)
  <2>1. /\ DOMAIN projections' = kept \cup {v}
        /\ projectionBytes' = bytes + needed - Bytes(evicted)
    BY <1>3 DEF CacheResolverProjections
  <2>2. /\ projections'[v].value = ValueOf(r)
        /\ \A k \in kept : projections'[k].value = projections[k].value
    <3>1. ProjectionBytes(ValueOf(r)) <= MaxBytes
      BY <1>1, <1>3
    <3>. QED  BY <2>1, <3>1, InsertionKeepsTheRest
  <2>3. /\ Measured(projections) /\ Measured(projections')
        /\ evicted \subseteq DOMAIN projections
        /\ bytes - Bytes(evicted) + needed <= MaxBytes \/ evicted = DOMAIN projections
    BY EntriesAreMeasured, EvictionEnds, CacheResolverProjectionsKeeps DEF CacheInv
  <2>. DEFINE B(keys) == BytesIn(projections, keys)
              D == DOMAIN projections
  <2>4. /\ \A keys \in SUBSET D : B(keys) \in Nat
        /\ B(old) = Bytes(old) /\ B(evicted) = Bytes(evicted) /\ B(D) = Bytes(D)
        /\ Bytes(D)' = BytesIn(projections', kept \cup {v})
    BY <2>1, <2>3, BytesAreIn, BytesAreFinite
  <2>5. Bytes(D)' = B(kept) + needed
    <3>1. SizeIn(projections', v) = needed
      BY <2>2 DEF SizeIn, ProjectionBytes
    <3>2. BytesIn(projections', {v}) = needed
      BY <1>1, <3>1, BytesOfOne
    <3>3. BytesIn(projections', kept) = B(kept)
      <4>1. \A k \in kept : projections'[k].value = projections[k].value
        BY <2>2
      <4>. HIDE DEF kept, v
      <4>. QED  BY <4>1, BytesOfSame
    <3>4. kept \cap {v} = {}
      OBVIOUS
    <3>5. BytesIn(projections', kept \cup {v})
            = BytesIn(projections', kept) + BytesIn(projections', {v}) - BytesIn(projections', kept \cap {v})
      <4>. HIDE DEF kept, v
      <4>1. kept \in SUBSET DOMAIN projections' /\ {v} \in SUBSET DOMAIN projections'
        BY <2>1
      <4>2. Measured(projections')
        BY <2>3
      <4>. QED  BY <4>1, <4>2, BytesAdd
    <3>6. BytesIn(projections', kept \cap {v}) = 0
      BY <3>4, BytesOfNone
    <3>7. B(kept) \in Nat /\ Bytes(D)' = BytesIn(projections', kept \cup {v})
      BY <2>4
    <3>. HIDE DEF kept, needed, v, B, D
    <3>. QED  BY <1>1, <3>2, <3>3, <3>5, <3>6, <3>7
  <2>6. B(D) = B(kept) + B(evicted \cup old)
    <3>1. D = kept \cup (evicted \cup old) /\ kept \cap (evicted \cup old) = {}
      BY <2>3
    <3>2. kept \in SUBSET D /\ evicted \cup old \in SUBSET D
      BY <2>3
    <3>. HIDE DEF kept, evicted, old, D
    <3>3. B(kept \cup (evicted \cup old))
            = B(kept) + B(evicted \cup old) - B(kept \cap (evicted \cup old))
      BY <2>3, <3>2, BytesAdd DEF D
    <3>4. B(kept) \in Nat /\ B(evicted \cup old) \in Nat
      BY <2>4, <3>2
    <3>. HIDE DEF B
    <3>5. B({}) = 0
      BY BytesOfNone DEF B
    <3>6. B(D) = B(kept) + B(evicted \cup old) - 0
      BY <3>1, <3>3, <3>5
    <3>. QED  BY <3>4, <3>6
  <2>7. B(evicted \cup old) = B(evicted) + B(old) - B(evicted \cap old)
    <3>1. old \in SUBSET D /\ evicted \in SUBSET D
      BY <2>3
    <3>. HIDE DEF evicted, old
    <3>. QED  BY <2>3, <3>1, BytesAdd
  <2>8. /\ B(D) \in Nat /\ B(kept) \in Nat /\ B(evicted) \in Nat /\ B(old) \in Nat
        /\ B(evicted \cap old) \in Nat /\ B(evicted \cup old) \in Nat
    BY <2>3, <2>4
  <2>9. projectionBytes \in Int /\ projectionBytes <= B(D)
    BY <2>4 DEF CounterInv
  <2>10. bytes = projectionBytes - B(old) /\ projectionBytes' = bytes + needed - B(evicted)
    BY <2>1, <2>4
  <2>11. \/ B(evicted \cap old) = 0
         \/ Cached(v) /\ B(evicted \cap old) = Bytes({v})
    <3>1. CASE evicted \cap old = {}
      BY <3>1, BytesOfNone
    <3>2. CASE evicted \cap old # {}
      <4>1. evicted \cap old = {v} /\ Cached(v)
        BY <3>2 DEF Cached
      <4>. QED  BY <4>1, BytesAreIn
    <3>. QED  BY <3>1, <3>2
  <2>12. bytes - B(evicted) + needed <= MaxBytes \/ B(evicted) = B(D)
    BY <2>3, <2>4
  <2>. HIDE DEF B, D, bytes, needed, kept, evicted, old, v
  <2>13. projectionBytes' \in Int /\ projectionBytes' <= Bytes(DOMAIN projections)'
    BY <1>1, <2>5, <2>6, <2>7, <2>8, <2>9, <2>10 DEF D
  <2>14. projectionBytes' <= MaxBytes
    BY <1>1, <1>3, <2>8, <2>9, <2>10, <2>12
  <2>15. Bytes(DOMAIN projections)' - projectionBytes' = B(D) - projectionBytes + B(evicted \cap old)
    BY <1>1, <2>5, <2>6, <2>7, <2>8, <2>9, <2>10, <2>13 DEF D
  <2>16. B(D) = Bytes(DOMAIN projections) /\ v = reader[r].version
    BY <2>4 DEF D, v
  <2>17. B(D) - projectionBytes + 0 = B(D) - projectionBytes
    BY <2>8, <2>9
  <2>. QED  BY <2>11, <2>13, <2>14, <2>15, <2>16, <2>17 DEF CounterInv, Drift
<1>. QED  BY <1>2, <1>3

(* An invalidation takes from counter and map alike. *)
LEMMA InvalidationCounts ==
  ASSUME CacheInv, CounterInv, NEW w \in Writer, InvalidateWorkspaceCaches(w)
  PROVE  /\ CounterInv'
         /\ Drift' = Drift
<1>. DEFINE D == DOMAIN projections
            gone == D \cap writer[w].drop
            rest == D \ writer[w].drop
<1>1. /\ projectionBytes' = projectionBytes - Bytes(gone)
      /\ DOMAIN projections' = rest
      /\ \A k \in rest : projections'[k].value = projections[k].value
  BY DEF InvalidateWorkspaceCaches, Drop
<1>2. Measured(projections)
  BY EntriesAreMeasured DEF CacheInv
<1>3. BytesIn(projections, rest \cup gone)
        = BytesIn(projections, rest) + BytesIn(projections, gone) - BytesIn(projections, rest \cap gone)
  BY <1>2, BytesAdd
<1>4. rest \cup gone = D /\ rest \cap gone = {}
  OBVIOUS
<1>5. Bytes(D)' = BytesIn(projections, rest)
  BY <1>1, BytesAreIn, BytesOfSame
<1>6. /\ Bytes(gone) = BytesIn(projections, gone) /\ Bytes(D) = BytesIn(projections, D)
      /\ BytesIn(projections, gone) \in Nat /\ BytesIn(projections, rest) \in Nat
      /\ BytesIn(projections, D) \in Nat
  BY <1>2, BytesAreIn, BytesAreFinite
<1>7. projectionBytes \in Int /\ projectionBytes <= Bytes(D) /\ projectionBytes <= MaxBytes
      /\ MaxBytes \in Nat
  BY CacheAssumption DEF CounterInv
<1>. HIDE DEF gone, rest
<1>8. Bytes(D) = Bytes(D)' + Bytes(gone)
  <2>1. BytesIn(projections, rest \cap gone) = 0
    BY <1>4, BytesOfNone
  <2>. QED  BY <1>3, <1>4, <1>5, <1>6, <2>1
<1>. HIDE DEF D
<1>9. /\ projectionBytes' \in Int /\ projectionBytes' <= Bytes(D)' /\ projectionBytes' <= MaxBytes
      /\ Bytes(D)' - projectionBytes' = Bytes(D) - projectionBytes
  BY <1>1, <1>5, <1>6, <1>7, <1>8
<1>. QED  BY <1>9 DEF CounterInv, Drift, D

(* The steps that touch neither the counter nor the map. *)
LEMMA OtherStepsCount ==
  ASSUME UNCHANGED <<projections, projectionBytes>>
  PROVE  /\ CounterInv => CounterInv'
         /\ Drift' = Drift
  BY DEF CounterInv, Drift, Bytes, Held, ProjectionBytes

LEMMA NextCounts ==
  ASSUME CacheInv, CounterInv, [Next]_vars
  PROVE  /\ CounterInv'
         /\ \/ Drift' = Drift
            \/ \E r \in Reader : /\ CacheResolverProjections(r) /\ Cached(reader[r].version)
                                /\ Drift' = Drift + Bytes({reader[r].version})
<1>1. ASSUME NEW r \in Reader,
             OpenSnapshot(r) \/ CachedResolverProjections(r) \/ ReadSources(r) \/ ReadFacts(r)
      PROVE  UNCHANGED <<projections, projectionBytes>>
  BY <1>1 DEF OpenSnapshot, CachedResolverProjections, ReadSources, ReadFacts
<1>2. ASSUME NEW w \in Writer, Publish(w) \/ Rollback(w) \/ Prune(w)
      PROVE  UNCHANGED <<projections, projectionBytes>>
  BY <1>2 DEF Publish, Rollback, Prune, Commits
<1>3. CASE UNCHANGED vars
  BY <1>3, OtherStepsCount DEF vars
<1>. QED  BY <1>1, <1>2, <1>3, InsertionCounts, InvalidationCounts, OtherStepsCount DEF Next

(* cacheResolverProjections, invalidateWorkspaceCaches: whatever readers   *)
(* and writers do, two readers of one version included, the counter stays  *)
(* within the budget and never says more than there is.                    *)
THEOREM CounterNeverAhead == Spec => []CounterInv
<1>1. Init => CounterInv
  <2>1. Init => DOMAIN projections = {} /\ projectionBytes = 0
    BY DEF Init
  <2>2. Bytes({}) = 0
    BY BytesAreIn, BytesOfNone
  <2>. QED  BY <2>1, <2>2, CacheAssumption DEF CounterInv
<1>2. CacheInv /\ CounterInv /\ [Next]_vars => CounterInv'
  BY NextCounts
<1>. QED  BY <1>1, <1>2, CacheInvariant, PTL DEF Spec

(* cacheResolverProjections: for any number of readers and writers, only a *)
(* read that stores a version another read has stored in the meantime lets *)
(* the counter fall behind, by the bytes of one entry.                     *)
THEOREM OnlyMeetingReadsDrift == Spec => DriftNeedsMeetingReads
<1>1. CacheInv /\ CounterInv /\ [Next]_vars =>
        \/ Drift' = Drift
        \/ \E r \in Reader :
             LET v == reader[r].version IN
             /\ CacheResolverProjections(r) /\ Cached(v)
             /\ Drift' = Drift + Bytes({v})
  BY NextCounts
<1>. QED  BY <1>1, CacheInvariant, CounterNeverAhead, PTL DEF Spec, DriftNeedsMeetingReads

(* A version that is being read and was not in the cache does not get      *)
(* there but through another read of it.                                   *)
LEMMA MissesKept ==
  ASSUME CacheInv, MissesStayMissed, ReadsAreDistinct, [Next]_vars
  PROVE  MissesStayMissed'
<1>0. reader \in [Reader -> ReaderState]
  BY DEF CacheInv, CacheTypeOK
<1>. SUFFICES ASSUME NEW s \in Reader, reader'[s].at \in {"reading", "read"}
              PROVE  reader'[s].version \notin DOMAIN projections'
  BY DEF MissesStayMissed, Cached
<1>1. ASSUME NEW r \in Reader, OpenSnapshot(r)
      PROVE  reader'[s].version \notin DOMAIN projections'
  <2>1. r # s /\ reader'[s] = reader[s] /\ projections' = projections
    <3>1. PICK v : reader' = [reader EXCEPT ![r] = [Idle EXCEPT !.at = "listing", !.version = v]]
      BY <1>1 DEF OpenSnapshot
    <3>2. [Idle EXCEPT !.at = "listing", !.version = v].at = "listing"
      BY DEF Idle
    <3>. QED  BY <1>0, <1>1, <3>1, <3>2 DEF OpenSnapshot
  <2>. QED  BY <2>1 DEF MissesStayMissed, Cached
<1>2. ASSUME NEW r \in Reader, CachedResolverProjections(r)
      PROVE  reader'[s].version \notin DOMAIN projections'
  <2>1. r # s /\ reader'[s] = reader[s] /\ projections' = projections
    BY <1>0, <1>2, IdleTyped DEF CachedResolverProjections
  <2>. QED  BY <2>1 DEF MissesStayMissed, Cached
<1>3. ASSUME NEW r \in Reader, ReadSources(r)
      PROVE  reader'[s].version \notin DOMAIN projections'
  BY <1>0, <1>3 DEF ReadSources, MissesStayMissed, Cached, ReaderState
<1>4. ASSUME NEW r \in Reader, ReadFacts(r)
      PROVE  reader'[s].version \notin DOMAIN projections'
  <2>1. projections' = projections /\ reader[r].at = "reading"
    BY <1>4 DEF ReadFacts
  <2>2. \/ reader'[s] = Idle
        \/ reader'[s].version = reader[s].version /\ reader[s].at \in {"reading", "read"}
    <3>1. reader[r] \in ReaderState
      BY <1>0
    <3>2. PICK f : reader' = [reader EXCEPT ![r] = IF reader[r].sources # Nothing /\ Shown(reader[r].version) = Nothing
                                    THEN Idle ELSE [reader[r] EXCEPT !.at = "read", !.facts = f]]
      BY <1>0, <1>4 DEF ReadFacts
    <3>. HIDE DEF ReadFacts
    <3>. QED  BY <1>0, <2>1, <3>1, <3>2 DEF ReaderState
  <2>. QED  BY <2>1, <2>2, IdleTyped DEF MissesStayMissed, Cached
<1>5. ASSUME NEW r \in Reader, CacheResolverProjections(r)
      PROVE  reader'[s].version \notin DOMAIN projections'
  <2>1. r # s /\ reader'[s] = reader[s] /\ reader[r].at = "read"
    BY <1>0, <1>5, IdleTyped DEF CacheResolverProjections
  <2>2. reader[s].version \notin DOMAIN projections /\ reader[s].version # reader[r].version
    BY <2>1 DEF MissesStayMissed, Cached, ReadsAreDistinct
  <2>3. DOMAIN projections' \subseteq DOMAIN projections \cup {reader[r].version}
    <3>1. CASE ProjectionBytes(ValueOf(r)) <= MaxBytes
      BY <1>5, <3>1, InsertionKeepsTheRest
    <3>2. CASE ~(ProjectionBytes(ValueOf(r)) <= MaxBytes)
      <4>1. ProjectionBytes(ValueOf(r)) \in Nat
        BY ValueTyped, CacheAssumption DEF CacheInv, ProjectionBytes, Value
      <4>2. ProjectionBytes(ValueOf(r)) > MaxBytes
        BY <3>2, <4>1, CacheAssumption
      <4>. QED  BY <1>5, <4>2 DEF CacheResolverProjections
    <3>. QED  BY <3>1, <3>2
  <2>. QED  BY <2>1, <2>2, <2>3
<1>6. ASSUME NEW w \in Writer, Publish(w) \/ Prune(w)
      PROVE  reader'[s].version \notin DOMAIN projections'
  <2>1. projections' = projections /\ reader' = reader
    BY <1>6 DEF Publish, Prune, Commits
  <2>. QED  BY <2>1 DEF MissesStayMissed, Cached
<1>7. ASSUME NEW w \in Writer, Rollback(w)
      PROVE  reader'[s].version \notin DOMAIN projections'
  <2>1. projections' = projections
    BY <1>7 DEF Rollback, Commits
  <2>2. \/ reader'[s] = Idle
        \/ reader'[s].version = reader[s].version /\ reader'[s].at = reader[s].at
    BY <1>0, <1>7 DEF Rollback, ReaderState
  <2>. QED  BY <2>1, <2>2, IdleTyped DEF MissesStayMissed, Cached
<1>8. ASSUME NEW w \in Writer, InvalidateWorkspaceCaches(w)
      PROVE  reader'[s].version \notin DOMAIN projections'
  <2>1. DOMAIN projections' \subseteq DOMAIN projections /\ reader' = reader
    BY <1>8 DEF InvalidateWorkspaceCaches, Drop
  <2>. QED  BY <2>1 DEF MissesStayMissed, Cached
<1>9. CASE UNCHANGED vars
  BY <1>9 DEF vars, MissesStayMissed, Cached
<1>. QED  BY <1>1, <1>2, <1>3, <1>4, <1>5, <1>6, <1>7, <1>8, <1>9 DEF Next

(* The counter is exact, and the entries stay within maxProjectionBytes,   *)
(* in every run in which no two reads of the same version are under way at *)
(* once.                                                                   *)
THEOREM BudgetAlwaysHolds == Spec /\ []ReadsAreDistinct => []BudgetHolds
<1>. DEFINE Counted == projectionBytes = Bytes(DOMAIN projections) /\ MissesStayMissed
<1>1. Init => Counted
  <2>1. Init => DOMAIN projections = {} /\ projectionBytes = 0
    BY DEF Init
  <2>2. Bytes({}) = 0
    BY BytesAreIn, BytesOfNone
  <2>3. Init => MissesStayMissed
    BY IdleTyped DEF Init, MissesStayMissed
  <2>. QED  BY <2>1, <2>2, <2>3
<1>2. ASSUME CacheInv, CounterInv, ReadsAreDistinct, Counted, [Next]_vars
      PROVE  Counted'
  <2>1. \A r \in Reader : CacheResolverProjections(r) => ~Cached(reader[r].version)
    BY <1>2 DEF CacheResolverProjections, MissesStayMissed
  <2>2. Drift' = Drift
    BY <1>2, <2>1, NextCounts
  <2>3. CacheInv' /\ CounterInv'
    BY <1>2, CacheStep, NextCounts
  <2>4. Bytes(DOMAIN projections)' \in Nat /\ projectionBytes' \in Int /\ Drift = 0
    BY <1>2, <2>3, HeldBytes DEF CounterInv, Drift
  <2>5. projectionBytes' = Bytes(DOMAIN projections)'
    BY <2>2, <2>4 DEF Drift
  <2>. QED  BY <1>2, <2>5, MissesKept
<1>3. CacheInv /\ CounterInv /\ Counted => BudgetHolds
  BY DEF CacheInv, CounterInv, BudgetHolds, TypeOK
<1>. HIDE DEF Counted
<1>. QED  BY <1>1, <1>2, <1>3, CacheInvariant, CounterNeverAhead, PTL DEF Spec
=============================================================================
