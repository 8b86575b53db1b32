----------------------- MODULE IncrementalIndexProofs -----------------------
(***************************************************************************)
(* Proofs about IncrementalIndex: no edit is lost, and recorded            *)
(* dependencies are honoured, for any files, edits and versions.           *)
(***************************************************************************)
EXTENDS IncrementalIndex, TLAPS

(* A deletion is no file. *)
LEMMA DeletedIsNoFile == Deleted \notin File
<1>1. DOMAIN Deleted = {"imports", "exports", "deleted"}
  BY DEF Deleted
<1>2. \A f \in [imports : SUBSET Supported, exports : SUBSET Surface] :
        DOMAIN f = {"imports", "exports"}
  OBVIOUS
<1>3. "deleted" \notin {"imports", "exports"}
  OBVIOUS
<1>. QED  BY <1>1, <1>2, <1>3, IncrementalAssumption

(* What a set of contents read so far is. *)
LEMMA ReadsAre ==
  \A read : read \in Reads <=>
    /\ read \in [DOMAIN read -> File \cup {Deleted}]
    /\ DOMAIN read \subseteq Supported
  BY DEF Reads

LEMMA FilesAre ==
  \A f \in File \cup {Deleted} : f.imports \subseteq Supported /\ f.exports \subseteq Surface
<1>1. \A f \in File : f.imports \subseteq Supported /\ f.exports \subseteq Surface
  BY IncrementalAssumption
<1>2. Deleted.imports = {} /\ Deleted.exports = {}
  BY DEF Deleted
<1>. QED  BY <1>1, <1>2

(* A target of resolution is a file or nothing. *)
LEMMA TargetIsFile ==
  ASSUME NEW snapshot \in Graph, NEW update \in Reads, NEW q \in Supported
  PROVE  ResolverTarget(snapshot, update, q) \in File \cup {Absent}
<1>1. snapshot.contributions[q] \in File \cup {Deleted, Absent}
  BY IncrementalAssumption DEF Graph, Stored
<1>2. q \in DOMAIN update => update[q] \in File \cup {Deleted}
  BY ReadsAre
<1>. QED  BY <1>1, <1>2 DEF ResolverTarget, StoredTarget

(* The edges of a page are well formed; those that lead to a file of the   *)
(* update lead to the file and to each surface it has in the update.       *)
LEMMA PageIs ==
  ASSUME NEW snapshot \in Graph, NEW update \in Reads, NEW p \in DOMAIN update
  PROVE  LET edges == ResolvePage(snapshot, update, p) IN
         /\ edges \subseteq Target
         /\ \A q \in {e.path : e \in edges} : q \in DOMAIN update /\ update[q] # Deleted =>
              {e.surface : e \in {f \in edges : f.path = q}} = update[q].exports \cup {FileItself}
<1>. DEFINE edges == ResolvePage(snapshot, update, p)
            target(q) == ResolverTarget(snapshot, update, q)
            To(q) == IF target(q) = Absent THEN {}
                     ELSE {[path |-> q, surface |-> s] : s \in target(q).exports \cup {FileItself}}
<1>1. update[p].imports \subseteq Supported
  BY ReadsAre, FilesAre
<1>2. edges = UNION {To(q) : q \in update[p].imports}
  BY DEF ResolvePage
<1>. HIDE DEF edges
<1>3. \A q \in Supported : target(q) \in File \cup {Absent}
  BY TargetIsFile
<1>. HIDE DEF target
<1>4. \A q \in Supported : \A e \in To(q) :
        e \in Target /\ e.path = q
  <2>. TAKE q \in Supported
  <2>. TAKE e \in To(q)
  <2>1. target(q) \in File
    BY <1>3
  <2>2. PICK s \in target(q).exports \cup {FileItself} : e = [path |-> q, surface |-> s]
    BY <2>1, IncrementalAssumption
  <2>3. s \in Surface \cup {FileItself}
    BY <2>1, FilesAre
  <2>. QED  BY <2>2, <2>3 DEF Target
<1>5. edges \subseteq Target
  BY <1>1, <1>2, <1>4
<1>6. ASSUME NEW q \in {e.path : e \in edges}, q \in DOMAIN update, update[q] # Deleted
      PROVE  {e.surface : e \in {f \in edges : f.path = q}} = update[q].exports \cup {FileItself}
  <2>1. q \in update[p].imports
    BY <1>1, <1>2, <1>4
  <2>2. target(q) = update[q] /\ target(q) # Absent
    <3>1. target(q) = update[q]
      BY <1>6 DEF target, ResolverTarget
    <3>2. update[q] \in File
      BY <1>6, ReadsAre
    <3>. QED  BY <3>1, <3>2, IncrementalAssumption
  <2>3. {f \in edges : f.path = q} = To(q)
    <3>1. \A f \in edges : f.path = q => f \in To(q)
      BY <1>1, <1>2, <1>4
    <3>2. \A f \in To(q) : f \in edges /\ f.path = q
      BY <1>1, <1>2, <1>4, <2>1
    <3>. QED  BY <3>1, <3>2
  <2>4. To(q) = {[path |-> q, surface |-> s] : s \in update[q].exports \cup {FileItself}}
    BY <2>2
  <2>5. \A s : [path |-> q, surface |-> s].surface = s
    OBVIOUS
  <2>. HIDE DEF To
  <2>6. \A s \in update[q].exports \cup {FileItself} : \E e \in To(q) : e.surface = s
    BY <2>4, <2>5
  <2>7. \A e \in To(q) : e.surface \in update[q].exports \cup {FileItself}
    BY <2>4, <2>5
  <2>8. {e.surface : e \in To(q)} = update[q].exports \cup {FileItself}
    BY <2>6, <2>7
  <2>. QED  BY <2>3, <2>8
<1>. QED  BY <1>5, <1>6 DEF edges

(* What an update publishes is a graph, and no file depends on itself.     *)
LEMMA UpdatedGraphIs ==
  ASSUME IncrementalInv, NEW snapshot \in Graph, NEW update \in Reads
  PROVE  LET new == UpdatedGraph(snapshot, update)
             resolved == ResolvedSources(update)
             edges(p) == IF p \in resolved THEN ResolvePage(snapshot, update, p) ELSE {}
         IN
         /\ new \in Graph
         /\ \A p \in Path : p \notin new.dependencies[p]
         /\ \A p \in Path : p \notin DOMAIN update =>
              /\ new.contributions[p] = graph.contributions[p]
              /\ new.dependencies[p] = graph.dependencies[p]
              /\ new.edges[p] = graph.edges[p]
         /\ \A p \in DOMAIN update :
              /\ new.contributions[p] = update[p]
              /\ new.edges[p] = edges(p)
              /\ new.dependencies[p] = ({e.path : e \in edges(p)} \cap resolved) \ {p}
<1>. DEFINE new == UpdatedGraph(snapshot, update)
            resolved == ResolvedSources(update)
            edges(p) == IF p \in resolved THEN ResolvePage(snapshot, update, p) ELSE {}
<1>1. /\ new.contributions = [p \in Path |-> IF p \in DOMAIN update THEN update[p]
                                             ELSE graph.contributions[p]]
      /\ new.dependencies = [p \in Path |->
                               IF p \in DOMAIN update
                               THEN ({e.path : e \in edges(p)} \cap resolved) \ {p}
                               ELSE graph.dependencies[p]]
      /\ new.edges = [p \in Path |-> IF p \in DOMAIN update THEN edges(p) ELSE graph.edges[p]]
      /\ new = [contributions |-> new.contributions, dependencies |-> new.dependencies,
                edges |-> new.edges]
  BY DEF UpdatedGraph, WithResolvedDependencies
<1>2. resolved \subseteq DOMAIN update /\ DOMAIN update \subseteq Supported /\ Supported \subseteq Path
  BY ReadsAre, IncrementalAssumption DEF ResolvedSources
<1>3. \A p \in DOMAIN update : edges(p) \subseteq Target
  BY PageIs, <1>2
<1>. HIDE DEF new, resolved, edges
<1>4. /\ graph.contributions \in [Path -> Stored]
      /\ graph.dependencies \in [Path -> SUBSET Supported]
      /\ graph.edges \in [Path -> SUBSET Target]
      /\ \A p \in Path : p \notin graph.dependencies[p]
  BY DEF IncrementalInv, TypeOK, Graph
<1>5. \A p \in DOMAIN update : update[p] \in Stored
  BY ReadsAre DEF Stored
<1>6. new.contributions \in [Path -> Stored]
  BY <1>1, <1>4, <1>5
<1>7. new.dependencies \in [Path -> SUBSET Supported]
  BY <1>1, <1>2, <1>4
<1>8. new.edges \in [Path -> SUBSET Target]
  BY <1>1, <1>3, <1>4
<1>9. new \in Graph
  BY <1>1, <1>6, <1>7, <1>8 DEF Graph
<1>10. \A p \in Path : p \notin new.dependencies[p]
  BY <1>1, <1>4
<1>11. \A p \in Path : p \notin DOMAIN update =>
              /\ new.contributions[p] = graph.contributions[p]
              /\ new.dependencies[p] = graph.dependencies[p]
              /\ new.edges[p] = graph.edges[p]
  BY <1>1
<1>12. \A p \in DOMAIN update :
              /\ new.contributions[p] = update[p]
              /\ new.edges[p] = edges(p)
              /\ new.dependencies[p] = ({e.path : e \in edges(p)} \cap resolved) \ {p}
  BY <1>1, <1>2
<1>. QED  BY <1>9, <1>10, <1>11, <1>12 DEF new, resolved, edges

LEMMA EmptyGraphTyped == EmptyGraph \in Graph
<1>1. /\ EmptyGraph.contributions \in [Path -> Stored]
      /\ EmptyGraph.dependencies \in [Path -> SUBSET Supported]
      /\ EmptyGraph.edges \in [Path -> SUBSET Target]
  BY DEF EmptyGraph, Stored
<1>. QED  BY <1>1 DEF EmptyGraph, Graph

(* So is what a full index publishes; every edge of it leads to a file     *)
(* that the index has read.                                                *)
LEMMA FreshGraphIs ==
  ASSUME NEW read \in Reads, \A p \in DOMAIN read : read[p] \in File
  PROVE  LET new == FreshGraph(read)
             edges(p) == ResolvePage(EmptyGraph, read, p)
         IN
         /\ new \in Graph
         /\ \A p \in Path : p \notin new.dependencies[p]
         /\ \A p \in Path : p \notin DOMAIN read =>
              /\ new.contributions[p] = Absent
              /\ new.dependencies[p] = {}
         /\ \A p \in DOMAIN read :
              /\ new.contributions[p] = read[p]
              /\ new.edges[p] = edges(p)
              /\ new.dependencies[p] \subseteq {e.path : e \in edges(p)} \cap DOMAIN read
<1>. DEFINE new == FreshGraph(read)
            edges(p) == ResolvePage(EmptyGraph, read, p)
<1>1. /\ new.contributions = [p \in Path |-> IF p \in DOMAIN read THEN read[p] ELSE Absent]
      /\ new.dependencies = [p \in Path |->
                               IF p \in DOMAIN read
                               THEN ({e.path : e \in edges(p)} \cap Supported) \ {p}
                               ELSE {}]
      /\ new.edges = [p \in Path |-> IF p \in DOMAIN read THEN edges(p) ELSE {}]
      /\ new = [contributions |-> new.contributions, dependencies |-> new.dependencies,
                edges |-> new.edges]
  BY DEF FreshGraph, WithResolvedDependencies
<1>2. DOMAIN read \subseteq Supported /\ Supported \subseteq Path
  BY ReadsAre, IncrementalAssumption
<1>3. \A p \in DOMAIN read : edges(p) \subseteq Target
  BY PageIs, EmptyGraphTyped
<1>4. ASSUME NEW p \in DOMAIN read, NEW e \in edges(p)
      PROVE  e.path \in DOMAIN read
  <2>1. read[p].imports \subseteq Supported
    BY ReadsAre, FilesAre
  <2>2. PICK q \in read[p].imports :
          LET target == ResolverTarget(EmptyGraph, read, q) IN
          target # Absent /\ e \in {[path |-> q, surface |-> s] : s \in target.exports \cup {FileItself}}
    BY <1>4 DEF ResolvePage
  <2>3. q \in DOMAIN read
    <3>1. EmptyGraph.contributions[q] = Absent
      BY <2>1, <1>2 DEF EmptyGraph
    <3>. QED  BY <2>2, <3>1, IncrementalAssumption DEF ResolverTarget, StoredTarget
  <2>4. e.path = q
    BY <2>2
  <2>. QED  BY <2>3, <2>4
<1>. HIDE DEF new, edges
<1>5. \A p \in DOMAIN read : read[p] \in Stored
  BY ReadsAre DEF Stored
<1>6. new.contributions \in [Path -> Stored]
  BY <1>1, <1>5 DEF Stored
<1>7. new.dependencies \in [Path -> SUBSET Supported]
  BY <1>1
<1>8. new.edges \in [Path -> SUBSET Target]
  BY <1>1, <1>3
<1>9. new \in Graph
  BY <1>1, <1>6, <1>7, <1>8 DEF Graph
<1>10. \A p \in Path : p \notin new.dependencies[p]
  BY <1>1
<1>11. \A p \in Path : p \notin DOMAIN read =>
              new.contributions[p] = Absent /\ new.dependencies[p] = {}
  BY <1>1
<1>12. \A p \in DOMAIN read :
              /\ new.contributions[p] = read[p]
              /\ new.edges[p] = edges(p)
              /\ new.dependencies[p] \subseteq {e.path : e \in edges(p)} \cap DOMAIN read
  BY <1>1, <1>2, <1>4
<1>. QED  BY <1>9, <1>10, <1>11, <1>12 DEF new, edges
-----------------------------------------------------------------------------
(* A batch or an index that is not there. *)
LEMMA NobodyTyped ==
  /\ NothingRead \in Reads /\ DOMAIN NothingRead = {}
  /\ NoBatch \in Batch
  /\ NoBatch.at = "idle" /\ NoBatch.changed = {}
  /\ NoIndex \in [caller : {"none", "command", "batch"}, read : Reads]
  /\ NoIndex.caller = "none" /\ NoIndex.read = NothingRead
<1>1. NothingRead \in Reads /\ DOMAIN NothingRead = {}
  BY ReadsAre DEF NothingRead
<1>2. 0 \in 0 .. MaxVersion
  BY IncrementalAssumption
<1>. QED  BY <1>1, <1>2, EmptyGraphTyped DEF NoBatch, NoIndex, Batch

LEMMA IncrementalInit == Init => IncrementalInv
<1>. SUFFICES ASSUME Init PROVE IncrementalInv
  OBVIOUS
<1>. USE DEF Init
<1>1. TypeOK
  <2>1. \A p \in Path : p \notin EmptyGraph.dependencies[p]
    BY DEF EmptyGraph
  <2>2. \A p \in DOMAIN NoIndex.read : NoIndex.read[p] \in File
    BY NobodyTyped
  <2>3. 0 \in 0 .. MaxVersion /\ 0 \in 0 .. MaxEdits
    BY IncrementalAssumption
  <2>. QED  BY <2>1, <2>2, <2>3, NobodyTyped, EmptyGraphTyped DEF TypeOK
<1>2. DependenciesAreStored
  BY DEF DependenciesAreStored, EmptyGraph
<1>3. QuietPathsAreCurrent
  BY DEF QuietPathsAreCurrent
<1>4. RecordedDependenciesAreFresh
  <2>1. \A p \in Supported : graph.dependencies[p] = {}
    BY IncrementalAssumption DEF EmptyGraph
  <2>. QED  BY <2>1 DEF RecordedDependenciesAreFresh
<1>5. IndexIsCurrent /\ BatchIsCurrent /\ SnapshotIsKnown /\ BatchIsComplete
  BY NobodyTyped DEF IndexIsCurrent, BatchIsCurrent, SnapshotIsKnown, BatchIsComplete, Running
<1>. QED  BY <1>1, <1>2, <1>3, <1>4, <1>5 DEF IncrementalInv

(* A step that leaves the store alone and makes no path quiet keeps what   *)
(* is said about the store.                                                *)
LEMMA StoreUntouched ==
  ASSUME IncrementalInv, UNCHANGED <<version, graph, overlapped>>,
         \A p \in Supported : Quiet(p)' => Quiet(p) /\ disk'[p] = disk[p]
  PROVE  /\ DependenciesAreStored'
         /\ QuietPathsAreCurrent'
         /\ RecordedDependenciesAreFresh'
<1>1. DependenciesAreStored'
  BY DEF IncrementalInv, DependenciesAreStored, Present
<1>2. QuietPathsAreCurrent'
  BY DEF IncrementalInv, QuietPathsAreCurrent, Present
<1>3. RecordedDependenciesAreFresh'
  BY DEF IncrementalInv, RecordedDependenciesAreFresh, Present, Imported
<1>. QED  BY <1>1, <1>2, <1>3

(* A step that leaves store and batch alone. *)
LEMMA BatchUntouched ==
  ASSUME IncrementalInv, UNCHANGED <<version, graph, batch>>
  PROVE  SnapshotIsKnown' /\ BatchIsComplete'
<1>1. SnapshotIsKnown'
  BY DEF IncrementalInv, SnapshotIsKnown, Running
<1>2. BatchIsComplete'
  <2>1. BatchIsComplete
    BY DEF IncrementalInv
  <2>. QED  BY <2>1 DEF BatchIsComplete, Running, AffectedSources
<1>. QED  BY <1>1, <1>2

LEMMA EditKeeps ==
  ASSUME IncrementalInv, NEW p \in Path, Edit(p)
  PROVE  IncrementalInv'
<1>. USE DEF Edit
<1>1. /\ disk' \in [Supported -> File \cup {Absent}]
      /\ \A q \in Supported : q \notin pending' => q \notin pending /\ disk'[q] = disk[q]
  <2>1. CASE p \in Supported
    <3>1. PICK c \in Contents[p] \cup {Absent} : disk' = [disk EXCEPT ![p] = c]
      BY <2>1
    <3>2. c \in File \cup {Absent}
      BY <2>1, IncrementalAssumption
    <3>. QED  BY <3>1, <3>2 DEF IncrementalInv, TypeOK
  <2>2. CASE p \notin Supported
    BY <2>2 DEF IncrementalInv, TypeOK
  <2>. QED  BY <2>1, <2>2
<1>2. TypeOK'
  BY <1>1, IncrementalAssumption DEF IncrementalInv, TypeOK
<1>3. DependenciesAreStored' /\ QuietPathsAreCurrent' /\ RecordedDependenciesAreFresh'
  <2>1. \A q \in Supported : Quiet(q)' => Quiet(q) /\ disk'[q] = disk[q]
    BY <1>1 DEF Quiet
  <2>. QED  BY <2>1, StoreUntouched
<1>4. IndexIsCurrent'
  BY <1>1 DEF IncrementalInv, IndexIsCurrent, Agrees
<1>5. BatchIsCurrent'
  <2>1. DOMAIN batch.read \subseteq Supported
    BY ReadsAre DEF IncrementalInv, TypeOK, Batch
  <2>. QED  BY <1>1, <2>1 DEF IncrementalInv, BatchIsCurrent, Agrees, Running
<1>6. SnapshotIsKnown' /\ BatchIsComplete'
  BY BatchUntouched
<1>. QED  BY <1>2, <1>3, <1>4, <1>5, <1>6 DEF IncrementalInv

LEMMA BatchDiscoversKeeps == IncrementalInv /\ BatchDiscovers => IncrementalInv'
<1>. SUFFICES ASSUME IncrementalInv, BatchDiscovers PROVE IncrementalInv'
  OBVIOUS
<1>. USE DEF BatchDiscovers
<1>1. /\ batch' = [NoBatch EXCEPT !.at = "discovered", !.changed = pending, !.found = Discover]
      /\ batch'.at = "discovered" /\ batch'.changed = pending /\ batch'.found = Discover
      /\ batch.changed = {}
  BY NobodyTyped DEF IncrementalInv, BatchIsCurrent
<1>2. TypeOK'
  BY <1>1, NobodyTyped DEF IncrementalInv, TypeOK, Batch, Discover
<1>3. DependenciesAreStored' /\ QuietPathsAreCurrent' /\ RecordedDependenciesAreFresh'
  BY <1>1, StoreUntouched DEF Quiet
<1>4. IndexIsCurrent'
  <2>1. batch.at = "idle" /\ index.caller # "batch"
    BY DEF IncrementalInv, BatchIsCurrent
  <2>. QED  BY <1>1, <2>1 DEF IncrementalInv, TypeOK, IndexIsCurrent, Agrees
<1>5. BatchIsCurrent' /\ SnapshotIsKnown' /\ BatchIsComplete'
  <2>1. index'.caller # "batch"
    BY DEF IncrementalInv, BatchIsCurrent
  <2>. QED  BY <1>1, <2>1 DEF BatchIsCurrent, SnapshotIsKnown, BatchIsComplete, Running, Discover
<1>. QED  BY <1>2, <1>3, <1>4, <1>5 DEF IncrementalInv

(* What an index reads when it begins. *)
LEMMA IndexReads ==
  ASSUME TypeOK
  PROVE  LET read == [p \in Discover |-> disk[p]] IN
         /\ read \in Reads
         /\ \A p \in DOMAIN read : read[p] \in File
         /\ \A p \in Supported : Agrees(read, p)
<1>. DEFINE read == [p \in Discover |-> disk[p]]
<1>1. DOMAIN read = Discover /\ Discover \subseteq Supported /\ \A p \in Discover : read[p] = disk[p]
  BY DEF Discover
<1>2. \A p \in Discover : disk[p] \in File
  BY DEF Discover, TypeOK
<1>3. read \in [DOMAIN read -> File \cup {Deleted}]
  BY <1>1, <1>2
<1>4. read \in Reads
  BY <1>1, <1>3, ReadsAre
<1>5. \A p \in Supported : Agrees(read, p)
  BY <1>1 DEF Agrees, Discover
<1>. QED  BY <1>1, <1>2, <1>4, <1>5

LEMMA OpenSnapshotFindsNoneKeeps == IncrementalInv /\ OpenSnapshotFindsNone => IncrementalInv'
<1>. SUFFICES ASSUME IncrementalInv, OpenSnapshotFindsNone PROVE IncrementalInv'
  OBVIOUS
<1>. USE DEF OpenSnapshotFindsNone
<1>. DEFINE read == [p \in Discover |-> disk[p]]
<1>1. /\ batch'.at = "indexing" /\ batch'.changed = batch.changed
      /\ index'.caller = "batch" /\ index'.read = read
  BY DEF IncrementalInv, TypeOK
<1>2. /\ read \in Reads
      /\ \A p \in DOMAIN read : read[p] \in File
      /\ \A p \in Supported : Agrees(read, p)
  BY IndexReads DEF IncrementalInv
<1>. HIDE DEF read
<1>3. TypeOK'
  <2>1. index' \in [caller : {"none", "command", "batch"}, read : Reads]
    BY <1>2 DEF read
  <2>. QED  BY <1>1, <1>2, <2>1 DEF IncrementalInv, TypeOK, Batch
<1>4. DependenciesAreStored' /\ QuietPathsAreCurrent' /\ RecordedDependenciesAreFresh'
  BY <1>1, StoreUntouched DEF Quiet
<1>5. IndexIsCurrent'
  BY <1>1, <1>2 DEF IndexIsCurrent, Agrees
<1>6. BatchIsCurrent' /\ SnapshotIsKnown' /\ BatchIsComplete'
  BY <1>1 DEF BatchIsCurrent, SnapshotIsKnown, BatchIsComplete, Running
<1>. QED  BY <1>3, <1>4, <1>5, <1>6 DEF IncrementalInv

LEMMA IndexBeginsKeeps == IncrementalInv /\ IndexBegins => IncrementalInv'
<1>. SUFFICES ASSUME IncrementalInv, IndexBegins PROVE IncrementalInv'
  OBVIOUS
<1>. USE DEF IndexBegins
<1>. DEFINE read == [p \in Discover |-> disk[p]]
<1>1. index'.caller = "command" /\ index'.read = read
  OBVIOUS
<1>2. /\ read \in Reads
      /\ \A p \in DOMAIN read : read[p] \in File
      /\ \A p \in Supported : Agrees(read, p)
  BY IndexReads DEF IncrementalInv
<1>. HIDE DEF read
<1>3. TypeOK'
  <2>1. index' \in [caller : {"none", "command", "batch"}, read : Reads]
    BY <1>2 DEF read
  <2>. QED  BY <1>1, <1>2, <2>1 DEF IncrementalInv, TypeOK
<1>4. DependenciesAreStored' /\ QuietPathsAreCurrent' /\ RecordedDependenciesAreFresh'
  BY StoreUntouched DEF Quiet
<1>5. IndexIsCurrent'
  BY <1>1, <1>2 DEF IndexIsCurrent, Agrees
<1>6. BatchIsCurrent'
  BY <1>1 DEF IncrementalInv, BatchIsCurrent, Running, Agrees
<1>7. SnapshotIsKnown' /\ BatchIsComplete'
  BY BatchUntouched
<1>. QED  BY <1>3, <1>4, <1>5, <1>6, <1>7 DEF IncrementalInv

LEMMA IndexFailsKeeps == IncrementalInv /\ IndexFails => IncrementalInv'
<1>. SUFFICES ASSUME IncrementalInv, IndexFails PROVE IncrementalInv'
  OBVIOUS
<1>. USE DEF IndexFails
<1>1. index'.caller = "none" /\ DOMAIN index'.read = {}
  BY NobodyTyped
<1>2. TypeOK'
  <2>1. pending' \subseteq Path
    BY DEF IncrementalInv, TypeOK, Batch
  <2>2. batch' = NoBatch \/ batch' = batch
    OBVIOUS
  <2>. QED  BY <1>1, <2>1, <2>2, NobodyTyped DEF IncrementalInv, TypeOK
<1>3. DependenciesAreStored' /\ QuietPathsAreCurrent' /\ RecordedDependenciesAreFresh'
  BY StoreUntouched, NobodyTyped DEF Quiet
<1>4. IndexIsCurrent'
  BY <1>1 DEF IndexIsCurrent
<1>5. BatchIsCurrent' /\ SnapshotIsKnown' /\ BatchIsComplete'
  <2>1. CASE index.caller = "batch"
    BY <1>1, <2>1, NobodyTyped DEF BatchIsCurrent, SnapshotIsKnown, BatchIsComplete, Running
  <2>2. CASE index.caller # "batch"
    <3>1. BatchIsCurrent'
      BY <1>1, <2>2 DEF IncrementalInv, BatchIsCurrent, Running, Agrees
    <3>2. SnapshotIsKnown' /\ BatchIsComplete'
      BY <2>2, BatchUntouched
    <3>. QED  BY <3>1, <3>2
  <2>. QED  BY <2>1, <2>2
<1>. QED  BY <1>2, <1>3, <1>4, <1>5 DEF IncrementalInv

(* A batch that ends without publishing: what it was to do is queued       *)
(* again, or was nothing.                                                  *)
LEMMA BatchEndsKeeps ==
  ASSUME IncrementalInv, UNCHANGED <<disk, edits, version, graph, index, overlapped>>,
         batch' = NoBatch, batch.at # "indexing",
         pending \subseteq pending', pending' \subseteq Path,
         batch.changed \cap Supported \subseteq pending'
  PROVE  IncrementalInv'
<1>1. batch'.at = "idle" /\ batch'.changed = {}
  BY NobodyTyped
<1>2. TypeOK'
  BY NobodyTyped DEF IncrementalInv, TypeOK
<1>3. DependenciesAreStored' /\ QuietPathsAreCurrent' /\ RecordedDependenciesAreFresh'
  BY <1>1, StoreUntouched DEF Quiet
<1>4. IndexIsCurrent'
  BY <1>1 DEF IncrementalInv, IndexIsCurrent, Agrees
<1>5. BatchIsCurrent' /\ SnapshotIsKnown' /\ BatchIsComplete'
  BY <1>1 DEF IncrementalInv, BatchIsCurrent, SnapshotIsKnown, BatchIsComplete, Running
<1>. QED  BY <1>2, <1>3, <1>4, <1>5 DEF IncrementalInv

LEMMA BatchFailsKeeps == IncrementalInv /\ BatchFails => IncrementalInv'
<1>. SUFFICES ASSUME IncrementalInv, BatchFails PROVE IncrementalInv'
  OBVIOUS
<1>1. pending' \subseteq Path
  BY DEF BatchFails, IncrementalInv, TypeOK, Batch
<1>. QED  BY <1>1, BatchEndsKeeps DEF BatchFails

LEMMA NothingChangedKeeps == IncrementalInv /\ NothingChanged => IncrementalInv'
<1>. SUFFICES ASSUME IncrementalInv, NothingChanged PROVE IncrementalInv'
  OBVIOUS
<1>1. batch.changed \cap Supported = {}
  BY DEF NothingChanged, IncrementalInv, BatchIsComplete, Running
<1>2. pending \subseteq Path
  BY DEF IncrementalInv, TypeOK
<1>. QED  BY <1>1, <1>2, BatchEndsKeeps DEF NothingChanged

LEMMA OpenSnapshotKeeps == IncrementalInv /\ OpenSnapshot => IncrementalInv'
<1>. SUFFICES ASSUME IncrementalInv, OpenSnapshot PROVE IncrementalInv'
  OBVIOUS
<1>. USE DEF OpenSnapshot
<1>. DEFINE read == [p \in (batch.changed \cap Supported) \ batch.found |-> Deleted]
<1>1. /\ batch'.at = "changed" /\ batch'.changed = batch.changed /\ batch'.found = batch.found
      /\ batch'.version = version /\ batch'.snapshot = graph
      /\ batch'.todo = batch.changed \cap batch.found /\ batch'.read = read
  BY DEF IncrementalInv, TypeOK
<1>2. /\ read \in Reads /\ DOMAIN read = (batch.changed \cap Supported) \ batch.found
      /\ \A p \in DOMAIN read : read[p] = Deleted
  BY ReadsAre
<1>. HIDE DEF read
<1>3. TypeOK'
  <2>1. batch.changed \cap batch.found \subseteq Supported
    BY DEF IncrementalInv, TypeOK, Batch
  <2>2. batch' = [batch EXCEPT !.at = "changed", !.version = version, !.snapshot = graph,
                               !.todo = batch.changed \cap batch.found, !.read = read]
    BY DEF read
  <2>3. batch' \in Batch
    BY <1>2, <2>1, <2>2 DEF IncrementalInv, TypeOK, Batch
  <2>. QED  BY <2>3 DEF IncrementalInv, TypeOK
<1>4. DependenciesAreStored' /\ QuietPathsAreCurrent' /\ RecordedDependenciesAreFresh'
  BY <1>1, StoreUntouched DEF Quiet
<1>5. IndexIsCurrent'
  BY <1>1 DEF IncrementalInv, IndexIsCurrent, Agrees
<1>6. BatchIsCurrent'
  BY <1>1, <1>2 DEF IncrementalInv, BatchIsCurrent, Running, Agrees
<1>7. SnapshotIsKnown'
  <2>. QED  BY <1>1 DEF IncrementalInv, TypeOK, SnapshotIsKnown
<1>8. BatchIsComplete'
  BY <1>1, <1>2 DEF BatchIsComplete, Running
<1>. QED  BY <1>3, <1>4, <1>5, <1>6, <1>7, <1>8 DEF IncrementalInv

LEMMA ExtractKeeps ==
  ASSUME IncrementalInv, NEW p \in Path, ExtractDiscoveredSource(p)
  PROVE  IncrementalInv'
<1>. USE DEF ExtractDiscoveredSource
<1>. DEFINE read == [q \in DOMAIN batch.read \cup {p} |-> IF q = p THEN disk[p] ELSE batch.read[q]]
<1>1. /\ batch'.at = batch.at /\ batch'.changed = batch.changed /\ batch'.found = batch.found
      /\ batch'.version = batch.version /\ batch'.snapshot = batch.snapshot
      /\ batch'.todo = batch.todo \ {p} /\ batch'.read = read
  BY DEF IncrementalInv, TypeOK
<1>2. /\ p \in Supported /\ disk[p] \in File
      /\ batch.read \in Reads /\ DOMAIN batch.read \subseteq Supported
  BY ReadsAre DEF IncrementalInv, TypeOK, Batch
<1>3. /\ read \in Reads /\ DOMAIN read = DOMAIN batch.read \cup {p} /\ read[p] = disk[p]
      /\ \A q \in DOMAIN batch.read : q # p => read[q] = batch.read[q]
  <2>1. read \in [DOMAIN read -> File \cup {Deleted}]
    BY <1>2, ReadsAre
  <2>. QED  BY <1>2, <2>1, ReadsAre
<1>. HIDE DEF read
<1>4. TypeOK'
  <2>1. batch' = [batch EXCEPT !.todo = @ \ {p}, !.read = read]
    BY DEF read
  <2>2. batch' \in Batch
    BY <1>3, <2>1 DEF IncrementalInv, TypeOK, Batch
  <2>. QED  BY <2>2 DEF IncrementalInv, TypeOK
<1>5. DependenciesAreStored' /\ QuietPathsAreCurrent' /\ RecordedDependenciesAreFresh'
  BY <1>1, StoreUntouched DEF Quiet
<1>6. IndexIsCurrent'
  BY <1>1 DEF IncrementalInv, IndexIsCurrent, Agrees
<1>7. BatchIsCurrent'
  BY <1>1, <1>2, <1>3 DEF IncrementalInv, BatchIsCurrent, Running, Agrees
<1>8. SnapshotIsKnown'
  BY <1>1 DEF IncrementalInv, SnapshotIsKnown, Running
<1>9. BatchIsComplete'
  <2>1. CASE batch.at = "changed"
    BY <1>1, <1>3, <2>1 DEF IncrementalInv, BatchIsComplete, Running
  <2>2. CASE batch.at = "affected"
    <3>. DEFINE old == [q \in DOMAIN batch.read \cap batch.changed |-> batch.read[q]]
                new == [q \in DOMAIN read \cap batch.changed |-> read[q]]
    <3>1. p \notin batch.changed
      BY <2>2 DEF IncrementalInv, BatchIsComplete
    <3>2. old = new
      BY <3>1, <1>3
    <3>3. AffectedSources(batch.snapshot, old) \cap batch.found \subseteq DOMAIN batch.read \cup batch.todo
      BY <2>2 DEF IncrementalInv, BatchIsComplete
    <3>. HIDE DEF old, new
    <3>4. AffectedSources(batch.snapshot, new) \cap batch.found \subseteq DOMAIN read \cup batch'.todo
      BY <1>1, <1>3, <3>2, <3>3
    <3>5. batch.changed \cap Supported \subseteq DOMAIN batch.read \cup batch.todo
      BY <2>2 DEF IncrementalInv, BatchIsComplete, Running
    <3>6. batch.todo \cap batch.changed = {}
      BY <2>2 DEF IncrementalInv, BatchIsComplete
    <3>7. AffectedSources(batch'.snapshot, [q \in DOMAIN batch'.read \cap batch'.changed |-> batch'.read[q]])
            \cap batch'.found \subseteq DOMAIN batch'.read \cup batch'.todo
      BY <1>1, <3>4 DEF new
    <3>. HIDE DEF ExtractDiscoveredSource
    <3>8. /\ batch'.changed \cap Supported \subseteq DOMAIN batch'.read \cup batch'.todo
          /\ batch'.at = "affected"
          /\ batch'.todo \cap batch'.changed = {}
      BY <1>1, <1>3, <2>2, <3>5, <3>6
    <3>. QED  BY <3>7, <3>8 DEF BatchIsComplete, Running, AffectedSources
  <2>. QED  BY <2>1, <2>2
<1>. QED  BY <1>4, <1>5, <1>6, <1>7, <1>8, <1>9 DEF IncrementalInv

LEMMA SelectAffectedKeeps == IncrementalInv /\ SelectAffected => IncrementalInv'
<1>. SUFFICES ASSUME IncrementalInv, SelectAffected PROVE IncrementalInv'
  OBVIOUS
<1>. USE DEF SelectAffected
<1>. DEFINE todo == (AffectedSources(batch.snapshot, Update) \ batch.changed) \cap batch.found
<1>1. /\ batch'.at = "affected" /\ batch'.changed = batch.changed /\ batch'.found = batch.found
      /\ batch'.version = batch.version /\ batch'.snapshot = batch.snapshot
      /\ batch'.todo = todo /\ batch'.read = batch.read
  BY DEF IncrementalInv, TypeOK
<1>2. todo \subseteq Supported
  BY DEF IncrementalInv, TypeOK, Batch
<1>3. /\ DOMAIN batch.read \subseteq batch.changed
      /\ batch.changed \cap Supported \subseteq DOMAIN batch.read
  BY DEF IncrementalInv, BatchIsComplete, Running
<1>4. TypeOK'
  <2>1. batch' = [batch EXCEPT !.at = "affected", !.todo = todo]
    OBVIOUS
  <2>. HIDE DEF todo
  <2>2. batch' \in Batch
    BY <1>2, <2>1 DEF IncrementalInv, TypeOK, Batch
  <2>. QED  BY <2>2 DEF IncrementalInv, TypeOK
<1>5. DependenciesAreStored' /\ QuietPathsAreCurrent' /\ RecordedDependenciesAreFresh'
  BY <1>1, StoreUntouched DEF Quiet
<1>6. IndexIsCurrent'
  BY <1>1 DEF IncrementalInv, IndexIsCurrent, Agrees
<1>7. BatchIsCurrent'
  BY <1>1 DEF IncrementalInv, BatchIsCurrent, Running, Agrees
<1>8. SnapshotIsKnown'
  BY <1>1 DEF IncrementalInv, SnapshotIsKnown, Running
<1>9. BatchIsComplete'
  <2>. DEFINE changed == [q \in DOMAIN batch.read \cap batch.changed |-> batch.read[q]]
  <2>1. changed = Update
    BY <1>3 DEF Update
  <2>2. batch.found \subseteq Supported
    BY DEF IncrementalInv, TypeOK, Batch
  <2>3. AffectedSources(batch.snapshot, changed) \cap batch.found \subseteq DOMAIN batch.read \cup todo
    BY <1>3, <2>1, <2>2
  <2>. HIDE DEF todo
  <2>4. batch.changed \cap Supported \subseteq DOMAIN batch.read \cup todo
    BY <1>3
  <2>5. todo \cap batch.changed = {}
    BY DEF todo
  <2>6. AffectedSources(batch'.snapshot, [q \in DOMAIN batch'.read \cap batch'.changed |-> batch'.read[q]])
          \cap batch'.found \subseteq DOMAIN batch'.read \cup batch'.todo
    BY <1>1, <2>3
  <2>. HIDE DEF SelectAffected
  <2>7. /\ batch'.changed \cap Supported \subseteq DOMAIN batch'.read \cup batch'.todo
        /\ batch'.at = "affected"
        /\ batch'.todo \cap batch'.changed = {}
    BY <1>1, <2>4, <2>5
  <2>. QED  BY <2>6, <2>7 DEF BatchIsComplete, Running, AffectedSources
<1>. QED  BY <1>4, <1>5, <1>6, <1>7, <1>8, <1>9 DEF IncrementalInv

(* A full index replaces everything by what it has read. *)
LEMMA IndexCommitsKeeps == IncrementalInv /\ IndexCommits => IncrementalInv'
<1>. SUFFICES ASSUME IncrementalInv, IndexCommits PROVE IncrementalInv'
  OBVIOUS
<1>. USE DEF IndexCommits
<1>. DEFINE read == index.read
            edges(p) == ResolvePage(EmptyGraph, read, p)
<1>1. /\ read \in Reads /\ DOMAIN read \subseteq Supported
      /\ \A p \in DOMAIN read : read[p] \in File
  BY ReadsAre DEF IncrementalInv, TypeOK
<1>2. /\ graph' \in Graph
      /\ \A p \in Path : p \notin graph'.dependencies[p]
      /\ \A p \in Path : p \notin DOMAIN read =>
           graph'.contributions[p] = Absent /\ graph'.dependencies[p] = {}
      /\ \A p \in DOMAIN read :
           /\ graph'.contributions[p] = read[p]
           /\ graph'.edges[p] = edges(p)
           /\ graph'.dependencies[p] \subseteq {e.path : e \in edges(p)} \cap DOMAIN read
  BY <1>1, FreshGraphIs
<1>3. \A f \in File : f # Absent /\ f # Deleted
  BY DeletedIsNoFile, IncrementalAssumption
<1>4. index'.caller = "none" /\ DOMAIN index'.read = {}
  BY NobodyTyped
<1>5. \/ index.caller = "batch" /\ batch' = NoBatch /\ batch'.at = "idle" /\ batch'.changed = {}
      \/ index.caller = "command" /\ batch' = batch
  BY NobodyTyped DEF IncrementalInv, TypeOK
<1>6. version \in 0 .. MaxVersion /\ version' = version + 1 /\ version' \in 0 .. MaxVersion
  BY IncrementalAssumption DEF IncrementalInv, TypeOK
<1>. HIDE DEF read, edges
<1>7. TypeOK'
  BY <1>2, <1>4, <1>5, <1>6, NobodyTyped DEF IncrementalInv, TypeOK
<1>8. DependenciesAreStored'
  <2>. SUFFICES ASSUME NEW p \in Path, NEW q \in graph'.dependencies[p]
                PROVE  Present(p)' /\ graph'.contributions[q] # Absent
    BY DEF DependenciesAreStored
  <2>1. p \in DOMAIN read /\ q \in DOMAIN read
    BY <1>2
  <2>. QED  BY <1>1, <1>2, <1>3, <2>1 DEF Present
<1>9. QuietPathsAreCurrent'
  <2>. SUFFICES ASSUME NEW p \in Supported, Quiet(p)'
                PROVE  IF disk[p] = Absent THEN ~Present(p)' ELSE graph'.contributions[p] = disk[p]
    BY DEF QuietPathsAreCurrent
  <2>1. Agrees(read, p)
    BY <1>5 DEF IncrementalInv, IndexIsCurrent, Quiet, read
  <2>2. p \in Path
    BY IncrementalAssumption
  <2>. QED  BY <1>1, <1>2, <1>3, <2>1, <2>2 DEF Agrees, Present
<1>10. RecordedDependenciesAreFresh'
  <2>. SUFFICES ASSUME NEW p \in Supported, NEW q \in graph'.dependencies[p]
                PROVE  Imported(p, q)' = graph'.contributions[q].exports \cup {FileItself}
    BY DEF RecordedDependenciesAreFresh
  <2>1. p \in DOMAIN read /\ q \in DOMAIN read /\ q \in {e.path : e \in edges(p)}
    BY <1>2, IncrementalAssumption
  <2>2. {e.surface : e \in {f \in edges(p) : f.path = q}} = read[q].exports \cup {FileItself}
    BY <1>1, <1>3, <2>1, PageIs, EmptyGraphTyped DEF edges
  <2>. QED  BY <1>2, <2>1, <2>2 DEF Imported
<1>11. IndexIsCurrent'
  BY <1>4 DEF IndexIsCurrent
<1>12. BatchIsCurrent' /\ SnapshotIsKnown' /\ BatchIsComplete'
  <2>1. CASE index.caller = "batch"
    BY <1>4, <1>5, <2>1 DEF BatchIsCurrent, SnapshotIsKnown, BatchIsComplete, Running
  <2>2. CASE index.caller = "command" /\ batch' = batch
    <3>1. BatchIsCurrent'
      BY <1>4, <2>2 DEF IncrementalInv, BatchIsCurrent, Running, Agrees
    <3>2. SnapshotIsKnown'
      <4>1. batch.version \in 0 .. MaxVersion
        BY DEF IncrementalInv, TypeOK, Batch
      <4>. QED  BY <1>6, <2>2, <4>1 DEF IncrementalInv, SnapshotIsKnown, Running
    <3>3. BatchIsComplete'
      <4>1. BatchIsComplete
        BY DEF IncrementalInv
      <4>. HIDE DEF IndexCommits
      <4>. QED  BY <2>2, <4>1 DEF BatchIsComplete, Running, AffectedSources
    <3>. QED  BY <3>1, <3>2, <3>3
  <2>. QED  BY <1>5, <2>1, <2>2
<1>. QED  BY <1>7, <1>8, <1>9, <1>10, <1>11, <1>12 DEF IncrementalInv

(* A batch that overlapped nothing and has read all it needs: a file that  *)
(* it leaves out depends on nothing whose surfaces it changes.             *)
LEMMA LeftOutIsFresh ==
  ASSUME IncrementalInv, batch.at = "affected", batch.todo = {},
         batch.snapshot = graph, ~Overtaken,
         NEW p \in Supported, p \notin DOMAIN batch.read, Quiet(p), Present(p), version > 0,
         NEW q \in graph.dependencies[p], q \in DOMAIN batch.read
  PROVE  batch.read[q].exports = graph.contributions[q].exports
<1>1. CASE q \notin batch.changed
  BY <1>1 DEF Overtaken
<1>2. CASE q \in batch.changed
  <2>. DEFINE changed == [r \in DOMAIN batch.read \cap batch.changed |-> batch.read[r]]
              targets == {r \in DOMAIN changed :
                            \/ graph.contributions[r] = Absent
                            \/ ~SameSurfaces(graph.contributions[r].exports, changed[r].exports)}
  <2>. SUFFICES ASSUME batch.read[q].exports # graph.contributions[q].exports PROVE FALSE
    OBVIOUS
  <2>1. q \in targets
    BY <1>2 DEF SameSurfaces
  <2>2. p \notin targets
    OBVIOUS
  <2>3. p \in AffectedSources(batch.snapshot, changed)
    <3>1. p \in Path
      BY IncrementalAssumption
    <3>2. graph.dependencies[p] \cap targets # {}
      BY <2>1
    <3>3. AffectedSources(batch.snapshot, changed)
            = {r \in Path : graph.dependencies[r] \cap targets # {}} \ targets
      BY DEF AffectedSources
    <3>. HIDE DEF targets
    <3>. QED  BY <2>2, <3>1, <3>2, <3>3
  <2>4. p \in batch.found
    <3>1. disk[p] # Absent
      BY DEF IncrementalInv, QuietPathsAreCurrent
    <3>2. p \notin pending
      BY DEF Quiet
    <3>. QED  BY <3>1, <3>2 DEF IncrementalInv, BatchIsCurrent, Running
  <2>5. AffectedSources(batch.snapshot, changed) \cap batch.found \subseteq DOMAIN batch.read \cup batch.todo
    BY DEF IncrementalInv, BatchIsComplete
  <2>. QED  BY <2>3, <2>4, <2>5
<1>. QED  BY <1>1, <1>2

LEMMA PublishUpdateKeeps ==
  ASSUME IncrementalInv, index.caller = "none", PublishUpdate
  PROVE  IncrementalInv'
<1>. USE DEF PublishUpdate
<1>. DEFINE update == batch.read
            resolved == ResolvedSources(update)
            edges(p) == IF p \in resolved THEN ResolvePage(batch.snapshot, update, p) ELSE {}
<1>1. /\ update \in Reads /\ DOMAIN update \subseteq Supported
      /\ update \in [DOMAIN update -> File \cup {Deleted}] /\ batch.snapshot \in Graph
  BY ReadsAre DEF IncrementalInv, TypeOK, Batch
<1>2. Update = update
  BY <1>1 DEF Update
<1>3. /\ graph' \in Graph
      /\ \A p \in Path : p \notin graph'.dependencies[p]
      /\ \A p \in Path : p \notin DOMAIN update =>
           /\ graph'.contributions[p] = graph.contributions[p]
           /\ graph'.dependencies[p] = graph.dependencies[p]
           /\ graph'.edges[p] = graph.edges[p]
      /\ \A p \in DOMAIN update :
           /\ graph'.contributions[p] = update[p]
           /\ graph'.edges[p] = edges(p)
           /\ graph'.dependencies[p] = ({e.path : e \in edges(p)} \cap resolved) \ {p}
  BY <1>1, <1>2, UpdatedGraphIs
<1>4. \A p : p \in resolved <=> p \in DOMAIN update /\ update[p] # Deleted
  BY DEF ResolvedSources
<1>5. \A p \in resolved : update[p] \in File
  BY <1>1, <1>4
<1>6. \A f \in File : f # Absent /\ f # Deleted
  BY DeletedIsNoFile, IncrementalAssumption
<1>7. Deleted # Absent
  BY IncrementalAssumption
<1>8. batch'.at = "idle" /\ batch'.changed = {}
  BY NobodyTyped
<1>9. version \in 0 .. MaxVersion /\ version' \in 0 .. MaxVersion /\ version > 0
  BY IncrementalAssumption DEF IncrementalInv, TypeOK, Batch, SnapshotIsKnown, Running
<1>10. \A p \in Supported : p \notin DOMAIN update => p \in Path /\ p \notin batch.changed
  BY IncrementalAssumption DEF IncrementalInv, BatchIsComplete, Running
<1>11. \A p \in DOMAIN update : graph'.dependencies[p] # {} => p \in resolved
  BY <1>3
<1>. HIDE DEF update, resolved, edges
<1>12. TypeOK'
  BY <1>3, <1>9, NobodyTyped DEF IncrementalInv, TypeOK
<1>13. DependenciesAreStored'
  <2>. SUFFICES ASSUME NEW p \in Path, NEW q \in graph'.dependencies[p]
                PROVE  Present(p)' /\ graph'.contributions[q] # Absent
    BY DEF DependenciesAreStored
  <2>1. CASE p \in DOMAIN update
    <3>1. p \in resolved /\ q \in resolved
      BY <1>3, <1>11, <2>1
    <3>. QED  BY <1>3, <1>4, <1>5, <1>6, <3>1 DEF Present
  <2>2. CASE p \notin DOMAIN update
    <3>1. q \in graph.dependencies[p] /\ q \in Path
      BY <1>3, <2>2, IncrementalAssumption DEF Graph
    <3>2. Present(p) /\ graph.contributions[q] # Absent
      BY <3>1 DEF IncrementalInv, DependenciesAreStored
    <3>3. Present(p)'
      BY <1>3, <2>2, <3>2 DEF Present
    <3>4. graph'.contributions[q] # Absent
      <4>1. CASE q \in DOMAIN update
        BY <1>1, <1>3, <1>6, <1>7, <4>1
      <4>2. CASE q \notin DOMAIN update
        BY <1>3, <3>1, <3>2, <4>2
      <4>. QED  BY <4>1, <4>2
    <3>. QED  BY <3>3, <3>4
  <2>. QED  BY <2>1, <2>2
<1>14. QuietPathsAreCurrent'
  <2>. SUFFICES ASSUME NEW p \in Supported, Quiet(p)'
                PROVE  IF disk[p] = Absent THEN ~Present(p)' ELSE graph'.contributions[p] = disk[p]
    BY DEF QuietPathsAreCurrent
  <2>1. p \notin pending
    BY DEF Quiet
  <2>2. CASE p \in DOMAIN update
    <3>1. Agrees(update, p)
      BY <2>1, <2>2 DEF IncrementalInv, BatchIsCurrent, Running, update
    <3>. QED  BY <1>3, <2>2, <3>1 DEF Agrees, Present
  <2>3. CASE p \notin DOMAIN update
    <3>1. Quiet(p) /\ p \in Path
      BY <1>10, <2>1, <2>3 DEF Quiet
    <3>. QED  BY <1>3, <1>9, <2>3, <3>1 DEF IncrementalInv, QuietPathsAreCurrent, Present
  <2>. QED  BY <2>2, <2>3
<1>15. RecordedDependenciesAreFresh'
  <2>. SUFFICES ASSUME ~overlapped', NEW p \in Supported, Quiet(p)', Present(p)',
                       NEW q \in graph'.dependencies[p]
                PROVE  Imported(p, q)' = graph'.contributions[q].exports \cup {FileItself}
    BY DEF RecordedDependenciesAreFresh
  <2>1. ~overlapped /\ ~Overtaken /\ batch.snapshot = graph
    BY DEF IncrementalInv, SnapshotIsKnown, Running
  <2>2. CASE p \in DOMAIN update
    <3>1. p \in resolved /\ q \in resolved /\ q \in {e.path : e \in edges(p)}
      BY <1>3, <1>11, <2>2
    <3>2. edges(p) = ResolvePage(batch.snapshot, update, p)
      BY <3>1 DEF edges
    <3>3. {e.surface : e \in {f \in edges(p) : f.path = q}} = update[q].exports \cup {FileItself}
      BY <1>1, <1>4, <2>2, <3>1, <3>2, PageIs
    <3>4. graph'.edges[p] = edges(p) /\ graph'.contributions[q] = update[q]
      BY <1>3, <1>4, <2>2, <3>1
    <3>. QED  BY <3>3, <3>4 DEF Imported
  <2>3. CASE p \notin DOMAIN update
    <3>1. Quiet(p) /\ p \in Path
      BY <1>10, <2>3 DEF Quiet
    <3>2. Present(p) /\ q \in graph.dependencies[p] /\ graph'.edges[p] = graph.edges[p]
      BY <1>3, <2>3, <3>1 DEF Present
    <3>3. Imported(p, q) = graph.contributions[q].exports \cup {FileItself}
      BY <2>1, <3>1, <3>2 DEF IncrementalInv, RecordedDependenciesAreFresh
    <3>4. Imported(p, q)' = Imported(p, q)
      BY <3>2 DEF Imported
    <3>5. graph'.contributions[q].exports = graph.contributions[q].exports
      <4>1. CASE q \in DOMAIN update
        <5>1. update[q].exports = graph.contributions[q].exports
          BY <1>9, <2>1, <2>3, <3>1, <3>2, <4>1, LeftOutIsFresh DEF update
        <5>. QED  BY <1>3, <4>1, <5>1
      <4>2. CASE q \notin DOMAIN update
        <5>1. q \in Path
          BY <3>1, <3>2, IncrementalAssumption DEF IncrementalInv, TypeOK, Graph
        <5>. QED  BY <1>3, <4>2, <5>1
      <4>. QED  BY <4>1, <4>2
    <3>. QED  BY <3>3, <3>4, <3>5
  <2>. QED  BY <2>2, <2>3
<1>16. IndexIsCurrent' /\ BatchIsCurrent' /\ SnapshotIsKnown' /\ BatchIsComplete'
  BY <1>8 DEF IndexIsCurrent, BatchIsCurrent, SnapshotIsKnown, BatchIsComplete, Running
<1>. QED  BY <1>12, <1>13, <1>14, <1>15, <1>16 DEF IncrementalInv
-----------------------------------------------------------------------------
LEMMA IncrementalNext == IncrementalInv /\ [Next]_vars => IncrementalInv'
<1>. SUFFICES ASSUME IncrementalInv, [Next]_vars PROVE IncrementalInv'
  OBVIOUS
<1>1. ASSUME NEW p \in Path, Edit(p) \/ ExtractDiscoveredSource(p) PROVE IncrementalInv'
  BY <1>1, EditKeeps, ExtractKeeps
<1>2. CASE BatchDiscovers
  BY <1>2, BatchDiscoversKeeps
<1>3. CASE OpenSnapshotFindsNone
  BY <1>3, OpenSnapshotFindsNoneKeeps
<1>4. CASE OpenSnapshot
  BY <1>4, OpenSnapshotKeeps
<1>5. CASE NothingChanged
  BY <1>5, NothingChangedKeeps
<1>6. CASE SelectAffected
  BY <1>6, SelectAffectedKeeps
<1>7. CASE Publish \/ PublishStaged
  BY <1>7, PublishUpdateKeeps DEF Publish, PublishStaged
<1>8. CASE BatchFails
  BY <1>8, BatchFailsKeeps
<1>9. CASE IndexBegins
  BY <1>9, IndexBeginsKeeps
<1>10. CASE IndexCommits
  BY <1>10, IndexCommitsKeeps
<1>11. CASE IndexFails
  BY <1>11, IndexFailsKeeps
<1>12. CASE UNCHANGED vars
  <2>. USE <1>12 DEF vars
  <2>1. TypeOK'
    BY DEF IncrementalInv, TypeOK
  <2>2. DependenciesAreStored' /\ QuietPathsAreCurrent' /\ RecordedDependenciesAreFresh'
    BY StoreUntouched DEF Quiet
  <2>3. IndexIsCurrent' /\ BatchIsCurrent'
    BY DEF IncrementalInv, IndexIsCurrent, BatchIsCurrent, Running, Agrees
  <2>4. SnapshotIsKnown' /\ BatchIsComplete'
    BY BatchUntouched
  <2>. QED  BY <2>1, <2>2, <2>3, <2>4 DEF IncrementalInv
<1>. QED  BY <1>1, <1>2, <1>3, <1>4, <1>5, <1>6, <1>7, <1>8, <1>9, <1>10, <1>11, <1>12 DEF Next

(* PublishBatch and Index, against edits and each other: the inductive     *)
(* invariant, from which the two theorems below follow.                    *)
THEOREM IncrementalInvariant == Spec => []IncrementalInv
<1>. QED  BY IncrementalInit, IncrementalNext, PTL DEF Spec

(* No edit is lost: a path without an outstanding notification is stored   *)
(* as it is on disk, whoever published last and whatever was edited while  *)
(* files were read.                                                        *)
THEOREM QuietPathsStayCurrent == Spec => []QuietPathsAreCurrent
<1>1. IncrementalInv => QuietPathsAreCurrent
  BY DEF IncrementalInv
<1>. QED  BY <1>1, IncrementalInvariant, PTL

(* AffectedSources finds enough: recorded dependencies are honoured, for   *)
(* any number of files that import one another.                            *)
THEOREM DependenciesStayFresh == Spec => []RecordedDependenciesAreFresh
<1>1. IncrementalInv => RecordedDependenciesAreFresh
  BY DEF IncrementalInv
<1>. QED  BY <1>1, IncrementalInvariant, PTL
=============================================================================
