-------------------------- MODULE IncrementalIndex --------------------------
(***************************************************************************)
(* Incremental updates: PublishBatch of index/index.go, against files that *)
(* are edited while it runs and a full Index run by another process.       *)
(*                                                                         *)
(* A source file is reduced to the files it imports and the surfaces it    *)
(* exports.  The store is reduced to its newest version (GraphStore shows  *)
(* that a version never changes, so a batch keeps a copy of the snapshot   *)
(* it opened).  There is one project and one language, and an import names *)
(* a file and takes everything it exports.                                 *)
(*                                                                         *)
(* The queue of changed paths is the indexer's (IndexerManager): a batch   *)
(* takes all of it, and gets its paths back when it fails.                 *)
(***************************************************************************)
EXTENDS Integers, FiniteSets

CONSTANTS
  Path,         \* paths that change notifications may name
  Supported,    \* the paths some extractor handles
  Surface,      \* the surfaces a file may export
  File,         \* the contents a file may have
  Contents,     \* which of these each source may have
  Absent,       \* no such file
  MaxEdits,     \* bound on the edits of files
  MaxVersion    \* bound on version numbers

(* A contribution that a deletion publishes. *)
Deleted == [imports |-> {}, exports |-> {}, deleted |-> TRUE]

ASSUME IncrementalAssumption ==
  /\ Supported \subseteq Path
  /\ File \subseteq [imports : SUBSET Supported, exports : SUBSET Surface]
  /\ Contents \in [Supported -> SUBSET File]
  /\ Absent \notin File \cup {Deleted}
  /\ MaxEdits \in Nat
  /\ MaxVersion \in Nat

VARIABLES
  disk,        \* the files
  edits,       \* how often they were edited
  pending,     \* the changed paths the indexer has queued
  version,     \* the newest version, 0 before the first
  graph,       \* what it holds
  batch,       \* the PublishBatch call
  index,       \* the Index call that holds the write lock
  overlapped   \* history: a batch was published over a version newer than
               \* the snapshot it read, or with new surfaces of a source it
               \* read as affected, and no full Index has run since

vars == <<disk, edits, pending, version, graph, batch, index, overlapped>>

(* What the store may hold for a path. *)
Stored == File \cup {Deleted, Absent}

(* An edge leads to a file or to one of its surfaces. *)
FileItself == "file"
Target == [path : Supported, surface : Surface \cup {FileItself}]

Graph == [contributions : [Path -> Stored],
          dependencies : [Path -> SUBSET Supported],
          edges : [Path -> SUBSET Target]]

EmptyGraph == [contributions |-> [p \in Path |-> Absent],
               dependencies |-> [p \in Path |-> {}],
               edges |-> [p \in Path |-> {}]]

(* Contents read so far, by path. *)
NothingRead == [p \in {} |-> Absent]

NoBatch == [at |-> "idle", changed |-> {}, found |-> {}, version |-> 0, snapshot |-> EmptyGraph,
            todo |-> {}, read |-> NothingRead]

NoIndex == [caller |-> "none", read |-> NothingRead]

Reads == UNION {[D -> File \cup {Deleted}] : D \in SUBSET Supported}

Batch == [at : {"idle", "discovered", "changed", "affected", "indexing"},
          changed : SUBSET Path, found : SUBSET Supported, version : 0 .. MaxVersion,
          snapshot : Graph, todo : SUBSET Supported, read : Reads]

TypeOK ==
  /\ disk \in [Supported -> File \cup {Absent}]
  /\ edits \in 0 .. MaxEdits
  /\ pending \subseteq Path
  /\ version \in 0 .. MaxVersion
  /\ graph \in Graph
  /\ \A p \in Path : p \notin graph.dependencies[p]
  /\ batch \in Batch
  /\ index \in [caller : {"none", "command", "batch"}, read : Reads]
  /\ \A p \in DOMAIN index.read : index.read[p] \in File
  /\ overlapped \in BOOLEAN

Init ==
  /\ disk \in [Supported -> File \cup {Absent}]
  /\ \A p \in Supported : disk[p] \in Contents[p] \cup {Absent}
  /\ edits = 0
  /\ pending = {}
  /\ version = 0
  /\ graph = EmptyGraph
  /\ batch = NoBatch
  /\ index = NoIndex
  /\ overlapped = FALSE
-----------------------------------------------------------------------------
(* Files change, and each change is notified.  A path that no extractor    *)
(* supports may be notified too.                                           *)
Edit(p) ==
  /\ edits < MaxEdits
  /\ edits' = edits + 1
  /\ pending' = pending \cup {p}
  /\ IF p \in Supported
     THEN \E c \in (Contents[p] \cup {Absent}) \ {disk[p]} : disk' = [disk EXCEPT ![p] = c]
     ELSE UNCHANGED disk
  /\ UNCHANGED <<version, graph, batch, index, overlapped>>

(* workspace.Discover *)
Discover == {p \in Supported : disk[p] # Absent}

Update == [p \in DOMAIN batch.read |-> batch.read[p]]
-----------------------------------------------------------------------------
(* Resolution *)

(* Store.ResolverTarget: a stored deletion has no project, so that it      *)
(* matches no request.                                                     *)
StoredTarget(snapshot, p) ==
  IF snapshot.contributions[p] = Deleted THEN Absent ELSE snapshot.contributions[p]

(* snapshotResolverIndex.ResolverTarget: the contribution being published, *)
(* unless it is a deletion, which has no project either and so falls       *)
(* through to the snapshot.                                                *)
ResolverTarget(snapshot, update, p) ==
  IF p \in DOMAIN update /\ update[p] # Deleted THEN update[p]
  ELSE StoredTarget(snapshot, p)

(* ResolvePage: an edge to the file and one to each of its surfaces. *)
ResolvePage(snapshot, update, p) ==
  UNION {LET target == ResolverTarget(snapshot, update, q) IN
         IF target = Absent THEN {}
         ELSE {[path |-> q, surface |-> s] : s \in target.exports \cup {FileItself}} :
         q \in update[p].imports}

(* A plausible bug: a file that imports itself depends on itself.          *)
WithResolvedDependencies_Self(p, edges, known) == {e.path : e \in edges} \cap known

(* withResolvedDependencies: only files it knows the path of count. *)
WithResolvedDependencies(p, edges, known) == ({e.path : e \in edges} \cap known) \ {p}

(* A full index resolves every file against what it has read itself, and   *)
(* its resolution pages also name the files they resolved to.              *)
FreshGraph(read) ==
  LET edges(p) == ResolvePage(EmptyGraph, read, p) IN
  [contributions |-> [p \in Path |-> IF p \in DOMAIN read THEN read[p] ELSE Absent],
   dependencies |-> [p \in Path |-> IF p \in DOMAIN read
                                    THEN WithResolvedDependencies(p, edges(p), Supported)
                                    ELSE {}],
   edges |-> [p \in Path |-> IF p \in DOMAIN read THEN edges(p) ELSE {}]]

(* The resolver pages: every file of the update is resolved once, with the *)
(* page of the snapshot that lists it or on its own; a deleted one is not. *)
ResolvedSources(update) == {p \in DOMAIN update : update[p] # Deleted}

(* An update resolves its own files against the snapshot it read, knows    *)
(* only the files it publishes, and leaves the edges of other owners as    *)
(* they are in the newest version.                                         *)
UpdatedGraph(snapshot, update) ==
  LET resolved == ResolvedSources(update)
      edges(p) == IF p \in resolved THEN ResolvePage(snapshot, update, p) ELSE {}
  IN
  [contributions |-> [p \in Path |-> IF p \in DOMAIN update THEN update[p]
                                     ELSE graph.contributions[p]],
   dependencies |-> [p \in Path |-> IF p \in DOMAIN update
                                    THEN WithResolvedDependencies(p, edges(p), resolved)
                                    ELSE graph.dependencies[p]],
   edges |-> [p \in Path |-> IF p \in DOMAIN update THEN edges(p) ELSE graph.edges[p]]]
-----------------------------------------------------------------------------
(* PublishBatch *)

BatchDiscovers ==
  /\ batch.at = "idle" /\ pending # {}
  /\ batch' = [NoBatch EXCEPT !.at = "discovered", !.changed = pending, !.found = Discover]
  /\ pending' = {}
  /\ UNCHANGED <<disk, edits, version, graph, index, overlapped>>

(* No workspace yet: PublishBatch is a full Publish. *)
OpenSnapshotFindsNone ==
  /\ batch.at = "discovered" /\ version = 0
  /\ index.caller = "none"
  /\ batch' = [batch EXCEPT !.at = "indexing"]
  /\ index' = [caller |-> "batch", read |-> [p \in Discover |-> disk[p]]]
  /\ UNCHANGED <<disk, edits, pending, version, graph, overlapped>>

(* extractChangedSources: a changed path that was not discovered is a      *)
(* deletion if an extractor supports it, and nothing otherwise.            *)
OpenSnapshot ==
  /\ batch.at = "discovered" /\ version > 0
  /\ batch' = [batch EXCEPT
       !.at = "changed", !.version = version, !.snapshot = graph,
       !.todo = batch.changed \cap batch.found,
       !.read = [p \in (batch.changed \cap Supported) \ batch.found |-> Deleted]]
  /\ UNCHANGED <<disk, edits, pending, version, graph, index, overlapped>>

(* extractDiscoveredSource; a file that is gone fails the batch. *)
ExtractDiscoveredSource(p) ==
  /\ batch.at \in {"changed", "affected"}
  /\ p \in batch.todo /\ disk[p] # Absent
  /\ batch' = [batch EXCEPT
       !.todo = @ \ {p},
       !.read = [q \in DOMAIN batch.read \cup {p} |-> IF q = p THEN disk[p] ELSE batch.read[q]]]
  /\ UNCHANGED <<disk, edits, pending, version, graph, index, overlapped>>

NothingChanged ==
  /\ batch.at = "changed" /\ batch.todo = {} /\ DOMAIN batch.read = {}
  /\ batch' = NoBatch
  /\ UNCHANGED <<disk, edits, pending, version, graph, index, overlapped>>

(* A plausible bug: surfaces are counted, not compared.                    *)
SameSurfaces_Count(left, right) == Cardinality(left) = Cardinality(right)

SameSurfaces(left, right) == left = right

(* Files whose surfaces change (or that are new) make the files that       *)
(* depend on them affected.                                                *)
AffectedSources(snapshot, update) ==
  LET current(p) == snapshot.contributions[p]
      changedTargets == {p \in DOMAIN update :
                           \/ current(p) = Absent
                           \/ ~SameSurfaces(current(p).exports, update[p].exports)}
  IN {p \in Path : snapshot.dependencies[p] \cap changedTargets # {}} \ changedTargets

SelectAffected ==
  /\ batch.at = "changed" /\ batch.todo = {} /\ DOMAIN batch.read # {}
  /\ batch' = [batch EXCEPT
       !.at = "affected",
       !.todo = (AffectedSources(batch.snapshot, Update) \ batch.changed) \cap batch.found]
  /\ UNCHANGED <<disk, edits, pending, version, graph, index, overlapped>>

(* History: a source that was only affected was edited before it was read, *)
(* and its new surfaces are published without those who depend on it.      *)
Overtaken ==
  \E p \in DOMAIN batch.read \ batch.changed :
    batch.read[p].exports # batch.snapshot.contributions[p].exports

(* The end of both ways to publish: one write transaction over the newest  *)
(* version, whatever version the snapshot was.                             *)
PublishUpdate ==
  /\ batch.at = "affected" /\ batch.todo = {}
  /\ version < MaxVersion
  /\ version' = version + 1
  /\ graph' = UpdatedGraph(batch.snapshot, Update)
  /\ overlapped' = (overlapped \/ version # batch.version \/ Overtaken)
  /\ batch' = NoBatch
  /\ UNCHANGED <<disk, edits, pending, index>>

(* A plausible bug: publishing without taking the write lock.              *)
Publish_NoLock == PublishUpdate

Publish ==
  /\ index.caller = "none"
  /\ PublishUpdate

(* StageResolverSources refuses a source without a project: a deletion.    *)
Stageable(update) == \A p \in DOMAIN update : update[p] # Deleted

(* The staged resolver reads refuse a snapshot that is not the newest one. *)
StagedReadsAgree(v) == version = v

(* publishStagedBatch: an update of more files than resolverProjectionPage-*)
(* Size (how many others it has is left open) is resolved inside the       *)
(* transaction that publishes it.                                          *)
PublishStaged ==
  /\ index.caller = "none"
  /\ Stageable(Update)
  /\ StagedReadsAgree(batch.version)
  /\ PublishUpdate

(* Any step may fail; the indexer queues the paths again. *)
BatchFails ==
  /\ batch.at \in {"discovered", "changed", "affected"}
  /\ batch' = NoBatch
  /\ pending' = pending \cup batch.changed
  /\ UNCHANGED <<disk, edits, version, graph, index, overlapped>>
-----------------------------------------------------------------------------
(* Index by a command: the session takes the write lock before any file is *)
(* read and keeps it until it commits or rolls back (ContributionSession,  *)
(* IndexPipeline).  A workspace without sources is refused at first.       *)
IndexBegins ==
  /\ index.caller = "none"
  /\ index' = [caller |-> "command", read |-> [p \in Discover |-> disk[p]]]
  /\ UNCHANGED <<disk, edits, pending, version, graph, batch, overlapped>>

IndexCommits ==
  /\ index.caller # "none"
  /\ DOMAIN index.read # {} \/ version > 0
  /\ version < MaxVersion
  /\ version' = version + 1
  /\ graph' = FreshGraph(index.read)
  /\ batch' = IF index.caller = "batch" THEN NoBatch ELSE batch
  /\ index' = NoIndex
  /\ overlapped' = FALSE
  /\ UNCHANGED <<disk, edits, pending>>

IndexFails ==
  /\ index.caller # "none"
  /\ pending' = IF index.caller = "batch" THEN pending \cup batch.changed ELSE pending
  /\ batch' = IF index.caller = "batch" THEN NoBatch ELSE batch
  /\ index' = NoIndex
  /\ UNCHANGED <<disk, edits, version, graph, overlapped>>

Next ==
  \/ \E p \in Path : Edit(p) \/ ExtractDiscoveredSource(p)
  \/ BatchDiscovers \/ OpenSnapshotFindsNone \/ OpenSnapshot \/ NothingChanged
  \/ SelectAffected \/ Publish \/ PublishStaged \/ BatchFails
  \/ IndexBegins \/ IndexCommits \/ IndexFails

Spec == Init /\ [][Next]_vars
-----------------------------------------------------------------------------
(* Paths about which nothing is on its way. *)
Quiet(p) == p \notin pending \cup batch.changed

Present(p) == graph.contributions[p] \notin {Absent, Deleted}

(* PublishBatch, Index: whatever is edited while files are read, and       *)
(* whoever publishes in between, a path without an outstanding change      *)
(* notification is stored as it is on disk, or not at all if it is gone.   *)
QuietPathsAreCurrent ==
  version > 0 =>
    \A p \in Supported : Quiet(p) =>
      IF disk[p] = Absent THEN ~Present(p) ELSE graph.contributions[p] = disk[p]

(* The edges that lead from a file to the surfaces of another.             *)
Imported(p, q) == {e.surface : e \in {f \in graph.edges[p] : f.path = q}}

(* AffectedSources: a recorded dependency is honoured.  A file that is     *)
(* known to depend on another has exactly the edges that the other's       *)
(* present surfaces call for, unless a batch overlapped another writer or  *)
(* an edit of a source that it read as affected.                           *)
RecordedDependenciesAreFresh ==
  ~overlapped =>
    \A p \in Supported : Quiet(p) /\ Present(p) =>
      \A q \in graph.dependencies[p] :
        Imported(p, q) = graph.contributions[q].exports \cup {FileItself}

(* What was read of a file is what is on disk. *)
Agrees(read, p) ==
  IF disk[p] = Absent THEN p \in DOMAIN read => read[p] = Deleted
  ELSE p \in DOMAIN read /\ read[p] = disk[p]

(* Only files that were published have dependencies, and only on files     *)
(* that were published.                                                    *)
DependenciesAreStored ==
  \A p \in Path : \A q \in graph.dependencies[p] :
    Present(p) /\ graph.contributions[q] # Absent

(* What an index has read is current unless a notification says otherwise; *)
(* a batch answers for the index that it started.                          *)
IndexIsCurrent ==
  index.caller # "none" =>
    \A p \in Supported \ pending :
      (index.caller = "command" => p \notin batch.changed) => Agrees(index.read, p)

Running == batch.at \in {"changed", "affected"}

(* So is what a batch discovered and has read.  Nothing is outstanding for *)
(* a batch that is not there.                                              *)
BatchIsCurrent ==
  /\ batch.at = "idle" => batch.changed = {}
  /\ batch.at = "indexing" <=> index.caller = "batch"
  /\ Running \/ batch.at = "discovered" =>
       \A p \in Supported \ pending : p \in batch.found <=> disk[p] # Absent
  /\ Running => \A p \in DOMAIN batch.read \ pending : Agrees(batch.read, p)

(* The snapshot of a batch is the newest version unless its number says    *)
(* otherwise.                                                              *)
SnapshotIsKnown ==
  Running => /\ 0 < batch.version /\ batch.version <= version
             /\ batch.version = version => batch.snapshot = graph

(* A batch reads every changed source, and then those that depend on a     *)
(* source whose surfaces changed.                                          *)
BatchIsComplete ==
  LET changed == [p \in DOMAIN batch.read \cap batch.changed |-> batch.read[p]] IN
  /\ Running => batch.changed \cap Supported \subseteq DOMAIN batch.read \cup batch.todo
  /\ batch.at = "changed" => DOMAIN batch.read \cup batch.todo \subseteq batch.changed
  /\ batch.at = "affected" =>
       /\ batch.todo \cap batch.changed = {}
       /\ AffectedSources(batch.snapshot, changed) \cap batch.found
            \subseteq DOMAIN batch.read \cup batch.todo

(* The inductive invariant of incremental updates: whatever was read, by a *)
(* batch or an index, is current or due to be read again, and a batch      *)
(* leaves out nothing that its changes concern.                            *)
IncrementalInv ==
  /\ TypeOK
  /\ DependenciesAreStored
  /\ QuietPathsAreCurrent
  /\ RecordedDependenciesAreFresh
  /\ IndexIsCurrent
  /\ BatchIsCurrent
  /\ SnapshotIsKnown
  /\ BatchIsComplete

(* index_test.go:952 (a batch re-resolves the dependencies of the changed  *)
(* project, and retains no import of a removed surface), when no writer    *)
(* ever overlapped a batch and nothing is outstanding.                     *)
NoImportOfRemovedSurface ==
  ~overlapped /\ pending = {} /\ batch.at = "idle" /\ index.caller = "none" =>
    \A p \in Supported : \A e \in graph.edges[p] :
      Present(e.path) => e.surface \in graph.contributions[e.path].exports \cup {FileItself}
=============================================================================
