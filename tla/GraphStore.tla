----------------------------- MODULE GraphStore -----------------------------
(***************************************************************************)
(* The versioned tables of storage/sqlite/sqlite.go for one workspace.     *)
(*                                                                         *)
(* A contribution is stored once with the interval of versions it is valid *)
(* for; publishing closes the interval of the contribution it replaces.    *)
(* The ten contribution tables are opened, closed, reopened, rebased and   *)
(* deleted together (contributionTables), so one row per contribution      *)
(* stands for its records in all of them.  Workspace facts (nodes and      *)
(* edges found by the resolvers) are copied per version instead.           *)
(*                                                                         *)
(* Every operation runs in one SQLite write transaction (_txlock=immediate *)
(* and WAL: one writer, readers see the last commit), so an operation that *)
(* commits is one step, and one that fails is no step at all.              *)
(***************************************************************************)
EXTENDS Integers, FiniteSets

CONSTANTS
  Path,            \* source paths of the workspace
  Facts,           \* the facts extracted from one source
  DependencySets,  \* the sets of paths a contribution may depend on
  Node,            \* nodes named by workspace facts
  Retained,        \* retainedGraphVersions
  MaxVersion,      \* bound on graph version numbers
  NULL             \* SQL NULL: an open valid_to_version

ASSUME StoreAssumption ==
  /\ Retained \in Nat \ {0}
  /\ MaxVersion \in Nat
  /\ NULL \notin Nat

VARIABLES
  versions,        \* graph_versions
  rows,            \* file_contributions and its nine companion tables
  workspaceNodes,  \* workspace_nodes
  workspaceEdges   \* workspace_edges

storeVars == <<versions, rows, workspaceNodes, workspaceEdges>>

Contribution == [facts : Facts, dependencies : DependencySets]

Row == [path : Path, from : Nat, to : Nat \cup {NULL}, contribution : Contribution]

(* A node identifier hashes the path of the file it is declared in, and an *)
(* edge is owned by the file of its source node, so the primary key        *)
(* (source, target, relation) of workspace_edges determines the owner.     *)
Edge == [owner : Path, target : Node]

NodeRow == [version : Nat, node : Node]

EdgeRow == [version : Nat, edge : Edge]

TypeOK ==
  /\ versions \subseteq 1 .. MaxVersion
  /\ rows \subseteq Row
  /\ workspaceNodes \subseteq NodeRow
  /\ workspaceEdges \subseteq EdgeRow
-----------------------------------------------------------------------------
(* Reading a snapshot: the visibility filter of every query. *)
Visible(r, v) == r.from <= v /\ (r.to = NULL \/ r.to >= v)

ContributionsAt(table, v) ==
  [p \in Path |-> {r.contribution : r \in {s \in table : s.path = p /\ Visible(s, v)}}]

GraphAt(v) ==
  [contributions |-> ContributionsAt(rows, v),
   nodes |-> {n.node : n \in {m \in workspaceNodes : m.version = v}},
   edges |-> {e.edge : e \in {f \in workspaceEdges : f.version = v}}]

(* A plausible bug: counting the versions instead of taking the newest.    *)
CurrentVersion_Count == Cardinality(versions)

(* COALESCE(MAX(version), 0) *)
CurrentVersion == IF versions = {} THEN 0
                  ELSE CHOOSE v \in versions : \A w \in versions : w <= v

EarliestVersion == CHOOSE v \in versions : \A w \in versions : v <= w

(* OpenSnapshot of a named version: found, or one of two errors. *)
OpenSnapshot(v) ==
  CASE v \in versions -> "snapshot"
    [] v \notin versions /\ versions # {} /\ v > 0 /\ v < EarliestVersion -> "pruned"
    [] OTHER -> "not found"
-----------------------------------------------------------------------------
(* The statements the operations are made of, as functions of the tables.  *)

CloseContributionRecords(table, paths, v) ==
  {IF r.path \in paths /\ r.to = NULL THEN [r EXCEPT !.to = v] ELSE r : r \in table}

NewRecord(p, v, c) == [path |-> p, from |-> v, to |-> NULL, contribution |-> c]

StoreContributions(table, update, v) ==
  CloseContributionRecords(table, DOMAIN update, v - 1)
    \cup {NewRecord(p, v, update[p]) : p \in DOMAIN update}

(* A plausible bug: > for >= where a record ends exactly at the boundary.  *)
RebaseContributions_Strict(table, v) ==
  {IF r.from < v /\ (r.to = NULL \/ r.to > v) THEN [r EXCEPT !.from = v] ELSE r : r \in table}

RebaseContributions(table, v) ==
  {IF r.from < v /\ (r.to = NULL \/ r.to >= v) THEN [r EXCEPT !.from = v] ELSE r : r \in table}

PruneRecords(table, v) == {r \in RebaseContributions(table, v) : r.from >= v}

(* The same slip when reopening.                                           *)
ReopenContributionRecords_Strict(table, v) ==
  {IF r.to # NULL /\ r.to > v THEN [r EXCEPT !.to = NULL] ELSE r : r \in table}

ReopenContributionRecords(table, v) ==
  {IF r.to # NULL /\ r.to >= v THEN [r EXCEPT !.to = NULL] ELSE r : r \in table}

RollbackRecords(table, v) == ReopenContributionRecords({r \in table : r.from <= v}, v)

(* Edges of the previous version whose owner is not resolved again are     *)
(* carried over; an empty owner list carries nothing over.                 *)
RetainWorkspaceFacts(v, replacedOwners) ==
  {[version |-> v, edge |-> e.edge] :
     e \in {f \in workspaceEdges : /\ replacedOwners # {}
                                   /\ v > 1
                                   /\ f.version = v - 1
                                   /\ f.edge.owner \notin replacedOwners}}
-----------------------------------------------------------------------------
Init ==
  /\ versions = {}
  /\ rows = {}
  /\ workspaceNodes = {}
  /\ workspaceEdges = {}

(* The oldest version a publication of version v leaves, when it prunes.   *)
RetentionBoundary(v) == v - Retained + 1

(* The end of every publication: record version v and drop the versions    *)
(* beyond the retention limit.  pruneVersions refuses a boundary version   *)
(* that is not in graph_versions, and then nothing at all is published.    *)
RecordVersion(v, newRows, newNodes, newEdges) ==
  IF v > Retained
  THEN LET b == RetentionBoundary(v) IN
       /\ b \in versions \cup {v}
       /\ versions' = {w \in versions \cup {v} : w >= b}
       /\ rows' = PruneRecords(newRows, b)
       /\ workspaceNodes' = {n \in newNodes : n.version >= b}
       /\ workspaceEdges' = {e \in newEdges : e.version >= b}
  ELSE /\ versions' = versions \cup {v}
       /\ rows' = newRows
       /\ workspaceNodes' = newNodes
       /\ workspaceEdges' = newEdges

(* A graph update holds at most one contribution per path. *)
Updates == UNION {[S -> Contribution] : S \in SUBSET Path}

Publish(update, nodes, edges, replacedOwners) ==
  LET v == CurrentVersion + 1 IN
  /\ v <= MaxVersion
  /\ RecordVersion(v,
       StoreContributions(rows, update, v),
       workspaceNodes \cup {[version |-> v, node |-> n] : n \in nodes},
       workspaceEdges \cup RetainWorkspaceFacts(v, replacedOwners)
                      \cup {[version |-> v, edge |-> e] : e \in edges})

Rollback(v) ==
  /\ v \in versions
  /\ versions' = {w \in versions : w <= v}
  /\ rows' = RollbackRecords(rows, v)
  /\ workspaceNodes' = {n \in workspaceNodes : n.version <= v}
  /\ workspaceEdges' = {e \in workspaceEdges : e.version <= v}

Prune(v) ==
  /\ v \in versions
  /\ versions' = {w \in versions : w >= v}
  /\ rows' = PruneRecords(rows, v)
  /\ workspaceNodes' = {n \in workspaceNodes : n.version >= v}
  /\ workspaceEdges' = {e \in workspaceEdges : e.version >= v}

Next ==
  \/ \E update \in Updates, nodes \in SUBSET Node, edges \in SUBSET Edge,
        owners \in SUBSET Path : Publish(update, nodes, edges, owners)
  \/ \E v \in versions : Rollback(v)
  \/ \E v \in versions : Prune(v)

Spec == Init /\ [][Next]_storeVars
-----------------------------------------------------------------------------
(* Invariants *)

(* Versions are numbered without gaps, whatever mix of publications,       *)
(* rollbacks and prunings led here.                                        *)
ContiguousVersions ==
  versions # {} => \E lo, hi \in 1 .. MaxVersion : lo <= hi /\ versions = lo .. hi

(* The contributions of one path have disjoint validity intervals: no      *)
(* version shows two contributions of a file, and rebasing or inserting    *)
(* never meets the primary key (workspace, source_path, valid_from).       *)
Disjoint(table) ==
  \A r, s \in table :
    r.path = s.path /\ r # s =>
      \/ r.to # NULL /\ r.to < s.from
      \/ s.to # NULL /\ s.to < r.from

DisjointIntervals == Disjoint(rows)

(* Every stored interval lies within the retained history, and is closed   *)
(* only if a later version exists: what pruning and rolling back leave     *)
(* behind is reachable, and a contribution visible in the newest version   *)
(* is open, so that the next publication carries it over.                  *)
Within(table, history, newest) ==
  \A r \in table :
    /\ r.from \in history
    /\ r.to # NULL => /\ r.to \in history
                      /\ r.from <= r.to
                      /\ r.to < newest

IntervalsWithinHistory == Within(rows, versions, CurrentVersion)

(* No workspace fact outlives its version. *)
WorkspaceFactsWithinHistory ==
  /\ \A n \in workspaceNodes : n.version \in versions
  /\ \A e \in workspaceEdges : e.version \in versions

(* retainedGraphVersions bounds the history, also when versions are        *)
(* numbered again after a rollback.                                        *)
RetentionLimit ==
  \A v, w \in versions : w - v < Retained

(* The tables are sound, whatever mix of publications, rollbacks and       *)
(* prunings led to them; the conjunction the proofs are about.             *)
StoreInv ==
  /\ TypeOK
  /\ ContiguousVersions
  /\ DisjointIntervals
  /\ IntervalsWithinHistory
  /\ WorkspaceFactsWithinHistory
  /\ RetentionLimit
-----------------------------------------------------------------------------
(* Action properties *)

(* A version that survives a step shows the same graph after it: no        *)
(* publication, rollback or pruning (nor the retention inside a            *)
(* publication) changes what a reader of that version sees.                *)
SnapshotsImmutable ==
  [][\A v \in versions \cap versions' : GraphAt(v)' = GraphAt(v)]_storeVars

(* Once OpenSnapshot has reported a version as pruned it never reports     *)
(* anything else: numbers below the retained history are not used again.   *)
PrunedVersionsStayPruned ==
  [][\A v \in 1 .. MaxVersion :
       OpenSnapshot(v) = "pruned" => OpenSnapshot(v)' = "pruned"]_storeVars
-----------------------------------------------------------------------------
(* What sqlite_test.go:1041-1047 expects of a store after a rollback (and  *)
(* of every store after pruning): the next publication is accepted.  It is *)
(* refused when the retention boundary it computes is not retained.        *)
NextPublicationAccepted ==
  LET v == CurrentVersion + 1 IN
  v > Retained => RetentionBoundary(v) \in versions \cup {v}

(* Refinement: reading each retained version gives the abstract history.   *)
History == INSTANCE VersionedGraph
  WITH graphs <- [v \in versions |-> GraphAt(v)]

(* The tables implement the storage contract: every step publishes one     *)
(* complete version, discards one end of the history, or does nothing.     *)
ImplementsHistory == History!Spec
=============================================================================
