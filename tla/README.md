# A TLA+ model of agent-wayfinder

agent-wayfinder indexes a workspace of Go, JavaScript and TypeScript sources
into a versioned graph of declarations and their relations, keeps that graph
current while files change, and answers bounded queries over it. This
directory models the parts of the program that keep state or run concurrently,
checks them with TLC on small instances, and proves with TLAPS, for all values of
the constants, the safety of the store, of sessions, of the preparation of a
publication, of the pipeline, of incremental updates, of the manager and of the
server.

`PROJECT.json` maps every definition to the source lines it translates, and lists
the runs, a mutant for each property, the hazards, the findings and the theorems.

- [Inventory](#inventory)
- [Modules and their correspondence to the code](#modules-and-their-correspondence-to-the-code)
- [Runs](#runs)
- [Findings](#findings)
- [Fairness](#fairness)
- [Proofs](#proofs)
- [What is left out](#what-is-left-out)
- [Plan](#plan)

## Inventory

| Component | State it keeps | Operations | Hard behaviour |
|---|---|---|---|
| Versioned graph store (`storage/sqlite/sqlite.go`, contract in `storage/storage.go`) | `graph_versions`; ten contribution tables whose records carry a validity interval (`valid_from_version`, `valid_to_version`); `workspace_nodes`, `workspace_edges` copied per version | `Publish`, `Rollback`, `Prune`, `OpenSnapshot`, retention inside every publication | interval arithmetic at the boundaries; version numbers used again after a rollback; a pruning boundary that is gone |
| Contribution sessions (same file) | one long write transaction, a row batch, the temporary table of staged sources, the flags of the session object | `BeginContributionSession`, `StageSource`, `WriteContribution`, `SealContributions`, `ReplaceContributionDependencies`, `WriteWorkspaceFacts`, `SealWorkspaceFacts`, `Commit`, `Rollback` | failure of any step; cancellation that ends the transaction behind an open session; reads that must see what is still batched |
| Projection cache (same file) | entries per (workspace, version), their order and bytes | `ResolverProjections`, `cacheResolverProjections`, `invalidateWorkspaceCaches` | multi-statement reads outside a transaction, invalidation after the commit, eviction at the byte budget |
| Initial index pipeline (`index/initial_pipeline.go`) | two bounded channels, a session, a cancellable context, the errors met so far | discovery producer, extraction workers, the goroutine that closes the results, the consumer | full channels, cancellation, results in any order, which error is reported |
| Incremental updates (`index/index.go`) | nothing of its own between calls; works on a snapshot, the disk and the store | `PublishBatch`, `Index` | files edited while they are read, another process that publishes meanwhile, what depends on what |
| Indexer manager (`indexer/queue.go`, `lifecycle.go`) | per workspace a queue and its index, two timers, flags | `Start`, `Enqueue`, `publishPending`, `reconcileWorkspace`, `Stop` | timer callbacks that outlive their worker, retries, calls made outside the lock |
| Indexer server (`indexer/control.go`, `coordinator.go`, `filelock_unix.go`, the indexer commands of `cmd/agent-wayfinder/main.go`) | a lock file, a socket file, a listener with its backlog | `Serve`, `handle`, `Request`, `runIndexerStart`, `runIndexerStop`, `runIndexerStatus` | crashes, the order in which a server lets go of its files, requests without a deadline |
| Graph queries (`query/*.go`, `Traverse` and `Explain` of the store) | none; each request is a sequence of statements over one snapshot | `Traverse`, `LookupTermMatches`, `FindPathSnapshot`, `Explain` | node and depth limits at their edges, rows that vanish between two statements |
| Publication preparation (`prepareContributions`, `storePreparedPublication` of the store) | four bounded channels, tokens for a window of contributions, a map of early results, a row batch | `Publish` from the first contribution to the commit | goroutines that wait for one another, results in any order, failure and cancellation at any point |
| Workspace discovery (`workspace/discovery.go`) | none; a walk of the file system | `Discover`, `DiscoverStream` | nested `.gitignore` files, negated patterns, nested projects, orders by name |
| Resolution (`extractors/*/resolver.go`, the page loops of `index.go` and `initial_pipeline.go`) | none between calls | `ResolvePage`, `Resolve`, `ResolverTarget`, `ResolverPackagePage` | pages and their cursor, sources of a batch over those of a snapshot, deletions, re-exports |
| Extraction, contracts, command line, benchmarks | none that outlives a call | | parsing and formatting |

How they interact. The manager's queue hands batches of changed paths to
`PublishBatch`, which reads files, resolves them against a snapshot and calls
the store's publication. A full `Index` runs the pipeline, which writes through
one contribution session and commits one version. Resolvers read projections in
pages (`ResolverProjectionPage`), which are not cached; `ResolverProjections`, which
reads them all through the cache, is offered by the store to any number of
goroutines, and in the repository only tests call it. Queries read snapshots while all of this goes on, from the
same or from another process; SQLite's write lock is the only thing that orders
processes, and `Manager.mu`, `projectionMu` and the channels are what orders the
goroutines of one.

What makes each part correct, in the words of the properties checked:

- **Store**: versions are numbered without gaps and at most `Retained` of them
  are kept; the intervals of one file are disjoint and lie within the history; a
  surviving version never changes; a pruned version stays pruned.
- **Session**: readers see all of it or nothing; what the resolvers read after
  sealing is what is published; no state of one session leaks into another.
- **Cache**: byte counter and budget hold; an entry is the projection of its version.
- **Pipeline**: it ends; it commits all sources or none; it reports the earliest
  extraction failure, whatever the schedule.
- **Manager**: one publication at a time; accepted paths are neither lost nor
  forgotten; reconciliation goes on; `Stop` returns.
- **Incremental updates**: a path with no outstanding notification is stored as
  it is on disk; recorded dependencies are honoured.
- **Server**: whoever serves can be reached; crashes leave no obstacle; every command returns.
- **Preparation**: a publication is written in the order of the update and as a
  whole, or not at all; the window of contributions in flight holds; every
  goroutine ends.
- **Discovery and resolution**: the ignore rules decide which files are sources;
  every source of a job is resolved once; a batch resolves what a full index
  would; pages find no edge that resolution of the whole would not.
- **Queries**: limits are kept and truncation is never silent; paths are
  shortest; explanations are complete; requests end.

## Modules and their correspondence to the code

| Module | Models | Extends or instantiates |
|---|---|---|
| `VersionedGraph` | the storage contract: a history of immutable versions | |
| `GraphStore` | the versioned tables of one workspace | instantiates `VersionedGraph` |
| `ContributionSession` | sessions, composed with the other writers of the store | extends `GraphStore` |
| `GraphStoreProofs` | theorems about `GraphStore` | extends `GraphStore`, `TLAPS` |
| `ContributionSessionProofs` | theorems about `ContributionSession` | extends it and `GraphStoreProofs` |
| `PublicationPreparationProofs` | theorems about `PublicationPreparation` | extends it and `GraphStoreProofs` |
| `ProjectionCacheProofs`, `IndexPipelineProofs`, `IncrementalIndexProofs`, `GraphQueryProofs` | theorems about these modules | each extends the module it is named after |
| `IndexerProofs` | theorems about the manager and about the servers around it | extends `IndexerManager` and `IndexerServer` |
| `PublicationPreparation` | the goroutines inside one publication | extends `GraphStore` |
| `ProjectionCache` | the resolver projection cache | |
| `IndexPipeline` | the initial index pipeline | |
| `IncrementalIndex` | `PublishBatch` against edits and `Index` | |
| `WorkspaceDiscovery` | which files are sources, and whose (operators) | |
| `ModuleResolution` | TypeScript and JavaScript resolvers (operators) | |
| `GoResolution` | the Go resolver (operators) | |
| `WorkspaceResolution` | full indexes and batches by group and page | extends the three above |
| `IndexerManager` | queue, timers, lifecycle | |
| `IndexerServer` | server processes and commands | |
| `GraphQuery` | walks, paths and explanations | |
| `MC*` | small instances of these for TLC | each extends the module it is named after |

Operators whose name ends in an underscore and a word (`CurrentVersion_Count`,
`Commit_KeepsSources`) are deliberately wrong variants of the definition that
follows them. No specification uses them; they exist so that every property can
be shown to fail when the code has a plausible bug.

### GraphStore and VersionedGraph

`rows` holds one record per contribution and interval. The code keeps it in ten
tables (`contributionTables`) whose statements differ in their columns only: all
are opened, closed, reopened, rebased and deleted by the same loops. `Publish`
closes what it replaces, inserts the new records, carries workspace edges over
and records the version; `RecordVersion` includes retention, because the code
prunes in the same transaction. `Rollback` deletes later records and reopens
earlier ones. `Prune` moves the start of intervals to the boundary and deletes
the rest. A deletion of a file is the publication of an empty contribution, one of the
`Facts`. Each operation is one step: the code opens write transactions with
`_txlock=immediate`, and a failed one is rolled back, which is no step.

`VersionedGraph` has no intervals: its state is a function from version to graph.
`ImplementsHistory` is the refinement, with `graphs` mapped to what each retained
version shows (`GraphAt`).

### ContributionSession

`session` is the Go object and `tx` what its transaction sees; `ContextCancelled`
separates the two, as `database/sql` does when the context of `BeginTx` ends.
Each method is an action whose guards are the method's checks; any error inside
a method is `Fail`, which all of them share (the code rolls back and closes).
`StoreOperation` lets every action of `GraphStore` happen when no transaction
holds the write lock. When the row batch is flushed depends on byte and row
limits; the model lets it be flushed before, after or not at all with each row
(`Flushes`). The temporary table is per connection and the store uses one.

### PublicationPreparation

What `GraphStore` takes as the step `Publish`, goroutine by goroutine. The feeder
takes a token from `released` for every index it hands out, a worker prepares it
and sends it to `results`, a closer closes `results` when the workers are gone,
and the writer keeps early results in `pending`, adds those whose turn it is to
`batch`, flushes that at any time (the limit is one of SQL variables) and gives a
token back. Jobs have no buffer, so that handing one over is one step. The
context ends when the caller's does or when the writer cancels; a worker that
sees it may send the context's error or its result. Nothing outside sees the
transaction `tx` before `Commit`, and `PublishesExactlyTheRequest` says that the
step that changes the store is `GraphStore`'s `Publish` of the request.

### ProjectionCache

A reader opens a snapshot, looks in the cache, reads the sources, reads the
facts, and stores the result: five steps. A writer commits, then invalidates:
two. The store is reduced to the content of each version, and what a reader sees
of a version that is gone follows from the intervals of `GraphStore`.
`projections` is the map of one workspace. The insertion counter only tells which
entry is oldest, so an insertion numbers the entries it keeps afresh, from 1; the
eviction loop is the choice of the oldest entries that have to go. `undisturbed` is
a history field. The bytes of entries are counted as pairs of an entry and an offset
in it (`Held`), whose number is the sum that `cacheResolverProjections` keeps.

### IndexPipeline

The four kinds of goroutine are four groups of actions over two bounded
sequences and the flags that say they are closed. `select` with a cancelled
context is a choice. Of the session only what the pipeline observes remains
(open or not, staged, written). Sealing, resolving and committing, which follow
in one goroutine after all others are gone (`CommittedIsComplete`), are the
single step `Finish`.

### IncrementalIndex

A file is the files it imports and the surfaces it exports. A batch discovers,
opens a snapshot, extracts its files one at a time, selects affected sources,
resolves and publishes, either at once or through a session when the batch
exceeds a page; which of the two is left open, since the page size is. A full
`Index` by another process holds the write lock from the start of its session.
Edits happen at any moment and each is notified. `overlapped` is history: a batch
was published over a version newer than the snapshot it resolved against, or with
new surfaces of a source that it read only because it was affected (`Overtaken`);
after either, edges may be older than the contributions they lead to until the next
full index.

### WorkspaceDiscovery, ModuleResolution, GoResolution, WorkspaceResolution

The first three are operators over values. A tree is the files, manifests and
rules on disk; `DiscoveredSources` and `MostSpecificRoot` are `DiscoverStream`.
What a pattern matches is the matching library's business: a pattern comes with
the directories and files it matches. What an extractor found in a file is a
record (surfaces, module references with their bindings, symbol references; for
Go the types, methods, functions, imports and calls). Each resolver is there
twice, as the code has it: by page (`ResolveModulePage`, `ResolveGoPage`), which
asks for targets one at a time, and as a whole (`ResolveModules`, `ResolveGo`),
which follows re-exports in rounds.

`WorkspaceResolution` runs them. A job discovers, groups the sources by project
and language, lists the rows of each group page by page and resolves those in its
sources, then those that no page listed, and publishes. The full index and the
batch are one machine here: a full index stages what it read and lists that, a
batch lists the newest version and lets its own sources hide it. `Validate` fails
the job when an edge joins declarations that the vocabulary does not allow.
Edits happen between jobs (edits during one are `IncrementalIndex`), except those
of `go.mod`, which a full index reads for every page and a batch for every group.

The properties compare the code with definitions that do not mention pages,
orders or overrides: `GitIgnores` and `Deepest` for discovery, a fresh resolution
of what is published for a batch, the whole-project resolvers for a full index.
They name what they except, and each exception was needed:

- a file whose project changed may be resolved under both (`Moved`);
- a batch still finds what it deletes, and a Go package lacks a file that is new
  in the batch (`Overlooked`);
- pages follow no re-export and tell Go packages of one name in two directories
  apart, which the whole-project resolvers do not (`PagesSuffice`);
- a `go.mod` edited during a job is seen by a part of it (`disturbed`);
- a `.gitignore` in a directory that sorts before `.` is applied before the
  root's (`RootAppliedFirst`), and a project directory of one letter does not
  count as more specific than the root (`OneLetter`).

### IndexerManager

`worker` is the entry of `manager.workers`; `callback` says what became of each
`time.AfterFunc`. Sections under `Manager.mu` are single steps, the calls of
publisher and reconciler lie between two. A callback knows only the workspace, so
one that outlives its worker acts on the next. The reconciler is configured in the
model; without one the code arms no reconcile timer, which is the model without
these callbacks. `accepted` (taken by `Enqueue` and not yet published) and
`disarmed` (a `Stop` stopped the timers and then could not release the lock) are
history variables.

### IndexerServer

`flock` and Unix sockets are external and modelled from how they are used: the
system drops the lock and the connections of a dead process and leaves the socket
file. `endpoint` says whose listener the file belongs to. A server is a program
counter over `Serve` and its deferred calls in their order; a command is one over
`Request` and the polling of `start`. `reply` records who answered.

### GraphQuery

Nodes are numbers in the order of their IDs and edges a sequence in key order, as
the `ORDER BY` clauses have them. `Traverse`, `shortestPath` and `Explain` are
step by step, one statement each, and `shortestPath` edge by edge (`SearchNode`,
`SearchEdge`) and then back from the target along the predecessors (`TraceBack`); all
lookups of a request are one step. The edges a loop has yet to visit are a set from
which `First` takes them in key order.
How matches are ranked is given by the constants `Exact` and `Broad`. Between any
two statements a row in `Unstable` may vanish or come back, which is what pruning
or rolling back during a request looks like. The reference definitions
(`Within`, `Connected`) speak of chains of edges (`Chains`) and of sets closed under
edges, and know nothing of frontiers or limits. `FactsWithin` is the same for the
facts a walk has gathered.

## Runs

Twelve runs. Deadlock is checked unless the cfg says otherwise: the pipeline runs,
`publication_preparation`, `graph_query`, `workspace_resolution` and the
incremental runs are of programs that end, or whose edits or versions are bounded.

| Run | Instance | Shows |
|---|---|---|
| `contribution_session` | 2 paths, 2 facts, dependencies none or all, `Retained` 2, `MaxVersion` 3, symmetric; 87 000 states | the tables stay sound and implement `VersionedGraph` while sessions fail, are cancelled, commit, and alternate with other writers; sealed reads are complete and are what is published |
| `store_wedge` | 1 path, `Retained` 3, `MaxVersion` 6 | a finding, see below |
| `index_pipeline` | 2 workers, up to 3 sources, channels of capacity 1 | termination, all or nothing, earliest failure |
| `pipeline_precedence` | the same | a finding |
| `indexer_queue` | 2 paths, 3 timers, 2 stoppers | the safety of the queue; accepted paths are published, reconciliation goes on, `Stop` returns |
| `projection_cache` | 1 reader, 2 writers, contents of size 1 and 2, budget 3, `Retained` 2, `MaxVersion` 3 | counter, budget, exactness of reads no rollback crosses |
| `publication_preparation` | 2 workers, queue depth 1 (a window of 4), requests of 5, 2 and no contributions, 2 versions | nothing is lost or reordered, the store changes by one `Publish` or not at all, every goroutine ends |
| `incremental_index` | 3 sources, each importing the one before, and an unsupported file, 2 surfaces, 3 edits, 4 versions; 3 million states | no edit is lost, recorded dependencies are honoured |
| `incremental_dependencies` | the same with 2 edits | a finding |
| `graph_query` | 4 nodes, all 128 sets of 7 possible edges, one node present or absent, 36 requests, one change of the snapshot per request; 500 000 states | the inductive invariant, limits, truncation, shortest paths, explanations, termination |
| `workspace_resolution` | pages of 2; 6 workspaces of modules with 2 edits or batches, 4 of Go packages, 480 combinations of ignore rules; 141 000 states | each source resolved once, batches match a fresh index, pages agree with the whole, discovery follows the rules, the loops end |
| `indexer_server` | 2 servers, 2 commands, backlog 2; 85 000 states | reachability, crash recovery, commands return, a stop takes effect |

Why the bounds are enough for the cases that matter:

- `Retained` 2 with three versions makes retention prune inside a publication,
  and leaves room for a rollback and a second use of a number. Two paths tell
  replaced from carried over, staged from missing. Two facts tell old from new.
- `Node` is empty in `contribution_session`: workspace facts multiply the states
  beyond what can be enumerated, so no resolver fact is ever written there. What
  is said about them (`WorkspaceFactsWithinHistory`, and the nodes and edges in
  `SnapshotsImmutable`) rests on the proofs, which have no such bound.
- Three sources that import one another in a chain are the fewest in which a source is
  read because it is affected and has importers itself; three edits allow one before,
  one during and one after a batch.
- Channels of capacity 1 and three sources fill both channels while a worker
  holds a result; two workers reorder results.
- Three timers allow a publication, a reconciliation and one callback left over
  from a stopped worker at the same time.
- A budget of 3 with sizes 1 and 2 makes some insertions fit, some evict one entry
  and some evict several. One reader is a restriction of the run, which nothing in
  the code justifies: `ResolverProjections` locks `projectionMu` because several
  goroutines may call it, two that miss the same version make the byte counter drift
  (listed under the hazards), and `BudgetHolds` is then false. The run shows that
  writers alone, whatever they invalidate, do not make it false; the theorems about
  the cache are about any number of readers, and say which meeting of readers does.
- Five contributions are one more than the window of two workers with a queue of
  one holds, so that the feeder waits for a token while all channels are full; the
  second request updates stored paths in another order, the third has nothing to
  prepare.
- Pages of 2 with up to four files in a group give a full page, a last partial page
  and the empty one. The module workspaces have `./b` as a file, as a directory with
  an index file and as a barrel, next to a file that extends, re-exports or requires
  it; a `go.mod` that appears in `src` moves its files to another project.
  Visits of a source are counted up to `MaxVisits` = 3, one more than is ever
  allowed. The ignore workspaces have one or two patterns in the root's `.gitignore`,
  one in a nested one, with and without negation, on a directory or on files.
- The edges of `graph_query` include cycles, a shortcut, a node outside the project
  and, with node 3 absent, dangling edges; the limits lie below, at and above the
  number of reachable nodes.
- Two servers suffice for a predecessor and a successor that overlap; a backlog
  of two holds a waiting live connection behind a dead one.

## Findings

Three runs are expected to find a violation; each states what a test of the
repository says and the code does not do.

1. **`store_wedge`** (`storage/sqlite/sqlite.go:302`). A publication of version
   v > 25 prunes at v - 24 (25 versions are retained), and pruning refuses a boundary that is not recorded.
   After a prune or a rollback has removed that version every later publication
   fails, for good.
2. **`pipeline_precedence`** (`index/initial_pipeline.go:309`). A failing write
   closes the session under the producer, whose "session is closed" is then
   returned instead of the extraction failure that a test wants to see first.
3. **`incremental_dependencies`** (`index/index.go:576`). A batch with an importer
   alone records no dependency on the file it imports; a later change of that
   file leaves the importer with an edge to a surface that is gone.

Other behaviour that reviewers of the code should know of, modelled and named as
an exception of the property it concerns, or left out of the model:

- A read of projections that straddles a rollback and the next publication caches
  those of a version that is gone under the number of the version that took its
  place (`storage/sqlite/sqlite.go:1649`, excepted by `UndisturbedReadsAreExact`).
- Which sources are affected is decided once. Let `c` import `b` and `b` import `a`. A
  batch with a change of `a` reads `b` because it is affected; if `b` was edited before
  that, its new surfaces are published, and the batch with the change of `b` then finds
  them stored already and does not resolve `c` again (`index/index.go:190`, excepted by
  `RecordedDependenciesAreFresh`). `c` keeps its edges to surfaces that are gone until
  it changes or the next full index.
- The exceptions of discovery and resolution listed above. Two of them disagree
  with the general form of a test: `workspace/discovery_test.go:367` (a nested
  `.gitignore` restores a file) and `:73` (sources go to the most specific root).
- A nested Go module never has its imports resolved: the directory an import denotes
  is counted from the project and looked up from the workspace
  (`extractors/go/resolver.go:290`; the model does the same).
- The page of a Go package is read with `LIKE`, for which `_` in a directory's name
  matches any character (`storage/sqlite/sqlite.go:1774`; not modelled).
- Relations within a Go package record no dependency (`index/index.go:594`).

## Fairness

Safety needs none; these specifications state fairness for their liveness properties.

- `IndexPipeline`: weak fairness of the producer, each worker, the closer and the
  consumer. These are goroutines, the Go runtime schedules every one that can
  run, and extraction and statements are taken to end. Cancellation by the caller
  is never required.
- `IndexerManager`: weak fairness of timers (an armed timer fires), of callbacks
  and of `Stop` (they get the mutex, publisher and reconciler return). Strong
  fairness of a successful publication: one that is retried for ever succeeds in
  the end, without which no delivery can be promised. `AcceptedPathsGetPublished`
  excepts a worker left without timers by a failed `Stop`; `StopReturns` excepts
  other callers that never stop calling `Stop`.
- `IndexerServer`: weak fairness of living processes and of deadlines; a client that
  lives sends its request. Nobody is required to die or to time out when idle.
  Launching a server is strongly fair because the model has a fixed number of
  process slots for which launches compete; the operating system has no such limit.
- `PublicationPreparation`: weak fairness of the feeder, each worker, the closer and
  the writer, for the same reason as in the pipeline; statements return.
- `WorkspaceResolution`: weak fairness of the steps of a job, one goroutine.
- `GraphQuery`: weak fairness of the request's own steps; changes of the snapshot
  are not required.

## Proofs

Eight modules hold theorems. Each safety theorem has the same shape: an invariant
that is inductive, one lemma per action that says the action keeps it, and the
property as a consequence. The inductive invariants are checked by the runs too,
except those of manager and cache, which were checked on the same instances and are
listed in their runs by the properties they imply.
The theorems hold for any sets of paths, nodes, workers, timers and processes,
finite or not (the nodes of a queried graph are finitely many), and rest on the named
assumptions of the modules alone:

| Assumption | Says | Why the code justifies it |
|---|---|---|
| `StoreAssumption` | `Retained` is positive, `MaxVersion` a natural number, `NULL` not a version | `retainedGraphVersions` is 25 |
| `PreparationAssumption` | workers and queue depth are positive | `GOMAXPROCS`, `maximumPublicationWorkers` and `publicationQueueDepth` are |
| `RequestAssumption` | an update has at most one contribution of a path | `encodeContributions` refuses any other before it starts anything |
| `PipelineAssumption` | some worker, channels of capacity at least 1 | the code takes `max(1, GOMAXPROCS)` workers and a constant capacity |
| `IncrementalAssumption` | imports name sources, exports surfaces; no file is a deletion | a deletion has no project |
| `CacheAssumption` | sizes and budget are natural numbers, `Retained` is positive | lengths of strings; `OpenWithOptions` refuses a negative budget; `retainedGraphVersions` is 25 |
| `QueryAssumption` | nodes are finitely many numbers but 0, edges a sequence over them, lookups return nodes, at least one seed per term | nodes stand for the rows of a table in the order of their IDs; `maxSeedsPerTerm` is a positive constant; `Traverse` and `FindPathSnapshot` refuse a request with a negative depth or no nodes |
| `ManagerAssumption`, `ServerAssumption` | identities are distinct; a positive backlog | |

| Module | Theorem | States |
|---|---|---|
| `GraphStoreProofs` | `StoreInvariant` | `[]StoreInv`: contiguous versions, disjoint intervals within the history, retention |
| | `PublishedVersionsImmutable`, `PrunedForever` | `SnapshotsImmutable`, `PrunedVersionsStayPruned` |
| | `StoreImplementsHistory` | the tables implement `VersionedGraph` |
| `ContributionSessionProofs` | `SessionInvariant`, `SessionStoreInvariant` | `[]SessionInv` and `[]StoreInv` while sessions run |
| | `SessionImplementsHistory`, `SessionVersionsImmutable`, `SessionPrunedForever` | the refinement and both action properties with sessions among the writers |
| | `ResolversReadPublishedFacts` | what resolvers read after sealing is what the commit publishes |
| `PublicationPreparationProofs` | `PreparationInvariant`, `WindowAlwaysHolds`, `CollectionAlwaysComplete` | the window holds; when the writer has collected everything, everything is in the transaction |
| | `PreparedPublicationIsExact` | the step that changes the store is `Publish` of the request |
| | `PreparationImplementsStore` | goroutines and all, a publication implements `GraphStore` |
| `ProjectionCacheProofs` | `CacheInvariant`, `UndisturbedReadsStayExact` | a read that no rollback crosses leaves an exact entry, for any number of readers |
| | `CounterNeverAhead` | the byte counter is within the budget and never above the bytes held, for any number of readers |
| | `OnlyMeetingReadsDrift` | only a read that stores a version another read has stored in the meantime lets the counter fall behind, by the bytes of that entry |
| | `BudgetAlwaysHolds` | counter and budget are exact as long as no two reads of one version are under way at once |
| `IndexPipelineProofs` | `PipelineInvariant`, `EarliestFailureIsReported`, `CommitIsComplete` | whatever the schedule, the first failing source is the one reported, and a commit has all sources |
| `IncrementalIndexProofs` | `IncrementalInvariant`, `QuietPathsStayCurrent`, `DependenciesStayFresh` | no edit is lost; recorded dependencies are honoured |
| `IndexerProofs` | `ManagerInvariant`, `QueueInvariant`, `PublicationsNeverOverlap`, `NoAcceptedPathIsLost`, `WaitingWorkIsScheduled` | the safety of queue, timers and `Stop` |
| | `ServerInvariant`, `SocketAlwaysFollowsLock` | a server that accepts owns lock and socket |
| `GraphQueryProofs` | `QueryInvariant` | what walk, search and explanation keep between two statements |
| | `WalksAreExact`, `PathsAreShortest`, `ExplanationsAreExact` | limits are kept, truncation is never silent, paths are shortest and found, explanations complete |

### Store

`StoreInv` is inductive, and its parts need one another. Disjointness after a
publication needs that closed intervals end before the newest version and that
open ones are closed just before the new one, which is `IntervalsWithinHistory`;
reopening on a rollback keeps intervals disjoint only because at most one interval
of a path reaches the version rolled back to; rebasing on pruning moves several
starts to one boundary, and only disjointness says that at most one of them
belongs to a path. That the retained versions are one run of numbers turns
`CurrentVersion`, a `CHOOSE`, into the upper end of that run, and turns the
retention boundary into a member of it. `RetentionLimit` is what makes the
history after a publication short enough.

The argument goes from tables to steps. `StoreSound`, `PruneSound` and
`RollbackSound` say what the three groups of statements do to a table that is
sound for a run of versions. `EndsOfRun`, `VersionsAreRun` and `NextRun` are about
version numbers. `RecordVersionSound` is the common end of all publications;
`PublishSound`, `RollbackKeepsInv` and `PruneKeepsInv` are one per action, and
`NextSound` puts them together. For immutability, `StoreKeepsOlder`,
`PruneKeepsNewer`, `RollbackKeepsOlder` and `RecordVersionKeepsOlder` say that a
table shows the same contributions at the versions that survive, and
`StepKeepsGraphs` concludes for every step.

For the refinement a publication must also show the right graph at its own
version: `StoreShows` says what the tables show there, path by path, and
`PublishRefines`, `RollbackRefines` and `PruneRefines` turn each action into the
abstract action of the same name.

### Sessions

`SessionInv` relates the transaction to the store beneath it, which no other writer
changes while the transaction lives. `SoundTransaction` is the soundness of tables
for a history that has one more version than the committed one;
`TransactionKeepsHistory` says that the transaction shows the committed versions
unchanged, which is what a commit needs for immutability; `SourcesMatchRows` and
`NoStaleStagedSources` tie the staged sources, the row batch and the records
together. The close-then-insert of `WriteContribution` is split into `CloseSound` and
`NewRecordSound`, because rows may be flushed between the two. `CommitSound` is the
only step at which the two sides meet.

### Preparation

`PreparationInv` says where each contribution is. `HandedOutOnce`: every index below
the feeder's is written, or in exactly one of the places a contribution passes
through, and nothing at or above it is anywhere; this needs that the writer's next
index never passes the feeder's. `TokensBounded` counts tokens and indexes together,
from which `WindowHolds` follows. `TransactionInOrder` says that the records and the
batch are those of the first contributions of the update, in its order.
`WorkersInPlace` and `FeederInPlace` bound the program counters, `FailuresCancel`
that nobody stops without a reason. Distinct paths are needed: a path written twice
in one publication would have two open records. A first version closes nothing,
which is right because `StoreInv` makes the tables empty then.
`PreparationImplementsStore` is a refinement by the identity: all steps but `Commit`
leave the store alone, and `Commit` is `Publish`.

### Cache

Whether an entry is exact is decided long before it is stored, and it may go wrong
long after. `ReadsAreOfOneVersion` covers the time before: a read that no rollback
crosses is of a version at or below the newest one, and what it has read is that
version's, unless retention or a pruning has removed it. A version that was removed
from below never comes back, and a publication takes the number above the newest, so
none of the writers but `Rollback` can turn such a read into one of another version.
`LeftoversAreDropped` covers the time after: an entry above the newest version is
about to be dropped by the writer that rolled back. A publication may use its number
again before that happens, and then drops it itself; the entry is thus exempt until
it is gone. `CommitKeeps` is the common part of the three commits: what a commit takes
from the top or adds must be among what it drops. `InsertionKeepsTheRest` says that
eviction and renumbering change no value, whichever entries go.

The budget is a statement about a sum over a map, which would be an induction. As the
cardinality of a set of pairs the sum is additive (`BytesAdd`), and no induction is
needed. `EvictionEnds` is the heart: the oldest entries that go are the fewest that
make room, taken as a least number, so that the loop stops with the counter
within the budget or with no entry left. That the counter is exact needs
`MissesStayMissed`, that a version under way is not in the cache; two reads of one
version break it, the second then subtracts the entry of the first twice, and the
counter falls behind. `BudgetAlwaysHolds` has this as its hypothesis,
`ReadsAreDistinct`, without which it is false. Two theorems need no hypothesis.
`CounterNeverAhead` says that the counter errs in one direction only.
`OnlyMeetingReadsDrift` follows the difference between the bytes held and the
counter, `Drift`, through every step (`NextCounts`): all keep it but an insertion
that finds an entry of its version and evicts it as well, which adds the bytes of
that entry. Since no step lowers it, the drift of one such meeting lasts until the
store is closed.

### Pipeline

`JobsTakenInOrder` says that some number of sources, in order, have been taken from
the channel, and that each of these is with a worker, among the results, written, or
accounted for by a failure that is at most as late (`TakenUpTo`). It is an order of
taking, not of finishing: that is what makes the earliest failure well defined while
results arrive in any order. A worker or the producer that stops early could leave an
earlier failure undiscovered; `StopsHaveACause` says that the cause of such a stop is
itself a failure that will be received. `ClosedInOrder` makes the end of the results
imply that nothing is outstanding.

### Incremental updates

The argument is one about outstanding notifications: every value that was read, by a
batch (`BatchIsCurrent`) or by an index (`IndexIsCurrent`), is what is on disk unless
its path is queued, or is being worked on by a batch that will answer for it. An index
that a command started must not answer for the changes of a batch, one that the batch
itself started must, which is why `IndexIsCurrent` tells callers apart. The write lock
enters where a batch publishes: with an index under way, what the index read would be
older than what the batch stores.

For dependencies, `BatchIsComplete` says that the batch reads every changed source and
then every discovered one that depends on a changed surface, `SnapshotIsKnown` that a
batch with nothing published in between decided this on the newest version, and
`LeftOutIsFresh` concludes that a file left out depends on nothing whose surfaces
change. A dependent that was not discovered is gone or queued, which is the reason for
`Quiet` in the property. An earlier form of `RecordedDependenciesAreFresh`, without the
exception `Overtaken`, held with two sources; the attempt to prove it failed at a third
one, and TLC then found the behaviour described under the findings.

### Manager

The four properties are not inductive one by one: that no accepted path is lost
needs the queue to agree with its index, that work is scheduled needs the timers the
worker refers to to be alive (`TimerIsOnItsWay`), and both need that there is one
publication whose batch can be put back. `ManagerInv` is their conjunction with
`StoppedIsEmpty`. A queue is rebuilt without some elements by position (`ElementsAt`),
and what that returns is proved with a least counterexample (`LeastNumber`, from the
well-foundedness of the naturals) in place of an induction: `RankCounts` and
`RankReached` say that ranks are consecutive, `ElementsAtHolds` that no element is lost,
repeated or reordered.

### Server

`OwnersHoldLock` says which program counters hold the lock, `ConnectionsAreExclusive`
that a connection is in one backlog or with one server. `SocketFollowsLock` is kept by
the order in which `Serve` lets go: the listener closes, and removes its file, before
the lock is released, and a successor clears the path only under the lock.

### Queries

A walk may see the snapshot change, so `QueryInv` has two layers. `WalkStaysInBounds`
holds whatever happens: the node limit, edges with both their nodes, a boundary once a
node outside the scope is taken, and that a reported `node_limit` means a full walk.
`UndisturbedWalkIsByLevels` compares an undisturbed walk with the reference: frontier
and next level are the nodes at this and the next distance, and the facts lead to each
node on as few edges as the snapshot does, which is what lets a search over the facts
find shortest paths of the graph. `Closed` says that the walk has followed every edge
but those still pending or at the frontier; together with the roots this makes a walk
that reports nothing complete (`WithinConnected`). A walk at its node limit may still
have everything: `Unlimited` is the case in which all that is near fits, and there
`NoRoom`, a count of nodes, shows that the limit cost nothing.

For the search, `SearchIsBreadthFirst` and `QueueIsByDistance` say that the queue is
in the order of the distance and spans at most two levels, that a predecessor is one
edge closer than its node, and that whatever leads out of the reached nodes is still
queued. `BeyondFrontier` concludes that a node not reached yet lies beyond one still to
be searched, hence is farther than the node whose edges are being searched, which is
what a step that reaches it needs. `TrailIsShortest` counts
down: the first node of the trail is as much closer to the source as the trail is
long, so that at the source the path has no more edges than the distance.

Distances never occur as numbers: that a node is within `k` edges for one `k` and not
for a smaller is all the proofs use, which spares the induction that a distance
function would need. What chains of edges do is proved by cutting one at its first
node outside a set (`FirstNodeOff`), again a least number.

### Only model-checked

- Liveness (`PipelineTerminates`, `AcceptedPathsGetPublished`, `StopReturns` and the
  others), and all that rests on fairness or `ENABLED`, which the prover does not handle.
- The properties of `WorkspaceResolution`, whose operators fold over pages, rounds of
  re-exports and patterns: inductions over data, in modules with recursive operators.

## What is left out

- **Data**: names, texts, identifiers, metadata, digests, sizes and the encoding of
  contributions into rows. Paths, facts and contents are elements of small sets.
- **Failures that change nothing**: a store operation that fails is not a step.
- **Time**: durations, debouncing and retry delays. Any armed timer or deadline may
  pass at any moment, which includes every real timing.
- **Counters and status**: `QueuedPaths`, metrics, and the owner's metadata in the
  lock file.
- **Publication without sessions** (`resolveWorkspaceFacts`, `mergeSources`): `Index`
  takes it only with a store that offers no sessions, and the repository has none.
- **Concurrent jobs in `WorkspaceResolution`, several projects and languages in
  `IncrementalIndex`**: each question has its own module, since together they are
  out of reach of enumeration.
- **Extraction**: parsing with tree-sitter; the models start from what it yields. Files
  that re-export from themselves and interfaces that embed themselves are left out.
- **Package and alias specifiers of modules**: they need a file view, which
  `index.go` gives to neither language, so that the code never finds them.
- **Pattern matching** of ignore files and the columns behind `LIKE`.
- **Contracts, command line, benchmarks, test kit**: validation of single values,
  flags and formatting. The vocabulary of the module resolvers is modelled.
- **Torn or lost notifications**: every edit is notified. What happens without a
  notification is left to reconciliation, which the manager only schedules.
- In the command line, the manager that `indexer serve` creates has neither a
  publisher nor a reconciler; `PublishBatch` is reached from the `benchmark`
  command and `Index` from `index`. The models describe the packages as their
  interfaces offer them.

## Plan

The order was: the store and its contract, the session that writes it, the
pipeline that drives the session, the queue, the cache, incremental updates, the
server, the queries, the preparation of a publication, discovery and resolution.
All of these have a module and a run, and all have theorems but discovery with
resolution, whose properties are inductions over data. Left to prove:
that the pipeline's view of its session is one `ContributionSession` allows, which
would carry `ImplementsHistory` up to `Index`.

Workspace facts in the bounded run of sessions remain out of reach: they multiply
its states beyond what can be enumerated, and `publication_preparation` covers them
for single publications.
