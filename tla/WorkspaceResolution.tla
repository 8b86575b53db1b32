------------------------ MODULE WorkspaceResolution -------------------------
(***************************************************************************)
(* How the sources of a workspace are found, grouped and resolved page by  *)
(* page, by a full index (resolveProjectionPages of initial_pipeline.go)   *)
(* and by a batch of changes (resolveIncrementalWorkspaceFacts of          *)
(* index.go), on top of WorkspaceDiscovery, ModuleResolution and           *)
(* GoResolution.                                                           *)
(*                                                                         *)
(* One job runs at a time: what happens when several do, and when files    *)
(* change while they are read, is in IncrementalIndex and IndexPipeline.   *)
(* The two kinds of job are one here.  A job lists the rows of its base    *)
(* page by page and resolves those that are in its sources: a full index   *)
(* stages what it read, and so has its sources for a base; a batch lists   *)
(* the newest version.  A stored deletion has no project and is therefore  *)
(* never listed or found: a version holds the other rows only.             *)
(***************************************************************************)
EXTENDS WorkspaceDiscovery, ModuleResolution, GoResolution

CONSTANTS
  PathOrder,    \* the source files, in the order of their names as strings
  Absent,       \* no such file
  Contents(_),  \* the contents a file may be edited to have
  Modules(_),   \* the module paths that the go.mod of a directory may name,
                \* <<>> for no go.mod
  Workspaces,   \* the workspaces to begin with, each with its budget
  GroupOrder,   \* projects and languages, in the order of their keys as strings
  PageSize      \* resolverProjectionPageSize

ASSUME ResolutionAssumption ==
  /\ PageSize \in Nat \ {0}
  /\ \A i, j \in DOMAIN PathOrder : PathOrder[i] = PathOrder[j] => i = j

Path == ToSet(PathOrder)
Directory == ToSet(DirectoryOrder)

VARIABLES
  disk,       \* the contents of every file
  manifests,  \* the manifests other than go.mod
  module,     \* the module path that the go.mod of each directory names
  rules,      \* .gitignore files, .wayfinderignore and configured roots
  budget,     \* how many edits and batches are left
  stored,     \* the rows [project, content] of the newest version
  job         \* the full index or the batch that runs

vars == <<disk, manifests, module, rules, budget, stored, job>>

GoMod(dir) == [dir |-> dir, name |-> "go", ext |-> ".mod"]

Tree ==
  [files |-> {p \in Path : disk[p] # Absent},
   manifests |-> manifests \cup {GoMod(d) : d \in {e \in Directory : module[e] # <<>>}},
   configured |-> rules.configured, gitignores |-> rules.gitignores, ignore |-> rules.ignore]

NoRows == [p \in {} |-> Absent]

NoJob == [at |-> "idle", kind |-> "none", base |-> NoRows, sources |-> NoRows, deleted |-> {},
          todo |-> <<>>, after |-> 0, module |-> <<>>, processed |-> {},
          edges |-> {}, visits |-> [p \in Path |-> 0], disturbed |-> FALSE]

Init ==
  \E w \in Workspaces :
    /\ disk = w.disk
    /\ manifests = w.manifests
    /\ module = w.module
    /\ rules = [configured |-> w.configured, gitignores |-> w.gitignores, ignore |-> w.ignore]
    /\ budget = w.budget
    /\ stored = NoRows
    /\ job = NoJob
-----------------------------------------------------------------------------
(* The user edits a file, or a go.mod.  A job has read its files by now:   *)
(* an edit while it runs is like one after it, but for go.mod.             *)
Edit(p) ==
  /\ budget > 0 /\ job.at = "idle"
  /\ \E c \in (Contents(p) \cup {Absent}) \ {disk[p]} : disk' = [disk EXCEPT ![p] = c]
  /\ budget' = budget - 1
  /\ UNCHANGED <<manifests, module, rules, stored, job>>

EditGoMod(d) ==
  /\ budget > 0
  /\ \E m \in Modules(d) \ {module[d]} : module' = [module EXCEPT ![d] = m]
  /\ budget' = budget - 1
  /\ job' = IF job.at = "idle" THEN job ELSE [job EXCEPT !.disturbed = TRUE]
  /\ UNCHANGED <<disk, manifests, rules, stored>>
-----------------------------------------------------------------------------
(* Rows of a project and a language. *)
InGroup(rows, g) ==
  {p \in DOMAIN rows : rows[p].project = g.project /\ Language(p) = g.language}

ContentsOf(rows, paths) == [p \in paths |-> rows[p].content]

(* Every discovered source, with its project and its contents. *)
DiscoveredRows ==
  LET tree == Tree
      roots == ProjectRoots(tree)
  IN [p \in DiscoveredSources(tree) |->
        [project |-> MostSpecificRoot(roots, p), content |-> disk[p]]]

(* Only groups with a discovered source are resolved. *)
Groups(rows) == SelectSeq(GroupOrder, LAMBDA g : InGroup(rows, g) # {})

(* goResolverFileView: read by a full index for every page, by a batch for *)
(* every group.                                                            *)
GoModuleOf(project) == module[project]

ModuleAtStart(todo) == IF todo = <<>> THEN <<>> ELSE GoModuleOf(Head(todo).project)

Start(kind, base, sources, deleted, discovered) ==
  LET todo == Groups(discovered) IN
  job' = [NoJob EXCEPT !.at = "pages", !.kind = kind, !.base = base, !.sources = sources,
                       !.deleted = deleted, !.todo = todo, !.module = ModuleAtStart(todo)]

(* A full index resolves what it staged.  A workspace without sources is   *)
(* refused at first.                                                       *)
IndexStarts ==
  LET discovered == DiscoveredRows IN
  /\ job.at = "idle"
  /\ DOMAIN discovered # {} \/ DOMAIN stored # {}
  /\ Start("index", discovered, discovered, {}, discovered)
  /\ UNCHANGED <<disk, manifests, module, rules, budget, stored>>

(* A batch takes changed paths and those that depend on them: here any     *)
(* paths of files that are or were there.  Those that are not discovered   *)
(* are deletions.                                                          *)
BatchStarts ==
  LET discovered == DiscoveredRows IN
  /\ job.at = "idle" /\ DOMAIN stored # {}
  /\ budget > 0 /\ budget' = budget - 1
  /\ \E paths \in SUBSET (Tree.files \cup DOMAIN stored) \ {{}} :
       Start("batch", stored, Restrict(discovered, paths \cap DOMAIN discovered),
             paths \ DOMAIN discovered, discovered)
  /\ UNCHANGED <<disk, manifests, module, rules, stored>>
-----------------------------------------------------------------------------
Group == Head(job.todo)

Position(p) == CHOOSE i \in DOMAIN PathOrder : PathOrder[i] = p

NextRows(rows, from) ==
  LET listed == SelectSeq(SubSeq(PathOrder, from, Len(PathOrder)), LAMBDA p : p \in rows)
  IN SubSeq(listed, 1, IF Len(listed) < PageSize THEN Len(listed) ELSE PageSize)

(* A plausible bug: the page after a path begins with that path.           *)
ResolverProjectionPage_Inclusive(rows, after) ==
  NextRows(rows, IF after = 0 THEN 1 ELSE after)

(* ResolverProjectionPage: the next rows after a path. *)
ResolverProjectionPage(rows, after) == NextRows(rows, after + 1)

(* A plausible bug: the store is asked before the batch.                   *)
ResolverTargets_StoredFirst(base, sources, g) ==
  LET known == InGroup(base, g)
  IN [p \in known \cup InGroup(sources, g) |->
        IF p \in known THEN base[p].content ELSE sources[p].content]

(* snapshotResolverIndex.ResolverTarget: a source of the batch hides the   *)
(* stored row, a deletion hides nothing.                                   *)
ResolverTargets(base, sources, g) ==
  LET fresh == InGroup(sources, g)
  IN [p \in InGroup(base, g) \cup fresh |->
        IF p \in fresh THEN sources[p].content ELSE base[p].content]

(* snapshotResolverIndex.ResolverPackagePage: stored rows, brought up to   *)
(* date by the sources of the batch.                                       *)
ResolverPackages(base, sources, g) ==
  LET fresh == InGroup(sources, g)
  IN [p \in InGroup(base, g) |-> IF p \in fresh THEN sources[p].content ELSE base[p].content]

(* ResolvePage of the group's language: the edges of the files of a page.  *)
(* (A binding to a singleton set is evaluated once.)                       *)
ResolvePage(g, contents, base, sources, goModule) ==
  IF g.language = "go"
  THEN UNION {ResolveGoPage(p, contents[p], goModule, packages) :
              p \in DOMAIN contents, packages \in {ResolverPackages(base, sources, g)}}
  ELSE UNION {ResolveModulePage(g.language, p, contents[p], targets) :
              p \in DOMAIN contents, targets \in {ResolverTargets(base, sources, g)}}

PageEdges(paths) ==
  ResolvePage(Group, ContentsOf(job.sources, paths), job.base, job.sources,
              IF job.kind = "index" THEN GoModuleOf(Group.project) ELSE job.module)

(* Vocabulary.Validate: one edge that is not allowed fails the job. *)
Validate(edges) == Group.language # "go" => \A e \in edges : Allowed(Group.language, e)

(* How often a source was resolved, counted up to a bound. *)
MaxVisits == 3
OneMore(n) == IF n < MaxVisits THEN n + 1 ELSE n

Resolve(paths, next) ==
  \E edges \in {PageEdges(paths)} :
    job' = IF Validate(edges)
           THEN [next EXCEPT !.edges = @ \cup edges,
                             !.visits = [p \in Path |-> IF p \in paths THEN OneMore(@[p]) ELSE @[p]]]
           ELSE NoJob

(* One page: what is in the job's sources is resolved, even if it has      *)
(* another project by now; what was deleted is not.                        *)
TakePage ==
  /\ job.at = "pages" /\ job.todo # <<>>
  /\ \E page \in {ResolverProjectionPage(InGroup(job.base, Group), job.after)} :
       /\ page # <<>>
       /\ Resolve((ToSet(page) \cap DOMAIN job.sources) \ job.deleted,
                  [job EXCEPT !.after = Position(Last(page)),
                              !.processed = @ \cup ToSet(page)])
  /\ UNCHANGED <<disk, manifests, module, rules, budget, stored>>

(* A plausible bug: sources of the batch are resolved again after the      *)
(* pages that listed them.                                                 *)
RemainingSources_Again(g) == InGroup(job.sources, g) \ job.deleted

(* Sources of the group that no page listed. *)
RemainingSources(g) == (InGroup(job.sources, g) \ job.deleted) \ job.processed

(* After the empty page: each remaining source, then the next group. *)
EndGroup ==
  /\ job.at = "pages" /\ job.todo # <<>>
  /\ ResolverProjectionPage(InGroup(job.base, Group), job.after) = <<>>
  /\ Resolve(RemainingSources(Group),
             [job EXCEPT !.todo = Tail(@), !.after = 0, !.processed = {},
                         !.module = ModuleAtStart(Tail(job.todo))])
  /\ UNCHANGED <<disk, manifests, module, rules, budget, stored>>

AllResolved ==
  /\ job.at = "pages" /\ job.todo = <<>>
  /\ job' = [job EXCEPT !.at = "resolved"]
  /\ UNCHANGED <<disk, manifests, module, rules, budget, stored>>

(* What the newest version holds after a job. *)
AfterPublish(base, sources, deleted) ==
  [p \in (DOMAIN base \ deleted) \cup DOMAIN sources |->
     IF p \in DOMAIN sources THEN sources[p] ELSE base[p]]

Publish ==
  /\ job.at = "resolved"
  /\ stored' = AfterPublish(job.base, job.sources, job.deleted)
  /\ job' = NoJob
  /\ UNCHANGED <<disk, manifests, module, rules, budget>>

JobStep == TakePage \/ EndGroup \/ AllResolved \/ Publish

Next ==
  \/ \E p \in Path : Edit(p)
  \/ \E d \in Directory : EditGoMod(d)
  \/ IndexStarts
  \/ BatchStarts
  \/ JobStep

(* A job that was started is carried on. *)
Spec == Init /\ [][Next]_vars /\ WF_vars(JobStep)
-----------------------------------------------------------------------------
Batch == job.kind = "batch"

(* The project a batch finds for a source differs from the stored one. *)
Moved(p) == p \in DOMAIN job.base /\ job.base[p].project # job.sources[p].project

(* TakePage, EndGroup: whatever the pages hold, every source of a job is   *)
(* resolved exactly once and nothing else is.  A file that changes its     *)
(* project may be resolved for both projects.                              *)
EachSourceResolvedOnce ==
  job.at = "resolved" =>
    \A p \in Path :
      IF p \notin DOMAIN job.sources THEN job.visits[p] = 0
      ELSE job.visits[p] = 1 \/ (Moved(p) /\ job.visits[p] = 2)

(* resolveProjectionPages, resolve*ProjectionPages: the loops over groups  *)
(* and pages end.                                                          *)
ResolutionEnds == (job.at # "idle") ~> (job.at = "idle")

(* The rows whose presence or absence decides the edges of a source. *)
LooksAt(p) ==
  LET c == job.sources[p].content
      goModule == GoModuleOf(job.sources[p].project)
  IN
  IF Language(p) = "go"
  THEN {q \in Path : \/ q.dir = p.dir
                     \/ \E i \in c.imports : InModule(i, goModule)
                                            /\ q.dir = ModulePackagePath(i, goModule)}
  ELSE UNION {ToSet(ResolverPathCandidates(Language(p), r.base)) :
              r \in {s \in c.refs : s.base # NoBase}}

(* A deletion, which is still found as it was, and a Go file that is new   *)
(* to its project, which no page lists yet.                                *)
Overlooked(q) ==
  \/ q \in job.deleted
  \/ /\ Language(q) = "go" /\ q \in DOMAIN job.sources
     /\ q \notin DOMAIN job.base \/ Moved(q)

(* snapshotResolverIndex: a batch resolves a source as a full index of     *)
(* what it publishes would, unless the source changes its project or looks *)
(* at a file that the batch overlooks.                                     *)
BatchMatchesFresh ==
  job.at = "resolved" /\ Batch /\ ~job.disturbed =>
    \A p \in DOMAIN job.sources :
      ~Moved(p) /\ (\A q \in LooksAt(p) : ~Overlooked(q)) =>
        LET rows == AfterPublish(job.base, job.sources, job.deleted)
            g == [project |-> job.sources[p].project, language |-> Language(p)]
        IN {e \in job.edges : e.source.path = p}
             = ResolvePage(g, p :> job.sources[p].content, rows, rows, GoModuleOf(g.project))

(* Unpaged resolution of a group: Resolve, ResolveWithFileView. *)
WholeEdges(g, files) ==
  IF g.language = "go" THEN ResolveGo(files, GoModuleOf(g.project))
  ELSE ResolveModules(g.language, files, SelectSeq(PathOrder, LAMBDA p : p \in DOMAIN files))

(* Nothing that pages do not look at: no re-export and, in Go, no package  *)
(* name in two directories.                                                *)
PagesSuffice(g, files) ==
  IF g.language = "go"
  THEN \A p, q \in DOMAIN files : files[p].package = files[q].package => p.dir = q.dir
  ELSE \A p \in DOMAIN files : \A r \in files[p].refs : r.kind # "re-export"

(* resolvedSurfaces: the rounds end with every re-export followed. *)
SurfacesClosed(g, files) ==
  g.language # "go" =>
    LET surfaces == ResolvedSurfaces(g.language, files,
                      SelectSeq(PathOrder, LAMBDA p : p \in DOMAIN files))
    IN \A p \in DOMAIN files : ReExported(g.language, files, surfaces, p) \subseteq surfaces[p]

(* ResolvePage against Resolve: a full index by pages finds no edge that   *)
(* the resolution of the whole project would not, and every edge of it     *)
(* when there is nothing that only the latter follows; the latter follows  *)
(* re-exports to the end, however the chain and the names are ordered.     *)
PagesAgreeWithWhole ==
  job.at = "resolved" /\ job.kind = "index" /\ ~job.disturbed =>
    \A i \in DOMAIN GroupOrder :
      LET g == GroupOrder[i]
          files == ContentsOf(job.sources, InGroup(job.sources, g))
          paged == {e \in job.edges : e.source.path \in DOMAIN files}
          whole == WholeEdges(g, files)
      IN /\ paged \subseteq whole
         /\ PagesSuffice(g, files) => paged = whole
         /\ SurfacesClosed(g, files)

(* .gitignore files are applied in the order of their directories' names,  *)
(* which puts those below a name before "." in ASCII ahead of the root's.  *)
RootAppliedFirst ==
  \A d \in DOMAIN rules.gitignores :
    <<>> \in DOMAIN rules.gitignores => SortedDirectories({<<>>, d})[1] = <<>>

(* Names as long as "." do not count as more specific than the root.       *)
OneLetter(d) == Len(d) = 1 /\ DirectoryLength(d) = 1

(* DiscoverStream: a file is excluded exactly if Git says so, or if the    *)
(* last .wayfinderignore rule that matches it does, and it belongs to the  *)
(* innermost project around it.  The two orders by name that the code uses *)
(* are the exceptions.                                                     *)
SourcesFollowIgnoreRules ==
  job.at = "idle" /\ RootAppliedFirst =>
    \A tree \in {Tree} : \A roots \in {ProjectRoots(tree)} : \A rows \in {DiscoveredRows} :
      \A p \in tree.files :
        LET decides(i) == /\ p \in rules.ignore[i].files
                          /\ \A j \in DOMAIN rules.ignore : p \in rules.ignore[j].files => j <= i
            owners == {d \in roots : IsPrefix(d, p.dir)}
        IN /\ p \in DOMAIN rows <=>
                /\ ~InternalDirectory(p.dir) /\ ~GitIgnores(tree, p)
                /\ \A i \in DOMAIN rules.ignore : decides(i) => rules.ignore[i].include
                /\ owners # {}
           /\ p \in DOMAIN rows /\ (\A d \in owners : ~OneLetter(d)) =>
                rows[p].project = Deepest(owners)
=============================================================================
