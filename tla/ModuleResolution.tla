-------------------------- MODULE ModuleResolution --------------------------
(***************************************************************************)
(* The resolution of TypeScript and JavaScript modules:                    *)
(* extractors/typescript/resolver.go and extractors/javascript/resolver.go.*)
(*                                                                         *)
(* What the extractor found in a file is a record of                       *)
(*   exports  surfaces [name, node] of its own declarations                *)
(*   refs     module references [kind, base, bindings]: base is the path a *)
(*            relative specifier denotes, without an extension if it has   *)
(*            none, and NoBase for a package or an alias                   *)
(*   uses     symbol references [source, target, relation]: a local name   *)
(*            that a declaration extends, implements or calls              *)
(* Package and alias specifiers need a file view, which index.go gives to  *)
(* neither language, so that they are never found.  No file re-exports     *)
(* from itself.                                                            *)
(***************************************************************************)
EXTENDS Integers, Sequences, SequencesExt, FiniteSets

CONSTANTS NoBase, NoTarget

Node(p, kind, name) == [path |-> p, kind |-> kind, name |-> name]
FileNode(p) == Node(p, "file", "")

Edge(source, target, relation) == [source |-> source, target |-> target, relation |-> relation]

Extensions(language) ==
  IF language = "typescript"
  THEN <<".ts", ".tsx", ".mts", ".cts", ".js", ".jsx", ".mjs", ".cjs">>
  ELSE <<".js", ".jsx", ".mjs", ".cjs", ".ts", ".tsx", ".mts", ".cts">>

(* resolverPathCandidates, resolvePath: the path itself, with each         *)
(* extension, then the index file of the directory.  A path without an     *)
(* extension is no source file, and none has two.                          *)
ResolverPathCandidates(language, base) ==
  LET extensions == Extensions(language) IN
  IF base.ext # "" THEN <<base>>
  ELSE [i \in DOMAIN extensions |-> [base EXCEPT !.ext = extensions[i]]]
       \o [i \in DOMAIN extensions |->
             [dir |-> Append(base.dir, base.name), name |-> "index", ext |-> extensions[i]]]

(* resolverPageTarget, resolveRelativeSpecifier: the first candidate that  *)
(* is known.                                                               *)
ResolverPageTarget(language, base, known) ==
  IF base = NoBase THEN NoTarget
  ELSE LET found == SelectSeq(ResolverPathCandidates(language, base), LAMBDA c : c \in known)
       IN IF found = <<>> THEN NoTarget ELSE Head(found)

(* matchingSurfaces, matchingBindingSurfaces: "export *" leaves out the    *)
(* default export.                                                         *)
MatchingBindingSurfaces(surfaces, kind, binding) ==
  {s \in surfaces :
     /\ binding.imported \in {"*", s.name}
     /\ ~(/\ kind = "re-export" /\ binding.imported = "*" /\ binding.exported = "*"
          /\ s.name = "default")}

RelationFor(kind) == IF kind = "re-export" THEN "re_exports" ELSE "imports_from"

(* The edges of a module reference: to the file, and to what each binding  *)
(* takes from it.                                                          *)
ReferenceEdges(p, ref, target, surfaces) ==
  {Edge(FileNode(p), FileNode(target), RelationFor(ref.kind))} \cup
  {Edge(FileNode(p), s.node, RelationFor(ref.kind)) :
     s \in UNION {MatchingBindingSurfaces(surfaces, ref.kind, b) : b \in ref.bindings}}

LocalName(binding) == IF binding.local # "" THEN binding.local ELSE binding.imported

(* resolverPageSymbolTargets, resolvedSymbolTargets: a local name stands   *)
(* for what an import binds it to.                                         *)
SymbolEdges(use, ref, surfaces) ==
  {Edge(use.source, s.node, use.relation) :
     s \in UNION {MatchingBindingSurfaces(surfaces, ref.kind, b) :
                  b \in {c \in ref.bindings : ref.kind = "import" /\ LocalName(c) = use.target}}}

OwnSurfaces(files) == [p \in DOMAIN files |-> files[p].exports]

(* The body that ResolvePage and resolve share, for one file: surfaces are *)
(* those of every file that can be found.                                  *)
ModuleEdges(language, p, content, surfaces) ==
  UNION {LET target == ResolverPageTarget(language, ref.base, DOMAIN surfaces) IN
         IF target = NoTarget THEN {}
         ELSE ReferenceEdges(p, ref, target, surfaces[target]) \cup
              UNION {SymbolEdges(use, ref, surfaces[target]) : use \in content.uses} :
         ref \in content.refs}

(* ResolvePage: a file offers the surfaces of its own declarations. *)
ResolveModulePage(language, p, content, targets) ==
  ModuleEdges(language, p, content, OwnSurfaces(targets))
-----------------------------------------------------------------------------
(* resolvedSurfaces: what a file re-exports is added to its surfaces, under*)
(* the name it is given.                                                   *)
ReExported(language, files, surfaces, p) ==
  UNION {LET target == ResolverPageTarget(language, ref.base, DOMAIN files) IN
         IF ref.kind # "re-export" \/ target = NoTarget THEN {}
         ELSE UNION {{[s EXCEPT !.name = IF b.exported \in {"", "*"} THEN @ ELSE b.exported] :
                        s \in MatchingBindingSurfaces(surfaces[target], ref.kind, b)} :
                     b \in ref.bindings} :
         ref \in files[p].refs}

(* One round, in the order of the paths and in place. *)
SurfaceRound(language, files, order, surfaces) ==
  FoldLeft(LAMBDA acc, p : [acc EXCEPT ![p] = @ \cup ReExported(language, files, acc, p)],
           surfaces, order)

(* A plausible bug: one round is thought to be enough.                     *)
ResolvedSurfaces_OneRound(language, files, order) ==
  SurfaceRound(language, files, order, OwnSurfaces(files))

(* As many rounds as there are paths; the code stops at the first that     *)
(* changes nothing, after which no round would.                            *)
ResolvedSurfaces(language, files, order) ==
  FoldLeft(LAMBDA acc, p : SurfaceRound(language, files, order, acc), OwnSurfaces(files), order)

(* resolve: the resolution of a whole project at once. *)
ResolveModules(language, files, order) ==
  LET surfaces == ResolvedSurfaces(language, files, order)
  IN UNION {ModuleEdges(language, p, files[p], surfaces) : p \in DOMAIN files}

(* Vocabulary.Validate with ResolverVocabulary: the pairs of declarations  *)
(* that a relation may join.  A file may import or re-export anything.     *)
Callable == {"function", "method", "variable"}

Allowed(language, e) ==
  CASE e.relation \in {"imports_from", "re_exports"} -> TRUE
    [] e.relation = "extends" ->
         IF language = "javascript" THEN e.target.kind = "class"
         ELSE \/ e.source.kind = "class" /\ e.target.kind \in {"class", "interface", "variable"}
              \/ e.source.kind = "interface" /\ e.target.kind \in {"interface", "type_alias"}
    [] e.relation = "implements" -> e.target.kind = "interface"
    [] e.relation = "calls" -> e.target.kind \in Callable
=============================================================================
