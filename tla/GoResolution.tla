---------------------------- MODULE GoResolution ----------------------------
(***************************************************************************)
(* The resolution of Go packages: extractors/go/resolver.go.               *)
(*                                                                         *)
(* What the extractor found in a file is a record of                       *)
(*   package    the name in its package clause                             *)
(*   types      its types [name, requires, embeds]; the last two are the   *)
(*              methods and the interfaces an interface lists              *)
(*   methods    its methods [receiver, name]                               *)
(*   functions  the names of its functions                                 *)
(*   exported   the names, of all those, that begin with a capital         *)
(*   imports    import paths, as sequences of components                   *)
(*   calls      qualified calls [caller, package, symbol]                  *)
(* A module path is a sequence too, <<>> without a go.mod.                 *)
(***************************************************************************)
EXTENDS Integers, Sequences, SequencesExt, FiniteSets

GoNode(p, kind, receiver, name) ==
  [path |-> p, kind |-> kind, receiver |-> receiver, name |-> name]
GoFile(p) == GoNode(p, "file", "", "")
GoType(p, t) == GoNode(p, "type", "", t.name)

GoEdge(source, target, relation) == [source |-> source, target |-> target, relation |-> relation]

Declarations(p, c) ==
  {GoType(p, t) : t \in c.types} \cup
  {GoNode(p, "method", m.receiver, m.name) : m \in c.methods} \cup
  {GoNode(p, "function", "", f) : f \in c.functions}

(* exportedSurfaces *)
GoSurfaces(p, c) == {n \in Declarations(p, c) : n.name \in c.exported}

(* modulePackagePath: the directory an import path denotes.  It is counted *)
(* from the project, and looked for from the workspace.                    *)
InModule(import, module) == module # <<>> /\ IsPrefix(module, import)
ModulePackagePath(import, module) == SubSeq(import, Len(module) + 1, Len(import))

FilesIn(files, dir) == {q \in DOMAIN files : q.dir = dir}

PackageTargets(files, import, module) ==
  IF InModule(import, module) THEN FilesIn(files, ModulePackagePath(import, module)) ELSE {}

ImportEdges(p, c, module, files) ==
  {GoEdge(GoFile(p), n, "imports_from") :
     n \in UNION {UNION {{GoFile(q)} \cup GoSurfaces(q, files[q]) :
                         q \in PackageTargets(files, import, module)} :
                  import \in c.imports}}

(* A call is resolved if exactly one function or method of the imports     *)
(* whose last component it names has that name.                            *)
CallMatches(call, c, module, files) ==
  UNION {UNION {{<<import, n>> : n \in {m \in GoSurfaces(q, files[q]) :
                                          m.name = call.symbol /\ m.kind \in {"function", "method"}}} :
                q \in PackageTargets(files, import, module)} :
         import \in {i \in c.imports : Last(i) = call.package}}

CallEdges(p, c, module, files) ==
  {GoEdge(GoNode(p, "function", "", call.caller),
          (CHOOSE m \in CallMatches(call, c, module, files) : TRUE)[2], "calls") :
     call \in {k \in c.calls : Cardinality(CallMatches(k, c, module, files)) = 1}}

(* packageMethods, appendImplementedInterfaces, appendEmbeddedInterfaces,  *)
(* over the files that count as the same package.                          *)
MethodsOf(t, files, peers) ==
  UNION {{m.name : m \in {n \in files[q].methods : n.receiver = t.name}} : q \in peers}

ImplementsAll(methods, requirements) == requirements # {} /\ requirements \subseteq methods

TypeEdges(p, c, files, peers) ==
  UNION {UNION {
    LET others == {u \in files[q].types : GoType(q, u) # GoType(p, t)}
        methods == MethodsOf(t, files, peers)
    IN {GoEdge(GoType(p, t), GoType(q, u), "implements") :
          u \in {v \in others : ImplementsAll(methods, v.requires)}} \cup
       {GoEdge(GoType(p, t), GoType(q, u), "embeds") : u \in {v \in others : v.name \in t.embeds}} :
    q \in peers} : t \in c.types}

(* ResolvePage: a package is the files of one directory with one name. *)
ResolveGoPage(p, c, module, files) ==
  ImportEdges(p, c, module, files) \cup CallEdges(p, c, module, files) \cup
  TypeEdges(p, c, files, {q \in FilesIn(files, p.dir) : files[q].package = c.package})

(* ResolveWithFileView: in the resolution of a whole project the name      *)
(* alone makes a package, whatever its directory.  (No interface embeds    *)
(* itself, the one pair that the two would treat differently.)             *)
ResolveGo(files, module) ==
  UNION {ImportEdges(p, files[p], module, files) \cup CallEdges(p, files[p], module, files) \cup
         TypeEdges(p, files[p], files, {q \in DOMAIN files : files[q].package = files[p].package}) :
         p \in DOMAIN files}
=============================================================================
