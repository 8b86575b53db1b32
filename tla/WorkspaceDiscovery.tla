------------------------- MODULE WorkspaceDiscovery -------------------------
(***************************************************************************)
(* Which files of a workspace are sources, and which project owns each:    *)
(* workspace/discovery.go.                                                 *)
(*                                                                         *)
(* A directory is the sequence of its components, <<>> being the root ".". *)
(* A file is a record of its directory, its name and its extension.        *)
(* A tree says what is on disk:                                            *)
(*   files       the files                                                 *)
(*   manifests   those of them that make their directory a project         *)
(*   configured  the project roots given by the caller                     *)
(*   gitignores  the patterns of each .gitignore, by directory             *)
(*   ignore      the rules of .wayfinderignore, in order                   *)
(* What a pattern matches is the business of the matching library: here a  *)
(* pattern comes with the directories and the files it matches.            *)
(***************************************************************************)
EXTENDS Integers, Sequences, SequencesExt, FiniteSets

CONSTANTS
  DirectoryOrder,     \* the directories, in the order of their names as strings
  DirectoryLength(_)  \* the length of a directory's name as a string

(* internalDirectory *)
InternalDirectory(dir) ==
  \E i \in DOMAIN dir : dir[i] \in {".agent-wayfinder", ".git", "node_modules"}

Ancestors(dir) == {SubSeq(dir, 1, n) : n \in 1 .. Len(dir)}

SortedDirectories(dirs) == SelectSeq(DirectoryOrder, LAMBDA d : d \in dirs)

(* gitIgnoredPath: the patterns of every .gitignore above an entry, which  *)
(* is one of the "dirs" or the "files", are tried in the order of their    *)
(* directories, and the last match decides.                                *)
GitIgnoredPath(tree, above, entry, kind) ==
  LET ordered == SortedDirectories({d \in DOMAIN tree.gitignores \cap above : ~InternalDirectory(d)})
      patterns == FlattenSeq([i \in DOMAIN ordered |-> tree.gitignores[ordered[i]]])
      matching == SelectSeq(patterns, LAMBDA t : entry \in t[kind])
  IN matching # <<>> /\ ~Last(matching).negated

GitIgnoredFile(tree, p) == GitIgnoredPath(tree, Ancestors(p.dir) \cup {<<>>}, p, "files")

(* A plausible bug: the directories above a file are not looked at.        *)
GitIgnored_FileOnly(tree, p) == GitIgnoredFile(tree, p)

(* gitIgnored: a file below an ignored directory is ignored. *)
GitIgnored(tree, p) ==
  \/ \E dir \in Ancestors(p.dir) : GitIgnoredPath(tree, Ancestors(Front(dir)) \cup {<<>>}, dir, "dirs")
  \/ GitIgnoredFile(tree, p)

(* sourceExcluded: .wayfinderignore cannot bring back what Git ignores. *)
SourceExcluded(tree, p) ==
  \/ InternalDirectory(p.dir)
  \/ GitIgnored(tree, p)
  \/ LET matching == SelectSeq(tree.ignore, LAMBDA r : p \in r.files)
     IN matching # <<>> /\ ~Last(matching).include

ProjectRoots(tree) ==
  tree.configured \cup {f.dir : f \in {g \in tree.manifests : ~SourceExcluded(tree, g)}}

(* mostSpecificRoot: the first of the longest names. *)
MostSpecificRoot(roots, p) ==
  LET owners == SortedDirectories({d \in roots : IsPrefix(d, p.dir)})
      longer(best, d) == IF DirectoryLength(d) > DirectoryLength(best) THEN d ELSE best
  IN FoldLeft(longer, Head(owners), owners)

(* Registry.ForPath, for the extensions that supportedSource admits. *)
Language(p) ==
  CASE p.ext = ".go" -> "go"
    [] p.ext \in {".ts", ".tsx"} -> "typescript"
    [] p.ext \in {".js", ".jsx"} -> "javascript"
    [] OTHER -> "none"

(* DiscoverStream *)
DiscoveredSources(tree) ==
  {p \in tree.files : /\ ~SourceExcluded(tree, p)
                      /\ Language(p) # "none"
                      /\ \E d \in ProjectRoots(tree) : IsPrefix(d, p.dir)}

-----------------------------------------------------------------------------
(* What Git says: of the patterns that match, the last one of the deepest  *)
(* .gitignore decides, unless a directory above is ignored.                *)
Deepest(dirs) == CHOOSE d \in dirs : \A e \in dirs : Len(e) <= Len(d)

GitSays(tree, above, entry, kind) ==
  LET matches(t) == entry \in t[kind]
      deciding == {d \in DOMAIN tree.gitignores \cap above :
                     /\ ~InternalDirectory(d)
                     /\ \E i \in DOMAIN tree.gitignores[d] : matches(tree.gitignores[d][i])}
      patterns == tree.gitignores[Deepest(deciding)]
      last == CHOOSE i \in DOMAIN patterns :
                matches(patterns[i]) /\ \A j \in DOMAIN patterns : matches(patterns[j]) => j <= i
  IN deciding # {} /\ ~patterns[last].negated

GitIgnores(tree, p) ==
  \/ \E dir \in Ancestors(p.dir) :
       GitSays(tree, {d \in DOMAIN tree.gitignores : IsStrictPrefix(d, dir)}, dir, "dirs")
  \/ GitSays(tree, {d \in DOMAIN tree.gitignores : IsPrefix(d, p.dir)}, p, "files")
=============================================================================
