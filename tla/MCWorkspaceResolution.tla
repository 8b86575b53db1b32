----------------------- MODULE MCWorkspaceResolution ------------------------
(* WorkspaceResolution on four small workspaces: TypeScript and JavaScript *)
(* modules, Go packages, nested projects and ignore rules.                 *)
EXTENDS WorkspaceResolution, TLC

At(dir, name, ext) == [dir |-> dir, name |-> name, ext |-> ext]

Root == <<>>
App == <<"(app)">>
Kit == <<"kit">>
Src == <<"src">>
Pkg == <<"pkg">>
Gen == <<"pkg", "gen">>

Directories == <<App, Root, Kit, <<"old">>, <<"p">>, Pkg, Gen, Src, <<"src", "b">> >>
LengthOf(d) == CASE d \in {Root, <<"p">>} -> 1 [] d \in {Kit, Src, Pkg, <<"old">>} -> 3
                 [] d \in {App, <<"src", "b">>} -> 5 [] d = Gen -> 7

x == At(App, "x", ".ts")
k1 == At(Kit, "a", ".go")
k2 == At(Kit, "b", ".go")
main == At(Root, "main", ".go")
o == At(<<"old">>, "c", ".go")
z == At(<<"p">>, "z", ".ts")
g == At(Gen, "g", ".ts")
q == At(Pkg, "q", ".ts")
a == At(Src, "a", ".ts")
b == At(Src, "b", ".ts")
bi == At(<<"src", "b">>, "index", ".ts")
c == At(Src, "c", ".ts")
d == At(Src, "d", ".js")
Paths == <<x, k1, k2, main, o, z, g, q, a, b, bi, c, d>>

GroupsInOrder ==
  <<[project |-> App, language |-> "typescript"],
    [project |-> Root, language |-> "go"],
    [project |-> Root, language |-> "javascript"],
    [project |-> Root, language |-> "typescript"],
    [project |-> Kit, language |-> "go"],
    [project |-> <<"p">>, language |-> "typescript"],
    [project |-> Pkg, language |-> "typescript"],
    [project |-> Src, language |-> "javascript"],
    [project |-> Src, language |-> "typescript"]>>
-----------------------------------------------------------------------------
(* Modules *)
Binding(imported, exported, local) == [imported |-> imported, exported |-> exported, local |-> local]
Ref(kind, name, bindings) == [kind |-> kind, base |-> At(Src, name, ""), bindings |-> bindings]
Surface(name, p, kind) == [name |-> name, node |-> Node(p, kind, name)]
Module(exports, refs, uses) == [exports |-> exports, refs |-> refs, uses |-> uses]

(* A class that extends what it imports from ./b under another name. *)
Extends == Module({}, {Ref("import", "b", {Binding("Base", "", "B")})},
                  {[source |-> Node(a, "class", "A"), target |-> "B", relation |-> "extends"]})
(* A barrel: one name of ./b under another, and all of ./c. *)
Barrel == Module({}, {Ref("re-export", "b", {Binding("Base", "Top", "")}),
                      Ref("import", "c", {Binding("*", "", "ns")})}, {})
Leaf(p, kind) == Module({Surface("Base", p, kind), Surface("default", p, kind)}, {}, {})
Star == Module({}, {Ref("re-export", "c", {Binding("*", "*", "")})}, {})
Requires == Module({}, {Ref("require", "c", {}),
                        [kind |-> "import", base |-> NoBase, bindings |-> {}]}, {})
-----------------------------------------------------------------------------
(* Go *)
GoFileOf(types, methods, functions, imports, calls) ==
  [package |-> "kit", types |-> types, methods |-> methods, functions |-> functions,
   exported |-> {"F", "I", "J", "T", "M"}, imports |-> imports, calls |-> calls]
Plain(name) == [name |-> name, requires |-> {}, embeds |-> {}]

Caller == [GoFileOf({}, {}, {"main"}, {<<"m", "kit">>, <<"fmt">>},
                    {[caller |-> "main", package |-> "kit", symbol |-> "F"],
                     [caller |-> "main", package |-> "fmt", symbol |-> "F"]})
           EXCEPT !.package = "main"]
Interfaces == GoFileOf({[name |-> "I", requires |-> {"M"}, embeds |-> {}],
                        [name |-> "J", requires |-> {}, embeds |-> {"I"}]}, {}, {"F"}, {}, {})
Implementation == GoFileOf({Plain("T")}, {[receiver |-> "T", name |-> "M"]}, {}, {}, {})
Function == GoFileOf({Plain("T")}, {}, {"F"}, {}, {})
-----------------------------------------------------------------------------
ContentsFor(p) ==
  CASE p = a -> {Extends, Barrel}
    [] p = b -> {Leaf(b, "class"), Leaf(b, "function"), Star}
    [] p = bi -> {Leaf(bi, "class")}
    [] p = c -> {Leaf(c, "class"), Module({}, {}, {})}
    [] p = d -> {Requires}
    [] p = main -> {Caller}
    [] p = k1 -> {Interfaces}
    [] p = k2 -> {Implementation, Function}
    [] p = o -> {Implementation}
    [] OTHER -> {Module({}, {}, {})}

ModulesFor(dir) ==
  CASE dir = Root -> {<<>>, <<"m">>}
    [] dir = Kit -> {<<>>, <<"m", "kit">>}
    [] dir = Src -> {<<>>, <<"s">>}
    [] OTHER -> {<<>>}

EmptyDisk == [p \in ToSet(Paths) |-> Absent]
NoModules == [e \in ToSet(Directories) |-> <<>>]
PackageJson(e) == At(e, "package", ".json")

Workspace(files, roots, modules, gitignores, ignore, edits) ==
  [disk |-> files @@ EmptyDisk, manifests |-> {PackageJson(e) : e \in roots},
   module |-> modules @@ NoModules, configured |-> {}, gitignores |-> gitignores,
   ignore |-> ignore, budget |-> edits]

Without(e) == [u \in {} |-> e]
NoPatterns == Without(<<>>)

(* With ./b a file, a directory or a barrel, and one more file: a script   *)
(* or a module outside src.                                                *)
ModuleWorkspaces ==
  {Workspace(a :> fa @@ c :> Leaf(c, "class") @@ rest, {Root}, NoModules, NoPatterns, <<>>, 2) :
     fa \in {Extends, Barrel},
     rest \in {b :> Leaf(b, "class") @@ bi :> Leaf(bi, "class"),
               b :> Star @@ d :> Requires,
               bi :> Leaf(bi, "class") @@ q :> Module({}, {}, {})}}

GoWorkspaces ==
  {Workspace(main :> Caller @@ k1 :> Interfaces @@ k2 :> fk @@ o :> fo,
             {}, Root :> <<"m">>, NoPatterns, <<>>, 2) :
     fk \in {Implementation, Absent}, fo \in {Implementation, Absent}}

(* Two patterns in each of three .gitignore files, and .wayfinderignore. *)
Patterns == {[negated |-> n, dirs |-> h[1], files |-> h[2]] :
               n \in BOOLEAN, h \in {<<{Gen}, {}>>, <<{}, {x, g, q, PackageJson(Pkg)}>>}}
IgnoreFiles == {<<s>> : s \in Patterns} \cup {<<s, t>> : s, t \in Patterns}
SomeRules == {<<>>, <<[include |-> FALSE, files |-> {q, x}], [include |-> TRUE, files |-> {q}]>>}

IgnoreWorkspaces ==
  {Workspace([p \in {x, z, g, q} |-> Module({}, {}, {})], {Root, <<"p">>, Pkg}, NoModules,
             Root :> top @@ e :> nested, ignore, 0) :
     top \in IgnoreFiles, e \in {App, Pkg, Gen}, nested \in {<<s>> : s \in Patterns},
     ignore \in SomeRules}

AllWorkspaces == ModuleWorkspaces \cup GoWorkspaces \cup IgnoreWorkspaces
=============================================================================
