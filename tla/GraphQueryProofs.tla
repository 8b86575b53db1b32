--------------------------- MODULE GraphQueryProofs ---------------------------
(***************************************************************************)
(* Proofs about GraphQuery: walks, shortest paths and explanations are     *)
(* exact, for every graph, request and order of changes to the snapshot.   *)
(***************************************************************************)
EXTENDS GraphQuery, FiniteSetTheorems, SequenceTheorems, WellFoundedInduction, TLAPS

-----------------------------------------------------------------------------
(* Least elements, and the order the loops take.                           *)

LEMMA LeastNumber ==
  ASSUME NEW S \in SUBSET Nat, NEW m \in S
  PROVE  \E n \in S : \A k \in S : n <= k
<1>1. IsWellFoundedOn(OpToRel(<, Nat), Nat)
  BY NatLessThanWellFounded
<1>2. \E n \in S : \A k \in S : ~(<<k, n>> \in OpToRel(<, Nat))
  BY <1>1, WFMin
<1>3. PICK n \in S : \A k \in S : ~(<<k, n>> \in OpToRel(<, Nat))
  BY <1>2
<1>4. \A k \in S : n <= k
  <2>. TAKE k \in S
  <2>1. ~(k < n)
    BY <1>3 DEF OpToRel
  <2>. QED  BY <2>1
<1>. QED  BY <1>4

LEMMA SequencesTyped ==
  ASSUME NEW S, NEW s \in Seq(S)
  PROVE  DOMAIN s = 1 .. Len(s) /\ Len(s) \in Nat /\ \A i \in DOMAIN s : s[i] \in S
OBVIOUS

LEMMA MinIsIn ==
  ASSUME NEW S \in SUBSET Node, S # {}
  PROVE  Min(S) \in S
<1>1. S \in SUBSET Nat
  BY QueryAssumption
<1>2. PICK m \in S : TRUE
  OBVIOUS
<1>3. \E n \in S : \A k \in S : n <= k
  BY <1>1, <1>2, LeastNumber
<1>. QED  BY <1>3 DEF Min

LEMMA FirstIsIn ==
  ASSUME NEW S \in SUBSET Edge, S # {}
  PROVE  First(S) \in S
<1>. DEFINE P == {i \in DOMAIN Edges : Edges[i] \in S}
<1>1. DOMAIN Edges = 1 .. Len(Edges) /\ Len(Edges) \in Nat
  BY QueryAssumption, SequencesTyped
<1>2. PICK i \in P : TRUE
  BY DEF Edge, ToSet
<1>3. P \in SUBSET Nat
  BY <1>1
<1>4. PICK n \in P : \A k \in P : n <= k
  BY <1>2, <1>3, LeastNumber
<1>5. \A j \in 1 .. n - 1 : Edges[j] \notin S
  BY <1>1, <1>4
<1>. QED  BY <1>4, <1>5 DEF First

LEMMA EdgesTyped ==
  Edge \subseteq [source : Node, target : Node, relation : STRING]
<1>1. \A i \in DOMAIN Edges : Edges[i] \in [source : Node, target : Node, relation : STRING]
  BY QueryAssumption, SequencesTyped
<1>. QED  BY <1>1 DEF Edge, ToSet

-----------------------------------------------------------------------------
(* Chains of links.                                                        *)

(* A root is within any distance. *)
LEMMA WithinRoots ==
  ASSUME NEW links, NEW roots \in SUBSET Node, NEW d \in Nat
  PROVE  roots \subseteq Within(links, roots, d)
<1>. SUFFICES ASSUME NEW n \in roots
              PROVE  n \in Within(links, roots, d)
  OBVIOUS
<1>. DEFINE p == [i \in 0 .. 0 |-> n]
<1>1. p \in Chains(links, roots, 0) /\ p[0] = n
  BY DEF Chains
<1>2. 0 \in 0 .. d
  OBVIOUS
<1>. QED  BY <1>1, <1>2 DEF Within

LEMMA WithinIs ==
  ASSUME NEW links, NEW roots, NEW d, NEW n
  PROVE  n \in Within(links, roots, d)
           <=> \E k \in 0 .. d : \E p \in Chains(links, roots, k) : p[k] = n
BY DEF Within

LEMMA WithinTyped ==
  ASSUME NEW links, NEW roots, NEW d \in Int
  PROVE  Within(links, roots, d) \subseteq Node
<1>1. \A k \in 0 .. d : \A p \in Chains(links, roots, k) : p[k] \in Node
  BY DEF Chains
<1>. QED  BY <1>1, WithinIs

(* Nothing is within less than no links. *)
LEMMA WithinNothing ==
  ASSUME NEW links, NEW roots, NEW d \in Int, d < 0
  PROVE  Within(links, roots, d) = {}
BY WithinIs

LEMMA WithinNone ==
  ASSUME NEW links, NEW d
  PROVE  Within(links, {}, d) = {}
<1>1. \A k : Chains(links, {}, k) = {}
  BY DEF Chains
<1>. QED  BY <1>1 DEF Within

LEMMA WithinGrows ==
  ASSUME NEW links, NEW roots, NEW d \in Int, NEW e \in Int, d <= e
  PROVE  Within(links, roots, d) \subseteq Within(links, roots, e)
<1>1. \A k \in 0 .. d : k \in 0 .. e
  OBVIOUS
<1>. QED  BY <1>1, WithinIs

LEMMA WithinMoreLinks ==
  ASSUME NEW links, NEW more, NEW roots, NEW d, links \subseteq more
  PROVE  Within(links, roots, d) \subseteq Within(more, roots, d)
<1>1. \A k : Chains(links, roots, k) \subseteq Chains(more, roots, k)
  BY DEF Chains
<1>. QED  BY <1>1, WithinIs

(* A link leads one further. *)
LEMMA WithinStep ==
  ASSUME NEW links, NEW roots, NEW d \in Nat, NEW n \in Within(links, roots, d),
         NEW m \in Node, <<n, m>> \in links
  PROVE  m \in Within(links, roots, d + 1)
<1>1. PICK k \in 0 .. d : \E p \in Chains(links, roots, k) : p[k] = n
  BY WithinIs
<1>2. PICK p \in Chains(links, roots, k) : p[k] = n
  BY <1>1
<1>. DEFINE q == [i \in 0 .. k + 1 |-> IF i = k + 1 THEN m ELSE p[i]]
<1>3. p \in [0 .. k -> Node] /\ p[0] \in roots /\ \A i \in 1 .. k : <<p[i - 1], p[i]>> \in links
  BY DEF Chains
<1>4. q \in [0 .. k + 1 -> Node]
  BY <1>3
<1>5. q[0] \in roots
  BY <1>3
<1>6. \A i \in 1 .. k + 1 : <<q[i - 1], q[i]>> \in links
  <2>. TAKE i \in 1 .. k + 1
  <2>1. CASE i = k + 1
    BY <2>1, <1>2
  <2>2. CASE i # k + 1
    <3>1. i \in 1 .. k /\ i - 1 \in 0 .. k + 1 /\ i - 1 # k + 1
      BY <2>2
    <3>. QED  BY <2>2, <3>1, <1>3
  <2>. QED  BY <2>1, <2>2
<1>7. q[k + 1] = m
  OBVIOUS
<1>. HIDE DEF q
<1>8. q \in Chains(links, roots, k + 1)
  BY <1>4, <1>5, <1>6 DEF Chains
<1>9. k + 1 \in 0 .. d + 1
  OBVIOUS
<1>. QED  BY <1>7, <1>8, <1>9, WithinIs

(* A chain that leaves a set does so by a link: the first node off the set *)
(* comes right after one that is on it, and that one is nearer.            *)
LEMMA FirstNodeOff ==
  ASSUME NEW links, NEW roots, NEW d \in Int, NEW m \in Within(links, roots, d),
         NEW on, roots \subseteq on, m \notin on
  PROVE  \E i \in 1 .. d : \E a \in on \cap Within(links, roots, i - 1) :
           \E b \in Node : b \notin on /\ <<a, b>> \in links /\ b \in Within(links, roots, i)
<1>1. PICK k \in 0 .. d : \E p \in Chains(links, roots, k) : p[k] = m
  BY WithinIs
<1>2. PICK p \in Chains(links, roots, k) : p[k] = m
  BY <1>1
<1>3. p \in [0 .. k -> Node] /\ p[0] \in roots /\ \A i \in 1 .. k : <<p[i - 1], p[i]>> \in links
  BY DEF Chains
<1>. DEFINE off == {i \in 0 .. k : p[i] \notin on}
<1>4. off \in SUBSET Nat /\ k \in off
  BY <1>2
<1>5. PICK i \in off : \A j \in off : i <= j
  BY <1>4, LeastNumber
<1>6. i \in 0 .. k /\ p[i] \notin on /\ i # 0
  BY <1>3
<1>7. i \in 1 .. d /\ i - 1 \in 0 .. k /\ i - 1 \notin off
  BY <1>5, <1>6
<1>8. \A j \in 0 .. k : p[j] \in Within(links, roots, j)
  <2>. TAKE j \in 0 .. k
  <2>. DEFINE q == [l \in 0 .. j |-> p[l]]
  <2>1. q \in [0 .. j -> Node] /\ q[0] \in roots
    BY <1>3
  <2>2. \A l \in 1 .. j : <<q[l - 1], q[l]>> \in links
    <3>. TAKE l \in 1 .. j
    <3>1. l \in 1 .. k /\ l - 1 \in 0 .. j /\ l \in 0 .. j
      OBVIOUS
    <3>. QED  BY <3>1, <1>3
  <2>3. q[j] = p[j] /\ j \in 0 .. j
    OBVIOUS
  <2>. HIDE DEF q
  <2>4. q \in Chains(links, roots, j)
    BY <2>1, <2>2 DEF Chains
  <2>. QED  BY <2>3, <2>4, WithinIs
<1>9. p[i - 1] \in on /\ p[i - 1] \in Within(links, roots, i - 1) /\ p[i] \in Within(links, roots, i)
  BY <1>6, <1>7, <1>8
<1>10. <<p[i - 1], p[i]>> \in links /\ p[i] \in Node
  BY <1>3, <1>6, <1>7
<1>. QED  BY <1>6, <1>7, <1>9, <1>10

(* A set that links do not leave holds all there is within any distance.   *)
LEMMA WithinClosed ==
  ASSUME NEW links, NEW roots, NEW d \in Int, NEW on, roots \subseteq on,
         \A a \in on, b \in Node : <<a, b>> \in links => b \in on
  PROVE  Within(links, roots, d) \subseteq on
<1>1. ASSUME NEW m \in Within(links, roots, d), m \notin on
      PROVE  \E a \in on : \E b \in Node : b \notin on /\ <<a, b>> \in links
  BY <1>1, FirstNodeOff
<1>. QED  BY <1>1

LEMMA WithinConnected ==
  ASSUME NEW links, NEW roots, NEW d \in Int, links \subseteq Node \X Node
  PROVE  Within(links, roots, d) \subseteq Connected(links, roots)
<1>. SUFFICES ASSUME NEW n \in Within(links, roots, d), NEW S \in SUBSET Node,
                     roots \subseteq S, \A l \in links : l[1] \in S => l[2] \in S
              PROVE  n \in S
  BY WithinTyped DEF Connected
<1>1. \A a \in S, b \in Node : <<a, b>> \in links => b \in S
  OBVIOUS
<1>. QED  BY <1>1, WithinClosed

LEMMA ConnectedClosed ==
  ASSUME NEW links, NEW roots, NEW on \in SUBSET Node, roots \subseteq on, links \subseteq Node \X Node,
         \A a \in on, b \in Node : <<a, b>> \in links => b \in on
  PROVE  Connected(links, roots) \subseteq on
<1>1. \A l \in links : l[1] \in on => l[2] \in on
  <2>. TAKE l \in links
  <2>1. l = <<l[1], l[2]>> /\ l[1] \in Node /\ l[2] \in Node
    OBVIOUS
  <2>. QED  BY <2>1
<1>. QED  BY <1>1 DEF Connected
-----------------------------------------------------------------------------
(* Edges and what they lead to.                                            *)

LEMMA NeighborsAre ==
  ASSUME NEW n, NEW e, NEW m \in Neighbors(n, e)
  PROVE  /\ m \in Node /\ n \in {e.source, e.target} /\ m \in {e.source, e.target}
         /\ {e.source, e.target} = {n, m}
         /\ \A o \in Neighbors(n, e) : o = m
BY DEF Neighbors

LEMMA NeighborIsLinked ==
  ASSUME NEW g, NEW e \in g.edges, Included(e), NEW n, NEW m \in Neighbors(n, e)
  PROVE  Linked(g, n, m)
BY DEF Neighbors, Linked

LEMMA LinkedIsNeighbor ==
  ASSUME NEW g, NEW n, NEW m \in Node, Linked(g, n, m)
  PROVE  \E e \in g.edges : Included(e) /\ m \in Neighbors(n, e)
<1>1. PICK e \in g.edges : /\ Included(e)
                           /\ \/ e.source = n /\ e.target = m
                              \/ walk.direction = "both" /\ e.target = n /\ e.source = m
  BY DEF Linked
<1>2. m \in Neighbors(n, e)
  BY <1>1 DEF Neighbors
<1>. QED  BY <1>1, <1>2

LEMMA LinksAre ==
  ASSUME NEW g, NEW scope, NEW n \in Node, NEW m \in Node
  PROVE  <<n, m>> \in Links(g, scope) <=> n \in scope /\ m \in g.nodes /\ Linked(g, n, m)
BY DEF Links

LEMMA LinksTyped ==
  ASSUME NEW g, NEW scope, g.nodes \subseteq Node
  PROVE  Links(g, scope) \subseteq Node \X Node
BY DEF Links

LEMMA SnapshotTyped ==
  ASSUME TypeOK
  PROVE  /\ visible.nodes \subseteq Node /\ visible.edges \subseteq Edge
         /\ seen.nodes \subseteq Node /\ seen.edges \subseteq Edge
         /\ Roots \subseteq visible.nodes /\ Roots \subseteq Node
         /\ SnapshotLinks \subseteq Node \X Node
<1>1. /\ visible.nodes \subseteq Node /\ visible.edges \subseteq Edge
      /\ seen.nodes \subseteq Node /\ seen.edges \subseteq Edge
  BY DEF TypeOK, Graphs
<1>2. Roots \subseteq visible.nodes
  BY DEF Roots
<1>. QED  BY <1>1, <1>2, LinksTyped DEF SnapshotLinks

(* The reference of a request changes with the snapshot only. *)
LEMMA LinkedSame ==
  ASSUME UNCHANGED request, walk'.direction = walk.direction
  PROVE  \A g, n, m : Linked(g, n, m)' <=> Linked(g, n, m)
BY DEF Linked, Included

LEMMA ReferenceSame ==
  ASSUME UNCHANGED <<visible, request>>, walk'.direction = walk.direction, walk'.source = walk.source
  PROVE  /\ Scope(visible)' = Scope(visible)
         /\ SnapshotLinks' = SnapshotLinks
         /\ Roots' = Roots
         /\ \A d : Reachable(d)' = Reachable(d)
<1>1. Scope(visible)' = Scope(visible)
  BY DEF Scope
<1>2. SnapshotLinks' = SnapshotLinks
  BY <1>1 DEF SnapshotLinks, Links, Linked, Included
<1>3. Seeds' = Seeds
  BY DEF Seeds, LookupTermMatches, LookupExactNodes, LookupNodes, UpTo, Visible
<1>4. Roots' = Roots
  BY <1>3 DEF Roots
<1>. QED  BY <1>1, <1>2, <1>4 DEF Reachable

LEMMA FactsSame ==
  ASSUME UNCHANGED request, walk'.direction = walk.direction, walk'.source = walk.source,
         walk'.nodes = walk.nodes, walk'.edges = walk.edges
  PROVE  \A d : FactsWithin(d)' = FactsWithin(d)
<1>1. Facts' = Facts
  BY DEF Facts
<1>2. Links(Facts, Node)' = Links(Facts, Node)
  BY <1>1 DEF Links, Linked, Included, Facts
<1>. QED  BY <1>2 DEF FactsWithin

LEMMA FactsGrow ==
  ASSUME UNCHANGED request, walk'.direction = walk.direction, walk'.source = walk.source,
         walk.nodes \subseteq walk'.nodes, walk.edges \subseteq walk'.edges
  PROVE  \A d : FactsWithin(d) \subseteq FactsWithin(d)'
<1>1. Links(Facts, Node) \subseteq Links(Facts, Node)'
  BY DEF Links, Linked, Included, Facts
<1>. QED  BY <1>1, WithinMoreLinks DEF FactsWithin

LEMMA WithinZero ==
  ASSUME NEW links, NEW roots
  PROVE  Within(links, roots, 0) \subseteq roots
<1>1. \A k \in 0 .. 0 : \A p \in Chains(links, roots, k) : p[k] \in roots
  BY DEF Chains
<1>. QED  BY <1>1, WithinIs

LEMMA LookupsTyped ==
  ASSUME NEW t \in Term, NEW limit
  PROVE  LookupTermMatches(t, limit) \subseteq Node /\ PathEndpointMatches(t) \subseteq Node
<1>1. \A i \in DOMAIN Exact[t] : Exact[t][i] \in Node
  BY QueryAssumption, SequencesTyped
<1>2. \A i \in DOMAIN Broad[t] : Broad[t][i] \in Node
  BY QueryAssumption, SequencesTyped
<1>3. \A l : UpTo(Exact[t], l) \subseteq Node /\ UpTo(Broad[t], l) \subseteq Node
  BY <1>1, <1>2 DEF UpTo, Visible
<1>4. LookupExactNodes(t) \subseteq Node
  BY <1>1 DEF LookupExactNodes, Visible
<1>. QED  BY <1>3, <1>4 DEF LookupTermMatches, PathEndpointMatches, LookupNodes

LEMMA SeedsTyped ==
  ASSUME TypeOK
  PROVE  /\ request.source \in Term /\ request.target \in Term
         /\ Seeds \subseteq Node
<1>1. request.source \in Term /\ request.target \in Term
  BY DEF TypeOK, Request
<1>. QED  BY <1>1, LookupsTyped DEF Seeds

LEMMA SeedsSame ==
  ASSUME UNCHANGED <<visible, request>>
  PROVE  Seeds' = Seeds
BY DEF Seeds, LookupTermMatches, LookupExactNodes, LookupNodes, UpTo, Visible

(* What a stage leaves out of the invariant. *)
LEMMA OtherStages ==
  /\ at \notin {"search", "trail"} => SearchIsBreadthFirst /\ QueueIsByDistance /\ TrailIsShortest
  /\ at \notin {"incident", "endpoints"} => ExplanationIsComplete
  /\ at # "done" => PathIsShortest /\ ExplanationIsExact
  /\ at \notin {"scope", "starts", "expand", "return", "search", "trail"} =>
       WalkStaysInBounds /\ UndisturbedWalkIsByLevels
BY DEF SearchIsBreadthFirst, QueueIsByDistance, TrailIsShortest, ExplanationIsComplete, PathIsShortest,
       ExplanationIsExact, WalkStaysInBounds, UndisturbedWalkIsByLevels, Walked

LEMMA OtherStagesNext ==
  /\ at' \notin {"search", "trail"} => SearchIsBreadthFirst' /\ QueueIsByDistance' /\ TrailIsShortest'
  /\ at' \notin {"incident", "endpoints"} => ExplanationIsComplete'
  /\ at' # "done" => PathIsShortest' /\ ExplanationIsExact'
  /\ at' \notin {"scope", "starts", "expand", "return", "search", "trail"} =>
       WalkStaysInBounds' /\ UndisturbedWalkIsByLevels'
BY DEF SearchIsBreadthFirst, QueueIsByDistance, TrailIsShortest, ExplanationIsComplete, PathIsShortest,
       ExplanationIsExact, WalkStaysInBounds, UndisturbedWalkIsByLevels, Walked

(* The types of a request, of a walk and of a search. *)
WalkType ==
  [direction : Direction, start : SUBSET Node, source : Node \cup {None},
   target : Node \cup {None}, scope : SUBSET Node,
   nodes : SUBSET Node, edges : SUBSET Edge,
   frontier : SUBSET Node, next : SUBSET Node, from : Node \cup {None},
   pending : SUBSET Edge, depth : Nat, reasons : SUBSET Reason,
   boundary : Node \cup {None}]

LEMMA TypesAre ==
  ASSUME TypeOK
  PROVE  /\ walk \in WalkType /\ walk.depth \in Nat /\ walk.depth <= request.depth
         /\ request.depth \in Nat /\ request.nodes \in Nat \ {0}
         /\ request.projects \subseteq Node
         /\ request.kind \in {"query", "path", "explain"}
         /\ None = 0 /\ None \notin Node /\ IsFiniteSet(Node)
         /\ IsFiniteSet(walk.nodes) /\ Cardinality(walk.nodes) \in Nat
<1>1. walk \in WalkType /\ walk.depth \in Nat /\ walk.depth <= request.depth
      /\ request.depth \in Nat /\ request.nodes \in Nat \ {0}
  BY DEF TypeOK, WalkType, Request
<1>2. request.projects \subseteq Node /\ request.kind \in {"query", "path", "explain"}
  BY DEF TypeOK, Request
<1>3. None = 0 /\ None \notin Node /\ IsFiniteSet(Node)
  BY QueryAssumption DEF None
<1>4. walk.nodes \subseteq Node
  BY <1>1 DEF WalkType
<1>5. IsFiniteSet(walk.nodes) /\ Cardinality(walk.nodes) \in Nat
  BY <1>3, <1>4, FS_Subset, FS_CardinalityType
<1>. QED  BY <1>1, <1>2, <1>3, <1>5

LEMMA WalkTyped ==
  ASSUME TypeOK, NEW w \in WalkType, w.depth <= request.depth
  PROVE  w \in [direction : Direction, start : SUBSET Node, source : Node \cup {None},
               target : Node \cup {None}, scope : SUBSET Node,
               nodes : SUBSET Node, edges : SUBSET Edge,
               frontier : SUBSET Node, next : SUBSET Node, from : Node \cup {None},
               pending : SUBSET Edge, depth : 0 .. request.depth, reasons : SUBSET Reason,
               boundary : Node \cup {None}]
<1>1. w.depth \in 0 .. request.depth
  BY TypesAre DEF WalkType
<1>. QED  BY <1>1 DEF WalkType

LEMMA NoWalkTyped == NoWalk \in WalkType
BY DEF NoWalk, WalkType, Direction, None
-----------------------------------------------------------------------------
(* The beginning of a request.                                             *)

LEMMA InitKeeps ==
  ASSUME Init
  PROVE  QueryInv
<1>1. at = "lookup" /\ walk = NoWalk /\ search = NoSearch /\ answer = NoAnswer /\ changes = 0 /\ seen = visible
  BY DEF Init
<1>2. TypeOK
  <2>1. visible \in Graphs /\ seen \in Graphs /\ changes \in 0 .. MaxChanges /\ request \in Request
    BY QueryAssumption DEF Init
  <2>2. walk.depth = 0 /\ request.depth \in Nat
    BY <1>1, <2>1 DEF NoWalk, Request
  <2>3. walk \in [direction : Direction, start : SUBSET Node, source : Node \cup {None},
               target : Node \cup {None}, scope : SUBSET Node,
               nodes : SUBSET Node, edges : SUBSET Edge,
               frontier : SUBSET Node, next : SUBSET Node, from : Node \cup {None},
               pending : SUBSET Edge, depth : 0 .. request.depth, reasons : SUBSET Reason,
               boundary : Node \cup {None}]
    BY <1>1, <2>2, NoWalkTyped DEF WalkType
  <2>4. search \in [queue : Seq(Node), before : [{} -> Predecessor],
                   from : Node \cup {None}, pending : SUBSET Edge]
    BY <1>1 DEF NoSearch
  <2>5. answer \in [nodes : Seq(Node), edges : Seq(Edge)]
    BY <1>1 DEF NoAnswer
  <2>. QED  BY <1>1, <2>1, <2>3, <2>4, <2>5 DEF TypeOK
<1>3. StagesFollow
  BY <1>1 DEF StagesFollow
<1>. QED  BY <1>1, <1>2, <1>3, OtherStages DEF QueryInv

(* A request that only moves its walk keeps its types. *)
LEMMA WalkMoves ==
  ASSUME TypeOK, UNCHANGED <<snapshot, request, search, answer>>,
         walk' \in WalkType, walk'.depth <= request.depth,
         at' \in {"lookup", "scope", "starts", "expand", "return", "search", "trail",
                  "explain", "incident", "endpoints", "done", "error"}
  PROVE  TypeOK'
<1>1. walk' \in [direction : Direction, start : SUBSET Node, source : Node \cup {None},
               target : Node \cup {None}, scope : SUBSET Node,
               nodes : SUBSET Node, edges : SUBSET Edge,
               frontier : SUBSET Node, next : SUBSET Node, from : Node \cup {None},
               pending : SUBSET Edge, depth : 0 .. request.depth, reasons : SUBSET Reason,
               boundary : Node \cup {None}]
  BY WalkTyped
<1>. QED  BY <1>1 DEF TypeOK, snapshot

LEMMA RankSnapshotKeeps ==
  ASSUME QueryInv, RankSnapshot
  PROVE  QueryInv'
<1>. DEFINE to == [NoWalk EXCEPT !.start = Seeds]
<1>1. /\ walk' = to /\ at' = (IF Seeds = {} THEN "done" ELSE "scope") /\ at = "lookup"
      /\ request.kind = "query" /\ UNCHANGED <<snapshot, request, search, answer>>
  BY DEF RankSnapshot, Seeds
<1>2. to \in WalkType /\ to.depth = 0 /\ to.start = Seeds /\ to.nodes = {}
      /\ to.edges = {} /\ to.frontier = {} /\ to.next = {} /\ to.pending = {}
      /\ to.reasons = {} /\ to.boundary = None
  BY NoWalkTyped, SeedsTyped DEF NoWalk, WalkType, QueryInv
<1>. HIDE DEF to
<1>3. TypeOK'
  BY <1>1, <1>2, WalkMoves, TypesAre DEF QueryInv
<1>4. StagesFollow'
  BY <1>1 DEF QueryInv, StagesFollow, snapshot, Undisturbed
<1>5. at' = "scope" => WalkStaysInBounds' /\ UndisturbedWalkIsByLevels'
  <2>. SUFFICES ASSUME at' = "scope"
                PROVE  WalkStaysInBounds' /\ UndisturbedWalkIsByLevels'
    OBVIOUS
  <2>1. WalkStaysInBounds'
    BY <1>1, <1>2 DEF WalkStaysInBounds, Walked
  <2>2. Roots' = walk'.start \cap visible'.nodes
    BY <1>1, <1>2, SeedsSame DEF Roots, snapshot
  <2>3. UndisturbedWalkIsByLevels'
    BY <2>2 DEF UndisturbedWalkIsByLevels, Walked
  <2>. QED  BY <2>1, <2>3
<1>6. at' = "done" => PathIsShortest' /\ ExplanationIsExact'
  BY <1>1 DEF PathIsShortest, ExplanationIsExact, QueryInv, StagesFollow, NoAnswer
<1>. QED  BY <1>1, <1>3, <1>4, <1>5, <1>6, OtherStagesNext DEF QueryInv

LEMMA ResolveEndpointsKeeps ==
  ASSUME QueryInv, ResolveEndpoints
  PROVE  QueryInv'
<1>1. at = "lookup" /\ request.kind = "path" /\ UNCHANGED <<snapshot, request, search, answer>>
  BY DEF ResolveEndpoints
<1>2. CASE \E s, t \in Node :
             /\ walk' = [NoWalk EXCEPT !.start = {s}, !.source = s, !.target = t]
             /\ at' = "scope"
  <2>0. PICK s \in Node : \E t \in Node :
             /\ walk' = [NoWalk EXCEPT !.start = {s}, !.source = s, !.target = t]
             /\ at' = "scope"
    BY <1>2
  <2>1. PICK t \in Node :
             /\ walk' = [NoWalk EXCEPT !.start = {s}, !.source = s, !.target = t]
             /\ at' = "scope"
    BY <2>0
  <2>. DEFINE to == [NoWalk EXCEPT !.start = {s}, !.source = s, !.target = t]
  <2>2. to.depth = 0 /\ to.start = {s} /\ to.source = s /\ to.target = t /\ to.nodes = {}
        /\ to.edges = {} /\ to.frontier = {} /\ to.next = {} /\ to.pending = {}
        /\ to.reasons = {} /\ to.boundary = None
    BY DEF NoWalk
  <2>9. to \in WalkType
    BY NoWalkTyped DEF WalkType
  <2>3. walk' = to
    BY <2>1
  <2>. HIDE DEF to
  <2>4. TypeOK'
    <3>1. TypeOK /\ UNCHANGED <<snapshot, request, search, answer>> /\ at' = "scope"
      BY <1>1, <2>1 DEF QueryInv
    <3>2. walk' \in WalkType /\ walk'.depth <= request.depth
      BY <3>1, <2>2, <2>9, <2>3, TypesAre
    <3>. QED  BY <3>1, <3>2, WalkMoves
  <2>5. StagesFollow'
    BY <1>1, <2>1, <2>2, <2>3 DEF QueryInv, StagesFollow, snapshot, Undisturbed
  <2>6. WalkStaysInBounds'
    BY <2>1, <2>2, <2>3 DEF WalkStaysInBounds, Walked
  <2>7. Roots' = walk'.start \cap visible'.nodes
    BY <1>1, <2>2, <2>3 DEF Roots
  <2>8. UndisturbedWalkIsByLevels'
    BY <2>1, <2>7 DEF UndisturbedWalkIsByLevels, Walked
  <2>. QED  BY <2>1, <2>4, <2>5, <2>6, <2>8, OtherStagesNext DEF QueryInv
<1>3. CASE walk' = NoWalk /\ at' = "done"
  <2>1. TypeOK'
    BY <1>1, <1>3, WalkMoves, TypesAre, NoWalkTyped DEF QueryInv, NoWalk
  <2>2. StagesFollow'
    BY <1>1, <1>3 DEF QueryInv, StagesFollow, snapshot, Undisturbed
  <2>3. PathIsShortest' /\ ExplanationIsExact'
    BY <1>1, <1>3 DEF PathIsShortest, ExplanationIsExact, QueryInv, StagesFollow, NoAnswer, NoWalk
  <2>. QED  BY <1>3, <2>1, <2>2, <2>3, OtherStagesNext DEF QueryInv
<1>. QED  BY <1>2, <1>3 DEF ResolveEndpoints

LEMMA ReadScopeKeeps ==
  ASSUME QueryInv, ReadScope
  PROVE  QueryInv'
<1>. DEFINE scope == IF request.projects = {} THEN {} ELSE ReadScopedNodeIDs(visible, request.projects)
            to == [walk EXCEPT !.scope = scope]
<1>1. /\ walk' = to /\ at' = "starts" /\ at = "scope" /\ UNCHANGED <<snapshot, request, search, answer>>
  BY DEF ReadScope
<1>2. scope \subseteq Node /\ Scope(visible) = (IF scope = {} THEN Node ELSE scope)
  <2>1. CASE request.projects = {}
    BY <2>1 DEF Scope
  <2>2. CASE request.projects # {}
    <3>1. request.projects \subseteq ReadScopedNodeIDs(visible, request.projects)
      BY TypesAre DEF ReadScopedNodeIDs, QueryInv
    <3>2. ReadScopedNodeIDs(visible, request.projects) \subseteq Node
      BY DEF ReadScopedNodeIDs
    <3>. QED  BY <2>2, <3>1, <3>2 DEF Scope
  <2>. QED  BY <2>1, <2>2
<1>. HIDE DEF scope
<1>3. walk \in WalkType
  BY TypesAre DEF QueryInv
<1>4. /\ to \in WalkType /\ to.scope = scope
      /\ to.start = walk.start /\ to.direction = walk.direction
      /\ to.source = walk.source /\ to.target = walk.target
      /\ to.nodes = {} /\ to.edges = {} /\ to.frontier = {} /\ to.next = {} /\ to.pending = {}
      /\ to.depth = 0 /\ to.reasons = {} /\ to.boundary = None
  BY <1>1, <1>2, <1>3 DEF WalkType, QueryInv, WalkStaysInBounds, NoWalk
<1>5. walk' = to
  BY <1>1
<1>. HIDE DEF to
<1>6. TypeOK'
  BY <1>1, <1>4, <1>5, WalkMoves, TypesAre DEF QueryInv
<1>7. StagesFollow'
  BY <1>1, <1>4, <1>5 DEF QueryInv, StagesFollow, snapshot, Undisturbed
<1>8. WalkStaysInBounds'
  BY <1>1, <1>4, <1>5, <1>6, TypesAre, FS_EmptySet DEF WalkStaysInBounds, Walked, QueryInv
<1>9. UndisturbedWalkIsByLevels'
  <2>1. Scope(visible)' = Scope(visible) /\ Roots' = Roots
    BY <1>1, <1>4, <1>5, ReferenceSame DEF snapshot
  <2>. QED
    BY <1>1, <1>2, <1>4, <1>5, <2>1
       DEF UndisturbedWalkIsByLevels, Walked, Undisturbed, snapshot, QueryInv
<1>. QED  BY <1>1, <1>6, <1>7, <1>8, <1>9, OtherStagesNext DEF QueryInv
-----------------------------------------------------------------------------
(* The start nodes of a walk.                                              *)

(* A node more than the limit allows is a node too many. *)
LEMMA NoRoom ==
  ASSUME NEW R \in SUBSET Node, NEW S \in SUBSET R, NEW n \in R, n \notin S
  PROVE  /\ Cardinality(S) \in Nat /\ Cardinality(R) \in Nat
         /\ Cardinality(S) < Cardinality(R)
         /\ Cardinality(S \cup {n}) = Cardinality(S) + 1
<1>1. IsFiniteSet(R) /\ IsFiniteSet(S)
  BY QueryAssumption, FS_Subset
<1>2. Cardinality(S \cup {n}) = Cardinality(S) + 1 /\ IsFiniteSet(S \cup {n})
  BY <1>1, FS_AddElement
<1>3. Cardinality(S \cup {n}) <= Cardinality(R)
  BY <1>1, FS_Subset
<1>4. Cardinality(S) \in Nat /\ Cardinality(R) \in Nat
  BY <1>1, FS_CardinalityType
<1>. QED  BY <1>2, <1>3, <1>4

LEMMA ReachableIs ==
  ASSUME TypeOK
  PROVE  /\ \A d \in Int : Reachable(d) \subseteq Node
         /\ \A d \in Nat : Roots \subseteq Reachable(d)
         /\ \A d, e \in Int : d <= e => Reachable(d) \subseteq Reachable(e)
         /\ Reachable(0) \subseteq Roots
BY SnapshotTyped, WithinTyped, WithinRoots, WithinGrows, WithinZero DEF Reachable

(* A selected start node is at distance 0, in the snapshot and the facts.  *)
StartsSelectedAreNear ==
  /\ TypeOK /\ (walk.source \in Node \/ request.kind = "query")
  /\ walk.depth = 0 /\ walk.next = {} /\ walk.pending = {}
  /\ walk.frontier \subseteq Roots /\ walk.nodes \subseteq Roots
  => /\ walk.nodes \subseteq Reachable(request.depth)
     /\ walk.frontier \subseteq Reachable(walk.depth)
     /\ walk.next \subseteq Reachable(walk.depth + 1) \ Reachable(walk.depth)
     /\ walk.pending # {} => walk.from \in Reachable(walk.depth)
     /\ request.kind = "path" =>
          \A d \in 0 .. request.depth : walk.nodes \cap Reachable(d) \subseteq FactsWithin(d)

LEMMA StartsAreNear == StartsSelectedAreNear
<1>. SUFFICES ASSUME TypeOK, walk.source \in Node \/ request.kind = "query",
                     walk.depth = 0, walk.next = {}, walk.pending = {},
                     walk.frontier \subseteq Roots, walk.nodes \subseteq Roots
              PROVE  /\ walk.nodes \subseteq Reachable(request.depth)
                     /\ walk.frontier \subseteq Reachable(walk.depth)
                     /\ request.kind = "path" =>
                          \A d \in 0 .. request.depth :
                            walk.nodes \cap Reachable(d) \subseteq FactsWithin(d)
  BY DEF StartsSelectedAreNear
<1>1. walk.nodes \subseteq Reachable(request.depth) /\ walk.frontier \subseteq Reachable(walk.depth)
  BY ReachableIs, TypesAre
<1>2. ASSUME request.kind = "path", NEW d \in 0 .. request.depth, NEW n \in walk.nodes
      PROVE  n \in FactsWithin(d)
  <2>1. n = walk.source
    BY <1>2 DEF Roots
  <2>2. {walk.source} \in SUBSET Node
    BY <1>2
  <2>. QED  BY <2>1, <2>2, WithinRoots DEF FactsWithin
<1>. QED  BY <1>1, <1>2

LEMMA StartsAreNearNext == StartsSelectedAreNear'
BY StartsAreNear, PTL

LEMMA SelectStartKeeps ==
  ASSUME QueryInv, SelectStart
  PROVE  QueryInv'
<1>. DEFINE n == Min(walk.start)
            rest == [walk EXCEPT !.start = @ \ {n}]
<1>1. at = "starts" /\ walk.start # {} /\ UNCHANGED <<snapshot, request, search, answer>>
  BY DEF SelectStart
<1>2. /\ TypeOK /\ walk \in WalkType /\ walk.depth = 0 /\ request.depth \in Nat
      /\ request.kind \in {"query", "path"} /\ (walk.source \in Node \/ request.kind = "query")
      /\ walk.edges = {} /\ walk.frontier = walk.nodes /\ walk.next = {} /\ walk.pending = {}
      /\ walk.reasons = {} /\ walk.boundary = None /\ walk.start \cap walk.nodes = {}
      /\ Cardinality(walk.nodes) <= request.nodes
      /\ \A m \in walk.nodes : ~OutOfScope(m)
  BY <1>1, TypesAre DEF QueryInv, WalkStaysInBounds, StagesFollow, Walked
<1>3. walk.start \in SUBSET Node /\ n \in walk.start /\ n \in Node
  BY <1>1, <1>2, MinIsIn DEF WalkType
<1>. HIDE DEF n
<1>4. /\ rest \in WalkType /\ rest.start = walk.start \ {n} /\ rest.depth = 0
      /\ rest.direction = walk.direction /\ rest.source = walk.source /\ rest.target = walk.target
      /\ rest.scope = walk.scope /\ rest.nodes = walk.nodes /\ rest.edges = {}
      /\ rest.frontier = walk.nodes /\ rest.next = {} /\ rest.pending = {}
      /\ rest.reasons = {} /\ rest.boundary = None
  BY <1>2 DEF WalkType
<1>5. ASSUME walk'.direction = walk.direction, walk'.source = walk.source, walk'.scope = walk.scope
      PROVE  /\ Scope(visible)' = Scope(visible) /\ Roots' = Roots
             /\ \A d : Reachable(d)' = Reachable(d)
             /\ \A m : OutOfScope(m)' <=> OutOfScope(m)
  BY <1>1, <1>5, ReferenceSame DEF snapshot, OutOfScope
<1>6. CASE n \notin visible.nodes /\ walk' = rest /\ at' = at
  <2>. HIDE DEF rest
  <2>1. TypeOK'
    BY <1>1, <1>2, <1>4, <1>6, WalkMoves
  <2>2. StagesFollow'
    BY <1>1, <1>4, <1>6 DEF QueryInv, StagesFollow, snapshot, Undisturbed
  <2>3. WalkStaysInBounds'
    BY <1>1, <1>2, <1>4, <1>5, <1>6 DEF WalkStaysInBounds, Walked
  <2>4. UndisturbedWalkIsByLevels'
    <3>. SUFFICES ASSUME Undisturbed
                  PROVE  UndisturbedWalkIsByLevels'
      BY <1>1 DEF UndisturbedWalkIsByLevels, Undisturbed, snapshot
    <3>1. /\ Roots = (walk.start \cap visible.nodes) \cup walk.nodes
          /\ Scope(visible) = IF walk.scope = {} THEN Node ELSE walk.scope
      BY <1>1 DEF QueryInv, UndisturbedWalkIsByLevels, Walked
    <3>2. Roots' = (walk'.start \cap visible'.nodes) \cup walk'.nodes
      BY <1>1, <1>4, <1>5, <1>6, <3>1 DEF snapshot
    <3>3. Scope(visible)' = IF walk'.scope = {} THEN Node ELSE walk'.scope
      BY <1>4, <1>5, <1>6, <3>1
    <3>. QED
      BY <1>1, <1>2, <1>4, <1>6, <2>1, <3>2, <3>3, StartsAreNearNext
         DEF UndisturbedWalkIsByLevels, Walked, StartsSelectedAreNear
  <2>. QED  BY <1>1, <1>6, <2>1, <2>2, <2>3, <2>4, OtherStagesNext DEF QueryInv
<1>7. CASE walk' = walk /\ at' = "error"
  <2>1. TypeOK'
    BY <1>1, <1>2, <1>7, WalkMoves
  <2>2. StagesFollow'
    BY <1>1, <1>7 DEF QueryInv, StagesFollow, snapshot, Undisturbed
  <2>. QED  BY <1>7, <2>1, <2>2, OtherStagesNext DEF QueryInv
<1>8. CASE /\ n \in visible.nodes /\ ~OutOfScope(n) /\ Cardinality(walk.nodes) = request.nodes
           /\ walk' = [rest EXCEPT !.reasons = {"node_limit"}] /\ at' = "return"
  <2>1. /\ walk' \in WalkType /\ walk'.depth = 0
        /\ walk'.direction = walk.direction /\ walk'.source = walk.source /\ walk'.target = walk.target
        /\ walk'.scope = walk.scope /\ walk'.nodes = walk.nodes /\ walk'.edges = {}
        /\ walk'.frontier = walk.nodes /\ walk'.next = {} /\ walk'.pending = {}
        /\ walk'.reasons = {"node_limit"} /\ walk'.boundary = None
    BY <1>4, <1>8 DEF WalkType, Reason
  <2>2. TypeOK'
    BY <1>1, <1>2, <2>1, <1>8, WalkMoves
  <2>3. StagesFollow'
    BY <1>1, <2>1, <1>8 DEF QueryInv, StagesFollow, snapshot, Undisturbed
  <2>4. WalkStaysInBounds'
    BY <1>1, <1>2, <2>1, <1>5, <1>8 DEF WalkStaysInBounds, Walked
  <2>5. UndisturbedWalkIsByLevels'
    <3>. SUFFICES ASSUME Undisturbed
                  PROVE  UndisturbedWalkIsByLevels'
      BY <1>1 DEF UndisturbedWalkIsByLevels, Undisturbed, snapshot
    <3>1. /\ Roots = (walk.start \cap visible.nodes) \cup walk.nodes
          /\ Scope(visible) = IF walk.scope = {} THEN Node ELSE walk.scope
      BY <1>1 DEF QueryInv, UndisturbedWalkIsByLevels, Walked
    <3>2. walk'.nodes \subseteq Roots'
      BY <2>1, <1>5, <3>1
    <3>3. Scope(visible)' = IF walk'.scope = {} THEN Node ELSE walk'.scope
      BY <2>1, <1>5, <3>1
    <3>4. ~Unlimited'
      <4>1. Roots \subseteq Reachable(request.depth) /\ Reachable(request.depth) \in SUBSET Node
        BY <1>2, ReachableIs
      <4>2. n \in Roots /\ walk.nodes \subseteq Roots /\ n \notin walk.nodes
        BY <1>2, <1>3, <1>8, <3>1
      <4>3. Cardinality(walk.nodes) < Cardinality(Reachable(request.depth))
        BY <4>1, <4>2, NoRoom
      <4>4. Cardinality(walk.nodes) \in Nat /\ Cardinality(Reachable(request.depth)) \in Nat
        BY <4>1, <4>2, NoRoom
      <4>5. Reachable(request.depth)' = Reachable(request.depth)
        BY <1>1, <1>5, <2>1
      <4>6. ~(Cardinality(Reachable(request.depth)) <= request.nodes)
        BY <1>8, <4>3, <4>4
      <4>. QED  BY <1>1, <2>1, <4>5, <4>6 DEF Unlimited
    <3>. QED
      BY <1>1, <1>2, <2>1, <1>8, <2>2, <3>2, <3>3, <3>4, StartsAreNearNext
         DEF UndisturbedWalkIsByLevels, Walked, StartsSelectedAreNear
  <2>. QED  BY <1>8, <2>2, <2>3, <2>4, <2>5, OtherStagesNext DEF QueryInv
<1>9. CASE /\ n \in visible.nodes /\ ~OutOfScope(n) /\ Cardinality(walk.nodes) # request.nodes
           /\ walk' = [rest EXCEPT !.nodes = @ \cup {n}, !.frontier = @ \cup {n}] /\ at' = at
  <2>1. /\ walk' \in WalkType /\ walk'.depth = 0 /\ walk'.start = walk.start \ {n}
        /\ walk'.direction = walk.direction /\ walk'.source = walk.source /\ walk'.target = walk.target
        /\ walk'.scope = walk.scope /\ walk'.nodes = walk.nodes \cup {n} /\ walk'.edges = {}
        /\ walk'.frontier = walk.nodes \cup {n} /\ walk'.next = {} /\ walk'.pending = {}
        /\ walk'.reasons = {} /\ walk'.boundary = None
    <3>. DEFINE to == [rest EXCEPT !.nodes = @ \cup {n}, !.frontier = @ \cup {n}]
    <3>1. to \in WalkType
      BY <1>3, <1>4 DEF WalkType
    <3>2. /\ to.depth = rest.depth /\ to.start = rest.start
          /\ to.direction = rest.direction /\ to.source = rest.source /\ to.target = rest.target
          /\ to.scope = rest.scope /\ to.nodes = rest.nodes \cup {n} /\ to.edges = rest.edges
          /\ to.frontier = rest.frontier \cup {n} /\ to.next = rest.next /\ to.pending = rest.pending
          /\ to.reasons = rest.reasons /\ to.boundary = rest.boundary
      BY <1>4 DEF WalkType
    <3>3. walk' = to
      BY <1>9
    <3>. HIDE DEF to, rest
    <3>. QED  BY <1>4, <3>1, <3>2, <3>3
  <2>2. TypeOK'
    BY <1>1, <1>2, <2>1, <1>9, WalkMoves
  <2>3. StagesFollow'
    BY <1>1, <2>1, <1>9 DEF QueryInv, StagesFollow, snapshot, Undisturbed
  <2>4. WalkStaysInBounds'
    <3>1. Cardinality(walk'.nodes) <= request'.nodes
      <4>1. walk.nodes \in SUBSET Node /\ n \notin walk.nodes
        BY <1>2, <1>3 DEF WalkType
      <4>4. Node \in SUBSET Node
        OBVIOUS
      <4>5. /\ Cardinality(walk.nodes) \in Nat
            /\ Cardinality(walk.nodes \cup {n}) = Cardinality(walk.nodes) + 1
        BY <1>3, <4>1, <4>4, NoRoom
      <4>2. Cardinality(walk.nodes) \in Nat /\ Cardinality(walk'.nodes) = Cardinality(walk.nodes) + 1
        BY <2>1, <4>5
      <4>3. request.nodes \in Nat
        BY <1>2, TypesAre
      <4>. QED  BY <1>1, <1>2, <1>9, <4>2, <4>3
    <3>. QED
      BY <1>1, <1>2, <1>3, <2>1, <1>5, <1>9, <3>1 DEF WalkStaysInBounds, Walked
  <2>5. UndisturbedWalkIsByLevels'
    <3>. SUFFICES ASSUME Undisturbed
                  PROVE  UndisturbedWalkIsByLevels'
      BY <1>1 DEF UndisturbedWalkIsByLevels, Undisturbed, snapshot
    <3>1. /\ Roots = (walk.start \cap visible.nodes) \cup walk.nodes
          /\ Scope(visible) = IF walk.scope = {} THEN Node ELSE walk.scope
      BY <1>1 DEF QueryInv, UndisturbedWalkIsByLevels, Walked
    <3>2. Roots' = (walk'.start \cap visible'.nodes) \cup walk'.nodes
      BY <1>1, <1>3, <2>1, <1>5, <1>9, <3>1 DEF snapshot
    <3>3. Scope(visible)' = IF walk'.scope = {} THEN Node ELSE walk'.scope
      BY <2>1, <1>5, <3>1
    <3>. QED
      BY <1>1, <1>2, <2>1, <1>9, <2>2, <3>2, <3>3, StartsAreNearNext
         DEF UndisturbedWalkIsByLevels, Walked, StartsSelectedAreNear
  <2>. QED  BY <1>1, <1>9, <2>2, <2>3, <2>4, <2>5, OtherStagesNext DEF QueryInv
<1>. QED  BY <1>6, <1>7, <1>8, <1>9 DEF SelectStart, n

(* Without steps yet, nothing but the start nodes is within the depth of   *)
(* the walk, and none of them was walked from.                             *)
LEMMA StartsSelectedKeeps ==
  ASSUME QueryInv, StartsSelected
  PROVE  QueryInv'
<1>1. at = "starts" /\ walk.start = {} /\ at' = "expand" /\ UNCHANGED <<snapshot, request, walk, search, answer>>
  BY DEF StartsSelected
<1>2. /\ TypeOK /\ walk \in WalkType /\ walk.depth = 0 /\ request.depth \in Nat
      /\ walk.frontier = walk.nodes
  BY <1>1, TypesAre DEF QueryInv, WalkStaysInBounds
<1>3. TypeOK'
  BY <1>1, <1>2, WalkMoves
<1>4. StagesFollow'
  BY <1>1 DEF QueryInv, StagesFollow, snapshot, Undisturbed
<1>5. WalkStaysInBounds'
  BY <1>1 DEF QueryInv, WalkStaysInBounds, Walked, OutOfScope, Included, snapshot
<1>6. UndisturbedWalkIsByLevels'
  <2>. SUFFICES ASSUME Undisturbed
                PROVE  UndisturbedWalkIsByLevels'
    BY <1>1 DEF UndisturbedWalkIsByLevels, Undisturbed, snapshot
  <2>1. /\ Scope(visible)' = Scope(visible) /\ Roots' = Roots
        /\ \A d : Reachable(d)' = Reachable(d)
        /\ \A d : FactsWithin(d)' = FactsWithin(d)
    BY <1>1, ReferenceSame, FactsSame DEF snapshot
  <2>2. Roots = walk.nodes
    BY <1>1 DEF QueryInv, UndisturbedWalkIsByLevels
  <2>3. Reachable(walk.depth) \subseteq walk.nodes
    BY <1>2, <2>2, ReachableIs
  <2>4. Closed'
    BY <1>1, <1>2 DEF Closed
  <2>. QED
    BY <1>1, <2>1, <2>2, <2>3, <2>4 DEF QueryInv, UndisturbedWalkIsByLevels, Walked
<1>. QED  BY <1>1, <1>3, <1>4, <1>5, <1>6, OtherStagesNext DEF QueryInv
-----------------------------------------------------------------------------
(* The levels of a walk.                                                   *)

(* What the steps of a walk read does not change with what it has found.   *)
LEMMA ReadingSame ==
  ASSUME UNCHANGED request, walk'.direction = walk.direction, walk'.scope = walk.scope
  PROVE  /\ \A n, e : Neighbors(n, e)' = Neighbors(n, e)
         /\ \A e : Included(e)' <=> Included(e)
         /\ \A n : OutOfScope(n)' <=> OutOfScope(n)
BY DEF Neighbors, Included, OutOfScope

LEMMA ExpandingWalk ==
  ASSUME QueryInv, at = "expand"
  PROVE  /\ TypeOK /\ walk \in WalkType /\ walk.depth \in Nat /\ request.depth \in Nat
         /\ request.nodes \in Nat /\ walk.depth <= request.depth
         /\ walk.nodes \in SUBSET Node /\ walk.frontier \in SUBSET Node /\ walk.next \in SUBSET Node
         /\ request.kind \in {"query", "path"} /\ (request.kind = "path" => walk.source \in Node)
         /\ visible.nodes \subseteq seen.nodes /\ visible.edges \subseteq seen.edges
         /\ Cardinality(walk.nodes) \in Nat /\ Cardinality(walk.nodes) <= request.nodes
         /\ "node_limit" \in walk.reasons => Cardinality(walk.nodes) = request.nodes
         /\ walk.edges \subseteq {e \in seen.edges : Included(e)}
         /\ \A e \in walk.edges : {e.source, e.target} \subseteq walk.nodes
         /\ walk.boundary = None => \A n \in walk.nodes : ~OutOfScope(n)
         /\ \A n \in walk.frontier \cup walk.next : n \in walk.nodes /\ ~OutOfScope(n)
         /\ walk.next # {} => walk.depth < request.depth
         /\ walk.pending # {} =>
              /\ walk.depth < request.depth /\ walk.from \in walk.nodes /\ ~OutOfScope(walk.from)
              /\ \A e \in walk.pending : e \in seen.edges
         /\ "depth_limit" \in walk.reasons => walk.depth = request.depth
BY TypesAre DEF QueryInv, WalkStaysInBounds, StagesFollow, Walked, WalkType

LEMMA UndisturbedExpandingWalk ==
  ASSUME QueryInv, at = "expand", Undisturbed
  PROVE  /\ seen = visible
         /\ Scope(visible) = IF walk.scope = {} THEN Node ELSE walk.scope
         /\ \A n \in Node : n \in Scope(visible) <=> ~OutOfScope(n)
         /\ walk.nodes \subseteq Reachable(request.depth)
         /\ walk.frontier \subseteq Reachable(walk.depth)
         /\ walk.next \subseteq Reachable(walk.depth + 1) \ Reachable(walk.depth)
         /\ walk.pending # {} => walk.from \in Reachable(walk.depth)
         /\ request.kind = "path" =>
              \A d \in 0 .. request.depth : walk.nodes \cap Reachable(d) \subseteq FactsWithin(d)
         /\ Unlimited => /\ Roots \subseteq walk.nodes
                         /\ Reachable(walk.depth) \subseteq walk.nodes
                         /\ "depth_limit" \notin walk.reasons => Closed
<1>1. seen = visible
  BY DEF QueryInv, StagesFollow
<1>2. Scope(visible) = IF walk.scope = {} THEN Node ELSE walk.scope
  BY DEF QueryInv, UndisturbedWalkIsByLevels, Walked
<1>3. \A n \in Node : n \in Scope(visible) <=> ~OutOfScope(n)
  BY <1>2 DEF OutOfScope
<1>. QED  BY <1>1, <1>2, <1>3 DEF QueryInv, UndisturbedWalkIsByLevels, Walked

(* Steps that keep what a walk is of keep the reference. *)
LEMMA WalkReferenceSame ==
  ASSUME UNCHANGED <<snapshot, request>>, walk'.direction = walk.direction,
         walk'.source = walk.source, walk'.scope = walk.scope
  PROVE  /\ Scope(visible)' = Scope(visible) /\ Roots' = Roots
         /\ \A d : Reachable(d)' = Reachable(d)
         /\ \A n, e : Neighbors(n, e)' = Neighbors(n, e)
         /\ \A e : Included(e)' <=> Included(e)
         /\ \A n : OutOfScope(n)' <=> OutOfScope(n)
         /\ Undisturbed' <=> Undisturbed
         /\ ("node_limit" \in walk'.reasons <=> "node_limit" \in walk.reasons) => (Unlimited' <=> Unlimited)
<1>1. /\ Scope(visible)' = Scope(visible) /\ Roots' = Roots
      /\ \A d : Reachable(d)' = Reachable(d)
  BY ReferenceSame DEF snapshot
<1>2. Undisturbed' <=> Undisturbed
  BY DEF Undisturbed, snapshot
<1>3. ("node_limit" \in walk'.reasons <=> "node_limit" \in walk.reasons) => (Unlimited' <=> Unlimited)
  BY <1>1 DEF Unlimited
<1>. QED  BY <1>1, <1>2, <1>3, ReadingSame

LEMMA ExpandNodeKeeps ==
  ASSUME QueryInv, ExpandNode
  PROVE  QueryInv'
<1>. DEFINE n == Min(walk.frontier)
<1>1. /\ at = "expand" /\ at' = "expand" /\ walk.depth < request.depth
      /\ walk.pending = {} /\ walk.frontier # {}
      /\ walk' = [walk EXCEPT !.frontier = @ \ {n}, !.from = n, !.pending = ReadIncidentEdges(n)]
      /\ UNCHANGED <<snapshot, request, search, answer>>
  BY DEF ExpandNode
<1>2. n \in walk.frontier /\ n \in Node /\ n \in walk.nodes /\ ~OutOfScope(n)
  BY <1>1, MinIsIn, ExpandingWalk
<1>. HIDE DEF n
<1>3. ReadIncidentEdges(n) \subseteq visible.edges /\ ReadIncidentEdges(n) \subseteq Edge
  BY SnapshotTyped DEF ReadIncidentEdges, QueryInv
<1>4. /\ walk' \in WalkType /\ walk'.depth = walk.depth
      /\ walk'.direction = walk.direction /\ walk'.source = walk.source /\ walk'.target = walk.target
      /\ walk'.scope = walk.scope /\ walk'.nodes = walk.nodes /\ walk'.edges = walk.edges
      /\ walk'.frontier = walk.frontier \ {n} /\ walk'.next = walk.next
      /\ walk'.from = n /\ walk'.pending = ReadIncidentEdges(n)
      /\ walk'.reasons = walk.reasons /\ walk'.boundary = walk.boundary
  BY <1>1, <1>2, <1>3, ExpandingWalk DEF WalkType
<1>5. TypeOK'
  BY <1>1, <1>4, ExpandingWalk, WalkMoves
<1>6. StagesFollow'
  BY <1>1, <1>4, WalkReferenceSame DEF QueryInv, StagesFollow, snapshot
<1>7. WalkStaysInBounds'
  BY <1>1, <1>2, <1>3, <1>4, ExpandingWalk, WalkReferenceSame DEF WalkStaysInBounds, Walked, snapshot
<1>8. UndisturbedWalkIsByLevels'
  <2>. SUFFICES ASSUME Undisturbed
                PROVE  UndisturbedWalkIsByLevels'
    BY <1>1, <1>4, WalkReferenceSame DEF UndisturbedWalkIsByLevels
  <2>1. \A d : FactsWithin(d)' = FactsWithin(d)
    BY <1>1, <1>4, FactsSame
  <2>2. ASSUME Closed PROVE Closed'
    <3>. SUFFICES ASSUME NEW a \in walk.nodes, NEW e \in visible.edges, NEW m \in visible.nodes,
                         a \in Scope(visible), Included(e), m \in Neighbors(a, e),
                         a \notin (walk.frontier \ {n}) \cup walk.next,
                         ~(a = n /\ e \in ReadIncidentEdges(n))
                  PROVE  m \in walk.nodes
      BY <1>1, <1>4, WalkReferenceSame DEF Closed, snapshot
    <3>1. a # n
      <4>1. a \in {e.source, e.target}
        BY NeighborsAre
      <4>. QED  BY <4>1 DEF ReadIncidentEdges
    <3>. QED  BY <1>1, <2>2, <3>1 DEF Closed
  <2>. QED
    BY <1>1, <1>2, <1>4, <2>1, <2>2, UndisturbedExpandingWalk, WalkReferenceSame
       DEF UndisturbedWalkIsByLevels, Walked, snapshot
<1>. QED  BY <1>1, <1>5, <1>6, <1>7, <1>8, OtherStagesNext DEF QueryInv

(* Following an edge either takes the node it leads to along with the      *)
(* edge, or drops both at the limit.                                       *)
Followed(w, e, m, to) ==
  /\ to \in WalkType
  /\ to.direction = w.direction /\ to.source = w.source /\ to.target = w.target
  /\ to.scope = w.scope /\ to.depth = w.depth /\ to.from = w.from
  /\ to.pending = w.pending /\ to.frontier = w.frontier
  /\ to.boundary = None => w.boundary = None /\ ~OutOfScope(m)
  /\ \/ /\ m \in w.nodes \/ ~(Cardinality(w.nodes) = request.nodes)
        /\ to.nodes = w.nodes \cup {m} /\ to.edges = w.edges \cup {e}
        /\ to.reasons = w.reasons
        /\ to.next = IF OutOfScope(m) \/ m \in w.nodes THEN w.next ELSE w.next \cup {m}
     \/ /\ Cardinality(w.nodes) = request.nodes
        /\ to.nodes = w.nodes /\ to.edges = w.edges
        /\ to.reasons = w.reasons \cup {"node_limit"} /\ to.next = w.next

LEMMA FollowIs ==
  ASSUME NEW w \in WalkType, NEW e \in Edge, NEW m \in Node
  PROVE  Followed(w, e, m, Follow(w, e, m))
<1>. DEFINE full == Cardinality(w.nodes) = request.nodes
            limited == [w EXCEPT !.reasons = @ \cup {"node_limit"}]
            found == [w EXCEPT !.nodes = @ \cup {m}, !.edges = @ \cup {e}]
            bound(x) == [x EXCEPT !.boundary = IF @ = None THEN m ELSE @]
<1>1. m # None
  BY QueryAssumption
<1>2. limited \in WalkType /\ found \in WalkType
  BY DEF WalkType, Reason
<1>a. ASSUME NEW x \in WalkType PROVE bound(x) \in WalkType
  BY DEF WalkType
<1>3. CASE OutOfScope(m) /\ full
  <2>1. Follow(w, e, m) = bound(limited)
    BY <1>3 DEF Follow
  <2>2. bound(limited) \in WalkType
    <3>. HIDE DEF limited, bound
    <3>. QED  BY <1>2, <1>a
  <2>3. /\ bound(limited).direction = w.direction /\ bound(limited).source = w.source
        /\ bound(limited).target = w.target /\ bound(limited).scope = w.scope
        /\ bound(limited).depth = w.depth /\ bound(limited).from = w.from
        /\ bound(limited).pending = w.pending /\ bound(limited).frontier = w.frontier
        /\ bound(limited).next = w.next
    BY DEF WalkType
  <2>4. /\ bound(limited).nodes = w.nodes /\ bound(limited).edges = w.edges
        /\ bound(limited).reasons = w.reasons \cup {"node_limit"}
    BY DEF WalkType
  <2>5. bound(limited).boundary # None
    BY <1>1 DEF WalkType
  <2>. HIDE DEF limited, found, bound
  <2>. QED  BY <1>3, <2>1, <2>2, <2>3, <2>4, <2>5 DEF Followed
<1>4. CASE OutOfScope(m) /\ ~full
  <2>1. Follow(w, e, m) = bound(found)
    BY <1>4 DEF Follow
  <2>2. bound(found) \in WalkType
    <3>. HIDE DEF found, bound
    <3>. QED  BY <1>2, <1>a
  <2>3. /\ bound(found).direction = w.direction /\ bound(found).source = w.source
        /\ bound(found).target = w.target /\ bound(found).scope = w.scope
        /\ bound(found).depth = w.depth /\ bound(found).from = w.from
        /\ bound(found).pending = w.pending /\ bound(found).frontier = w.frontier
        /\ bound(found).next = w.next
    BY DEF WalkType
  <2>4. /\ bound(found).nodes = w.nodes \cup {m} /\ bound(found).edges = w.edges \cup {e}
        /\ bound(found).reasons = w.reasons
    BY DEF WalkType
  <2>5. bound(found).boundary # None
    BY <1>1 DEF WalkType
  <2>. HIDE DEF limited, found, bound
  <2>. QED  BY <1>4, <2>1, <2>2, <2>3, <2>4, <2>5 DEF Followed
<1>5. CASE ~OutOfScope(m) /\ m \in w.nodes
  <2>1. Follow(w, e, m) = found
    BY <1>5 DEF Follow
  <2>. QED  BY <1>2, <1>5, <2>1 DEF WalkType, Followed
<1>6. CASE ~OutOfScope(m) /\ m \notin w.nodes /\ full
  <2>1. Follow(w, e, m) = limited
    BY <1>6 DEF Follow
  <2>. QED  BY <1>2, <1>6, <2>1 DEF WalkType, Followed
<1>7. CASE ~OutOfScope(m) /\ m \notin w.nodes /\ ~full
  <2>. DEFINE next == [found EXCEPT !.next = @ \cup {m}]
  <2>1. Follow(w, e, m) = next
    BY <1>7 DEF Follow
  <2>2. next \in WalkType
    BY <1>2 DEF WalkType
  <2>. QED  BY <1>7, <2>1, <2>2 DEF WalkType, Followed
<1>. QED  BY <1>3, <1>4, <1>5, <1>6, <1>7

(* An edge that was read is gone from those to come. *)
LEMMA VisitKeeps ==
  ASSUME QueryInv, at = "expand", at' = "expand", UNCHANGED <<snapshot, request, search, answer>>,
         NEW e \in walk.pending,
         walk' = [walk EXCEPT !.pending = @ \ {e}],
         Undisturbed => \A m \in visible.nodes : ~(Included(e) /\ m \in Neighbors(walk.from, e))
  PROVE  QueryInv'
<1>1. /\ walk' \in WalkType /\ walk'.depth = walk.depth
      /\ walk'.direction = walk.direction /\ walk'.source = walk.source /\ walk'.target = walk.target
      /\ walk'.scope = walk.scope /\ walk'.nodes = walk.nodes /\ walk'.edges = walk.edges
      /\ walk'.frontier = walk.frontier /\ walk'.next = walk.next
      /\ walk'.from = walk.from /\ walk'.pending = walk.pending \ {e}
      /\ walk'.reasons = walk.reasons /\ walk'.boundary = walk.boundary
  BY ExpandingWalk DEF WalkType
<1>2. TypeOK'
  BY <1>1, ExpandingWalk, WalkMoves
<1>3. StagesFollow'
  BY <1>1, WalkReferenceSame DEF QueryInv, StagesFollow, snapshot
<1>4. WalkStaysInBounds'
  BY <1>1, ExpandingWalk, WalkReferenceSame DEF WalkStaysInBounds, Walked, snapshot
<1>5. UndisturbedWalkIsByLevels'
  <2>. SUFFICES ASSUME Undisturbed
                PROVE  UndisturbedWalkIsByLevels'
    BY <1>1, WalkReferenceSame DEF UndisturbedWalkIsByLevels
  <2>1. \A d : FactsWithin(d)' = FactsWithin(d)
    BY <1>1, FactsSame
  <2>2. ASSUME Closed PROVE Closed'
    <3>. SUFFICES ASSUME NEW a \in walk.nodes, NEW f \in visible.edges, NEW m \in visible.nodes,
                         a \in Scope(visible), Included(f), m \in Neighbors(a, f),
                         a \notin walk.frontier \cup walk.next,
                         ~(a = walk.from /\ f \in walk.pending \ {e})
                  PROVE  m \in walk.nodes
      BY <1>1, WalkReferenceSame DEF Closed, snapshot
    <3>. QED  BY <2>2 DEF Closed
  <2>. QED
    BY <1>1, <2>1, <2>2, UndisturbedExpandingWalk, WalkReferenceSame
       DEF UndisturbedWalkIsByLevels, Walked, snapshot
<1>. QED  BY <1>2, <1>3, <1>4, <1>5, OtherStagesNext DEF QueryInv

LEMMA FollowKeeps ==
  ASSUME QueryInv, at = "expand", at' = "expand", UNCHANGED <<snapshot, request, search, answer>>,
         NEW e \in walk.pending, Included(e),
         NEW m \in Neighbors(walk.from, e), m \in visible.nodes,
         walk' = Follow([walk EXCEPT !.pending = @ \ {e}], e, m)
  PROVE  QueryInv'
<1>. DEFINE full == Cardinality(walk.nodes) = request.nodes
            n == walk.from
<1>1. e \in Edge /\ e \in seen.edges /\ walk.pending # {} /\ m \in Node /\ n \in walk.nodes /\ n \in Node
  BY ExpandingWalk, SnapshotTyped, NeighborsAre DEF QueryInv
<1>2. /\ walk' \in WalkType /\ walk'.depth = walk.depth
      /\ walk'.direction = walk.direction /\ walk'.source = walk.source /\ walk'.target = walk.target
      /\ walk'.scope = walk.scope /\ walk'.frontier = walk.frontier
      /\ walk'.from = n /\ walk'.pending = walk.pending \ {e}
      /\ walk'.boundary = None => walk.boundary = None /\ ~OutOfScope(m)
      /\ \/ /\ m \in walk.nodes \/ ~full
            /\ walk'.nodes = walk.nodes \cup {m} /\ walk'.edges = walk.edges \cup {e}
            /\ walk'.reasons = walk.reasons
            /\ walk'.next = IF OutOfScope(m) \/ m \in walk.nodes THEN walk.next ELSE walk.next \cup {m}
         \/ /\ full
            /\ walk'.nodes = walk.nodes /\ walk'.edges = walk.edges
            /\ walk'.reasons = walk.reasons \cup {"node_limit"} /\ walk'.next = walk.next
  <2>. DEFINE rest == [walk EXCEPT !.pending = @ \ {e}]
  <2>1. /\ rest \in WalkType /\ rest.pending = walk.pending \ {e}
        /\ rest.direction = walk.direction /\ rest.source = walk.source /\ rest.target = walk.target
        /\ rest.scope = walk.scope /\ rest.frontier = walk.frontier /\ rest.from = walk.from
        /\ rest.depth = walk.depth /\ rest.boundary = walk.boundary /\ rest.nodes = walk.nodes
        /\ rest.edges = walk.edges /\ rest.reasons = walk.reasons /\ rest.next = walk.next
    BY ExpandingWalk DEF WalkType
  <2>2. walk' = Follow(rest, e, m)
    OBVIOUS
  <2>. HIDE DEF rest
  <2>3. Followed(rest, e, m, walk')
    BY <1>1, <2>1, <2>2, FollowIs
  <2>. QED  BY <2>1, <2>3 DEF Followed
<1>. HIDE DEF full
<1>3. TypeOK'
  BY <1>2, ExpandingWalk, WalkMoves
<1>4. StagesFollow'
  BY <1>2, WalkReferenceSame DEF QueryInv, StagesFollow, snapshot
<1>5. {e.source, e.target} = {n, m} /\ \A o \in Neighbors(n, e) : o = m
  BY NeighborsAre
<1>6. CASE /\ m \in walk.nodes \/ ~full
           /\ walk'.nodes = walk.nodes \cup {m} /\ walk'.edges = walk.edges \cup {e}
           /\ walk'.reasons = walk.reasons
           /\ walk'.next = IF OutOfScope(m) \/ m \in walk.nodes THEN walk.next ELSE walk.next \cup {m}
  <2>1. WalkStaysInBounds'
    <3>1. Cardinality(walk'.nodes) <= request.nodes
      <4>1. CASE m \in walk.nodes
        <5>1. walk'.nodes = walk.nodes
          BY <1>6, <4>1
        <5>. QED  BY <5>1, ExpandingWalk
      <4>2. CASE m \notin walk.nodes
        <5>1. Node \in SUBSET Node /\ walk.nodes \in SUBSET Node
          BY ExpandingWalk
        <5>2. Cardinality(walk.nodes \cup {m}) = Cardinality(walk.nodes) + 1
          BY <1>1, <4>2, <5>1, NoRoom
        <5>3. Cardinality(walk.nodes) # request.nodes
          BY <1>6, <4>2 DEF full
        <5>4. /\ Cardinality(walk.nodes) \in Nat /\ request.nodes \in Nat
              /\ Cardinality(walk.nodes) <= request.nodes
          BY ExpandingWalk
        <5>5. Cardinality(walk'.nodes) = Cardinality(walk.nodes) + 1
          BY <1>6, <5>2
        <5>. QED  BY <5>3, <5>4, <5>5
      <4>. QED  BY <4>1, <4>2
    <3>2. "node_limit" \in walk'.reasons => Cardinality(walk'.nodes) = request.nodes
      <4>. SUFFICES ASSUME "node_limit" \in walk.reasons
                    PROVE  Cardinality(walk'.nodes) = request.nodes
        BY <1>6
      <4>1. full
        BY ExpandingWalk DEF full
      <4>2. walk'.nodes = walk.nodes
        BY <1>6, <4>1
      <4>. QED  BY <4>1, <4>2 DEF full
    <3>3. /\ walk'.edges \subseteq {f \in seen.edges : Included(f)}
          /\ \A f \in walk'.edges : {f.source, f.target} \subseteq walk'.nodes
      <4>1. /\ walk.edges \subseteq {f \in seen.edges : Included(f)}
            /\ \A f \in walk.edges : {f.source, f.target} \subseteq walk.nodes
        BY ExpandingWalk
      <4>2. walk'.edges \subseteq {f \in seen.edges : Included(f)}
        BY <1>1, <1>6, <4>1
      <4>3. ASSUME NEW f \in walk'.edges PROVE {f.source, f.target} \subseteq walk'.nodes
        <5>1. CASE f = e
          <6>1. n \in walk'.nodes /\ m \in walk'.nodes
            BY <1>1, <1>6
          <6>2. {f.source, f.target} = {n, m}
            BY <1>5, <5>1
          <6>. HIDE DEF n
          <6>. QED  BY <6>1, <6>2
        <5>2. CASE f # e
          <6>1. f \in walk.edges
            BY <1>6, <4>3, <5>2
          <6>2. {f.source, f.target} \subseteq walk.nodes
            BY <4>1, <6>1
          <6>3. walk.nodes \subseteq walk'.nodes
            BY <1>6
          <6>. QED  BY <6>2, <6>3
        <5>. QED  BY <5>1, <5>2
      <4>. QED  BY <4>2, <4>3
    <3>4. walk'.boundary = None => \A a \in walk'.nodes : ~OutOfScope(a)
      BY <1>2, <1>6, ExpandingWalk
    <3>5. \A a \in walk'.frontier \cup walk'.next : a \in walk'.nodes /\ ~OutOfScope(a)
      BY <1>2, <1>6, ExpandingWalk
    <3>. QED
      BY <1>1, <1>2, <1>6, <3>1, <3>2, <3>3, <3>4, <3>5, ExpandingWalk, WalkReferenceSame
         DEF WalkStaysInBounds, Walked, snapshot
  <2>2. UndisturbedWalkIsByLevels'
    <3>. SUFFICES ASSUME Undisturbed
                  PROVE  UndisturbedWalkIsByLevels'
      BY <1>2, WalkReferenceSame DEF UndisturbedWalkIsByLevels
    <3>1. m \in Reachable(walk.depth + 1)
      <4>1. n \in Scope(visible) /\ n \in Reachable(walk.depth) /\ e \in visible.edges
        BY <1>1, ExpandingWalk, UndisturbedExpandingWalk
      <4>2. Linked(visible, n, m)
        BY <4>1, NeighborIsLinked
      <4>3. <<n, m>> \in SnapshotLinks
        BY <1>1, <4>1, <4>2, LinksAre DEF SnapshotLinks
      <4>. QED  BY <1>1, <4>1, <4>3, ExpandingWalk, WithinStep DEF Reachable
    <3>2. m \in Reachable(request.depth)
      <4>1. walk.depth + 1 <= request.depth /\ walk.depth + 1 \in Int /\ request.depth \in Int
        BY <1>1, ExpandingWalk
      <4>. QED  BY <3>1, <4>1, ReachableIs DEF QueryInv
    <3>3. m \notin walk.nodes => Unlimited /\ m \notin Reachable(walk.depth)
      <4>. SUFFICES ASSUME m \notin walk.nodes
                    PROVE  Unlimited /\ m \notin Reachable(walk.depth)
        OBVIOUS
      <4>1. "node_limit" \notin walk.reasons
        BY <1>6, ExpandingWalk DEF full
      <4>2. Unlimited
        BY <4>1 DEF Unlimited
      <4>. QED  BY <4>2, UndisturbedExpandingWalk
    <3>4. walk'.next \subseteq Reachable(walk.depth + 1) \ Reachable(walk.depth)
      BY <1>6, <3>1, <3>3, UndisturbedExpandingWalk
    <3>5. ASSUME Closed PROVE Closed'
      <4>. SUFFICES ASSUME NEW a \in walk.nodes \cup {m}, NEW f \in visible.edges, NEW o \in visible.nodes,
                           a \in Scope(visible), Included(f), o \in Neighbors(a, f),
                           a \notin walk'.frontier \cup walk'.next,
                           ~(a = n /\ f \in walk.pending \ {e})
                    PROVE  o \in walk.nodes \cup {m}
        <5>. SUFFICES ASSUME NEW a \in walk'.nodes, NEW f \in visible'.edges, NEW o \in visible'.nodes,
                             a \in Scope(visible)', Included(f)', o \in Neighbors(a, f)',
                             a \notin walk'.frontier \cup walk'.next,
                             ~(a = walk'.from /\ f \in walk'.pending)
                      PROVE  o \in walk'.nodes
          BY DEF Closed
        <5>1. /\ f \in visible.edges /\ o \in visible.nodes
              /\ a \in Scope(visible) /\ Included(f) /\ o \in Neighbors(a, f)
          BY <1>2, WalkReferenceSame DEF snapshot
        <5>. QED  BY <1>2, <1>6, <5>1
      <4>1. CASE a = n /\ f = e
        BY <1>5, <4>1
      <4>2. CASE a \in walk.nodes /\ ~(a = n /\ f = e)
        <5>1. a \notin walk.frontier \cup walk.next /\ ~(a = walk.from /\ f \in walk.pending)
          BY <1>2, <1>6, <4>2
        <5>. QED  BY <3>5, <4>2, <5>1 DEF Closed
      <4>3. CASE a \notin walk.nodes
        <5>1. a = m /\ ~OutOfScope(m)
          BY <1>1, <4>3, UndisturbedExpandingWalk
        <5>. QED  BY <1>6, <4>3, <5>1
      <4>. QED  BY <4>1, <4>2, <4>3
    <3>6. ASSUME request.kind = "path", NEW d \in 0 .. request.depth, NEW a \in walk'.nodes,
                 a \in Reachable(d)
          PROVE  a \in FactsWithin(d)'
      <4>0. FactsWithin(d) \subseteq FactsWithin(d)' /\ FactsWithin(walk.depth) \subseteq FactsWithin(walk.depth)'
        BY <1>2, <1>6, FactsGrow
      <4>1. CASE a \in walk.nodes
        BY <3>6, <4>0, <4>1, UndisturbedExpandingWalk
      <4>2. CASE a \notin walk.nodes
        <5>1. a = m /\ m \notin Reachable(walk.depth)
          BY <1>6, <3>3, <4>2
        <5>2. walk.depth + 1 <= d /\ walk.depth + 1 \in Int /\ d \in Int
          <6>1. walk.depth \in Int /\ d \in Int
            BY ExpandingWalk
          <6>2. d <= walk.depth => Reachable(d) \subseteq Reachable(walk.depth)
            BY <6>1, ReachableIs DEF QueryInv
          <6>3. ~(d <= walk.depth)
            BY <3>6, <5>1, <6>2
          <6>. QED  BY <6>1, <6>3
        <5>3. n \in FactsWithin(walk.depth)'
          <6>1. walk.depth \in 0 .. request.depth
            BY ExpandingWalk
          <6>2. n \in walk.nodes \cap Reachable(walk.depth)
            BY <1>1, UndisturbedExpandingWalk
          <6>3. walk.nodes \cap Reachable(walk.depth) \subseteq FactsWithin(walk.depth)
            BY <3>6, <6>1, UndisturbedExpandingWalk
          <6>. QED  BY <4>0, <6>2, <6>3
        <5>4. <<n, m>> \in Links(Facts, Node)'
          <6>1. e \in walk'.edges /\ Included(e)' /\ m \in Neighbors(n, e)'
            <7>1. e \in walk'.edges
              BY <1>6
            <7>2. Included(e)' /\ \A o : Neighbors(o, e)' = Neighbors(o, e)
              BY <1>2, WalkReferenceSame
            <7>3. walk'.from = walk.from
              BY <1>2
            <7>. QED  BY <7>1, <7>2, <7>3
          <6>2. \/ e.source = n /\ e.target = m
                \/ walk'.direction = "both" /\ e.target = n /\ e.source = m
            BY <6>1 DEF Neighbors
          <6>3. n \in Node \cap Node /\ m \in walk'.nodes
            BY <1>1, <1>6
          <6>. HIDE DEF n
          <6>. QED  BY <6>1, <6>2, <6>3 DEF Links, Linked, Facts
        <5>5. m \in Within(Links(Facts, Node)', {walk'.source}, walk.depth + 1)
          <6>1. n \in Within(Links(Facts, Node)', {walk'.source}, walk.depth)
            BY <1>2, <5>3 DEF FactsWithin
          <6>. QED  BY <1>1, <5>4, <6>1, ExpandingWalk, WithinStep
        <5>6. m \in Within(Links(Facts, Node)', {walk'.source}, d)
          BY <5>2, <5>5, WithinGrows
        <5>. QED  BY <5>1, <5>6 DEF FactsWithin
      <4>. QED  BY <4>1, <4>2
    <3>7. Unlimited' <=> Unlimited
      BY <1>2, <1>6, WalkReferenceSame
    <3>8. /\ Scope(visible)' = IF walk'.scope = {} THEN Node ELSE walk'.scope
          /\ walk'.nodes \subseteq Reachable(request.depth)'
          /\ walk'.frontier \subseteq Reachable(walk.depth)'
          /\ walk'.next \subseteq Reachable(walk.depth + 1)' \ Reachable(walk.depth)'
          /\ walk'.pending # {} => walk'.from \in Reachable(walk.depth)'
      <4>1. request' = request /\ Scope(visible)' = Scope(visible) /\ \A d : Reachable(d)' = Reachable(d)
        BY <1>2, WalkReferenceSame
      <4>2. Scope(visible)' = IF walk'.scope = {} THEN Node ELSE walk'.scope
        BY <1>2, <4>1, UndisturbedExpandingWalk
      <4>3. Reachable(request.depth)' = Reachable(request.depth) /\ Reachable(walk.depth)' = Reachable(walk.depth)
            /\ Reachable(walk.depth + 1)' = Reachable(walk.depth + 1)
        BY <1>2, <4>1
      <4>4. walk'.nodes \subseteq Reachable(request.depth)'
        <5>1. walk.nodes \subseteq Reachable(request.depth)
          BY UndisturbedExpandingWalk
        <5>2. walk'.nodes \subseteq Reachable(request.depth)
          BY <1>6, <3>2, <5>1
        <5>. QED  BY <4>3, <5>2
      <4>5. walk'.frontier \subseteq Reachable(walk.depth)'
        BY <1>2, <4>3, UndisturbedExpandingWalk
      <4>6. walk'.next \subseteq Reachable(walk.depth + 1)' \ Reachable(walk.depth)'
        BY <3>4, <4>3
      <4>7. walk'.pending # {} => walk'.from \in Reachable(walk.depth)'
        BY <1>1, <1>2, <4>3, UndisturbedExpandingWalk
      <4>. QED  BY <4>2, <4>4, <4>5, <4>6, <4>7
    <3>9. request'.kind = "path" =>
            \A d \in 0 .. request'.depth : walk'.nodes \cap Reachable(d)' \subseteq FactsWithin(d)'
      BY <1>2, <3>6, WalkReferenceSame
    <3>10. Unlimited' => /\ Roots' \subseteq walk'.nodes
                         /\ Reachable(walk.depth)' \subseteq walk'.nodes
                         /\ "depth_limit" \notin walk'.reasons => Closed'
      BY <1>2, <1>6, <3>5, <3>7, UndisturbedExpandingWalk, WalkReferenceSame
    <3>. QED  BY <3>8, <3>9, <3>10 DEF UndisturbedWalkIsByLevels, Walked
  <2>. QED  BY <1>3, <1>4, <2>1, <2>2, OtherStagesNext DEF QueryInv
<1>7. CASE /\ full
           /\ walk'.nodes = walk.nodes /\ walk'.edges = walk.edges
           /\ walk'.reasons = walk.reasons \cup {"node_limit"} /\ walk'.next = walk.next
  <2>1. WalkStaysInBounds'
    <3>1. /\ Cardinality(walk'.nodes) = request'.nodes /\ walk'.nodes = walk.nodes
          /\ walk'.edges \subseteq {f \in seen'.edges : Included(f)'}
          /\ \A f \in walk'.edges : {f.source, f.target} \subseteq walk'.nodes
      <4>1. request' = request /\ seen' = seen /\ \A f : Included(f)' <=> Included(f)
        BY <1>2, WalkReferenceSame DEF snapshot
      <4>2. /\ walk.edges \subseteq {f \in seen.edges : Included(f)}
            /\ \A f \in walk.edges : {f.source, f.target} \subseteq walk.nodes
        BY ExpandingWalk
      <4>3. walk'.edges \subseteq {f \in seen'.edges : Included(f)'}
        BY <1>7, <4>1, <4>2
      <4>4. Cardinality(walk'.nodes) = request'.nodes /\ walk'.nodes = walk.nodes
        BY <1>7, <4>1 DEF full
      <4>5. \A f \in walk'.edges : {f.source, f.target} \subseteq walk'.nodes
        BY <1>7, <4>2
      <4>. QED  BY <4>3, <4>4, <4>5
    <3>2. /\ walk'.boundary = None => \A a \in walk'.nodes : ~OutOfScope(a)'
          /\ \A a \in walk'.frontier \cup walk'.next : a \in walk'.nodes /\ ~OutOfScope(a)'
      BY <1>2, <1>7, ExpandingWalk, WalkReferenceSame
    <3>3. /\ walk'.depth < request'.depth
          /\ walk'.from \in walk'.nodes /\ ~OutOfScope(walk.from)'
          /\ \A f \in walk'.pending : f \in seen'.edges
          /\ "depth_limit" \notin walk'.reasons
      <4>1. /\ walk.depth < request.depth /\ walk.from \in walk.nodes /\ ~OutOfScope(walk.from)
            /\ \A f \in walk.pending : f \in seen.edges
        BY <1>1, ExpandingWalk
      <4>2. "depth_limit" \notin walk.reasons
        BY <4>1, ExpandingWalk
      <4>3. request' = request /\ seen' = seen /\ ~OutOfScope(walk.from)'
        BY <1>2, <4>1, WalkReferenceSame DEF snapshot
      <4>. QED  BY <1>2, <1>7, <4>1, <4>2, <4>3
    <3>4. Cardinality(walk'.nodes) <= request'.nodes
      BY <3>1, ExpandingWalk
    <3>. QED  BY <3>1, <3>2, <3>3, <3>4 DEF WalkStaysInBounds, Walked
  <2>2. UndisturbedWalkIsByLevels'
    <3>. SUFFICES ASSUME Undisturbed
                  PROVE  UndisturbedWalkIsByLevels'
      BY <1>2, WalkReferenceSame DEF UndisturbedWalkIsByLevels
    <3>1. \A d : FactsWithin(d)' = FactsWithin(d)
      BY <1>2, <1>7, FactsSame
    <3>2. ASSUME Unlimited' PROVE Unlimited /\ m \in walk.nodes
      <4>1. Cardinality(Reachable(request.depth)) <= request.nodes
        BY <1>2, <1>7, <3>2, WalkReferenceSame DEF Unlimited
      <4>2. m \in Reachable(request.depth)
        <5>1. n \in Scope(visible) /\ n \in Reachable(walk.depth) /\ e \in visible.edges
          BY <1>1, ExpandingWalk, UndisturbedExpandingWalk
        <5>2. Linked(visible, n, m)
          BY <5>1, NeighborIsLinked
        <5>3. <<n, m>> \in SnapshotLinks
          BY <1>1, <5>1, <5>2, LinksAre DEF SnapshotLinks
        <5>4. m \in Reachable(walk.depth + 1)
          BY <1>1, <5>1, <5>3, ExpandingWalk, WithinStep DEF Reachable
        <5>5. walk.depth + 1 <= request.depth /\ walk.depth + 1 \in Int /\ request.depth \in Int
          BY <1>1, ExpandingWalk
        <5>. QED  BY <5>4, <5>5, ReachableIs DEF QueryInv
      <4>3. ASSUME m \notin walk.nodes PROVE FALSE
        <5>1. Reachable(request.depth) \in SUBSET Node /\ walk.nodes \in SUBSET Reachable(request.depth)
          BY ReachableIs, ExpandingWalk, UndisturbedExpandingWalk DEF QueryInv
        <5>2. /\ Cardinality(walk.nodes) < Cardinality(Reachable(request.depth))
              /\ Cardinality(Reachable(request.depth)) \in Nat
          BY <4>2, <4>3, <5>1, NoRoom
        <5>. QED  BY <1>7, <4>1, <5>2, ExpandingWalk DEF full
      <4>. QED  BY <4>1, <4>3 DEF Unlimited
    <3>3. ASSUME Unlimited', Closed PROVE Closed'
      <4>. SUFFICES ASSUME NEW a \in walk.nodes, NEW f \in visible.edges, NEW o \in visible.nodes,
                           a \in Scope(visible), Included(f), o \in Neighbors(a, f),
                           a \notin walk.frontier \cup walk.next,
                           ~(a = n /\ f \in walk.pending \ {e})
                    PROVE  o \in walk.nodes
        BY <1>2, <1>7, WalkReferenceSame DEF Closed, snapshot
      <4>1. CASE a = n /\ f = e
        BY <1>5, <3>2, <3>3, <4>1
      <4>2. CASE ~(a = n /\ f = e)
        BY <3>3, <4>2 DEF Closed
      <4>. QED  BY <4>1, <4>2
    <3>4. /\ Reachable(walk.depth)' = Reachable(walk.depth)
          /\ Reachable(walk.depth + 1)' = Reachable(walk.depth + 1)
          /\ Reachable(request.depth)' = Reachable(request.depth)
          /\ Roots' = Roots /\ Scope(visible)' = Scope(visible)
      BY <1>2, WalkReferenceSame
    <3>5. /\ Scope(visible)' = IF walk'.scope = {} THEN Node ELSE walk'.scope
          /\ walk'.nodes \subseteq Reachable(request.depth)'
          /\ walk'.frontier \subseteq Reachable(walk.depth)'
          /\ walk'.next \subseteq Reachable(walk.depth + 1)' \ Reachable(walk.depth)'
          /\ walk'.pending # {} => walk'.from \in Reachable(walk.depth)'
      BY <1>1, <1>2, <1>7, <3>4, UndisturbedExpandingWalk
    <3>6. request'.kind = "path" =>
            \A d \in 0 .. request'.depth : walk'.nodes \cap Reachable(d)' \subseteq FactsWithin(d)'
      BY <1>2, <1>7, <3>1, UndisturbedExpandingWalk, WalkReferenceSame
    <3>7. Unlimited' => /\ Roots' \subseteq walk'.nodes
                        /\ Reachable(walk.depth)' \subseteq walk'.nodes
                        /\ "depth_limit" \notin walk'.reasons => Closed'
      BY <1>7, <3>2, <3>3, <3>4, UndisturbedExpandingWalk
    <3>. QED  BY <3>5, <3>6, <3>7 DEF UndisturbedWalkIsByLevels, Walked
  <2>. QED  BY <1>3, <1>4, <2>1, <2>2, OtherStagesNext DEF QueryInv
<1>. QED  BY <1>2, <1>6, <1>7

LEMMA VisitEdgeKeeps ==
  ASSUME QueryInv, VisitEdge
  PROVE  QueryInv'
<1>. DEFINE e == First(walk.pending)
            followed == IF Included(e) THEN Neighbors(walk.from, e) \cap visible.nodes ELSE {}
<1>1. /\ at = "expand" /\ at' = "expand" /\ walk.pending # {}
      /\ UNCHANGED <<snapshot, request, search, answer>>
      /\ \/ \E m \in followed : walk' = Follow([walk EXCEPT !.pending = @ \ {e}], e, m)
         \/ followed = {} /\ walk' = [walk EXCEPT !.pending = @ \ {e}]
  BY DEF VisitEdge
<1>2. walk.pending \in SUBSET Edge
  BY <1>1, ExpandingWalk DEF WalkType
<1>3. e \in walk.pending
  BY <1>1, <1>2, FirstIsIn
<1>. HIDE DEF e
<1>4. CASE followed = {} /\ walk' = [walk EXCEPT !.pending = @ \ {e}]
  <2>1. \A m \in visible.nodes : ~(Included(e) /\ m \in Neighbors(walk.from, e))
    BY <1>4
  <2>. QED  BY <1>1, <1>3, <1>4, <2>1, VisitKeeps
<1>5. ASSUME NEW m \in followed, walk' = Follow([walk EXCEPT !.pending = @ \ {e}], e, m)
      PROVE  QueryInv'
  <2>1. Included(e) /\ m \in Neighbors(walk.from, e) /\ m \in visible.nodes
    BY <1>5
  <2>. QED  BY <1>1, <1>3, <1>5, <2>1, FollowKeeps
<1>. QED  BY <1>1, <1>4, <1>5

(* A level is complete once each of its nodes was expanded: what is one    *)
(* link further than it has been found.                                    *)
LEMMA NextLevelKeeps ==
  ASSUME QueryInv, NextLevel
  PROVE  QueryInv'
<1>1. /\ at = "expand" /\ at' = (IF walk.next = {} THEN "return" ELSE "expand")
      /\ walk.depth < request.depth /\ walk.pending = {} /\ walk.frontier = {}
      /\ walk' = [walk EXCEPT !.frontier = walk.next, !.next = {}, !.depth = @ + 1]
      /\ UNCHANGED <<snapshot, request, search, answer>>
  BY DEF NextLevel
<1>2. /\ walk' \in WalkType /\ walk'.depth = walk.depth + 1 /\ walk'.depth <= request.depth
      /\ walk'.direction = walk.direction /\ walk'.source = walk.source /\ walk'.target = walk.target
      /\ walk'.scope = walk.scope /\ walk'.nodes = walk.nodes /\ walk'.edges = walk.edges
      /\ walk'.frontier = walk.next /\ walk'.next = {} /\ walk'.pending = {}
      /\ walk'.reasons = walk.reasons /\ walk'.boundary = walk.boundary
  <2>1. walk.depth + 1 \in Nat /\ walk.depth + 1 <= request.depth /\ walk \in WalkType
    BY <1>1, ExpandingWalk
  <2>2. walk' \in WalkType
    BY <1>1, <2>1 DEF WalkType
  <2>3. /\ walk'.depth = walk.depth + 1
        /\ walk'.direction = walk.direction /\ walk'.source = walk.source /\ walk'.target = walk.target
        /\ walk'.scope = walk.scope /\ walk'.nodes = walk.nodes /\ walk'.edges = walk.edges
        /\ walk'.frontier = walk.next /\ walk'.next = {} /\ walk'.pending = walk.pending
        /\ walk'.reasons = walk.reasons /\ walk'.boundary = walk.boundary
    BY <1>1, <2>1 DEF WalkType
  <2>. QED  BY <1>1, <2>1, <2>2, <2>3
<1>3. TypeOK'
  BY <1>1, <1>2, ExpandingWalk, WalkMoves
<1>4. StagesFollow'
  BY <1>1, <1>2, WalkReferenceSame DEF QueryInv, StagesFollow, snapshot
<1>5. WalkStaysInBounds'
  BY <1>1, <1>2, ExpandingWalk, WalkReferenceSame DEF WalkStaysInBounds, Walked, snapshot
<1>6. UndisturbedWalkIsByLevels'
  <2>. SUFFICES ASSUME Undisturbed
                PROVE  UndisturbedWalkIsByLevels'
    BY <1>1, <1>2, WalkReferenceSame DEF UndisturbedWalkIsByLevels
  <2>1. \A d : FactsWithin(d)' = FactsWithin(d)
    BY <1>1, <1>2, FactsSame
  <2>2. "depth_limit" \notin walk.reasons /\ walk.depth \in Nat /\ walk.depth + 1 \in Nat
    BY <1>1, ExpandingWalk
  <2>3. ASSUME Unlimited PROVE Reachable(walk.depth + 1) \subseteq walk.nodes /\ Closed
    <3>1. Closed /\ Roots \subseteq walk.nodes /\ Reachable(walk.depth) \subseteq walk.nodes
      BY <1>1, <2>2, <2>3, UndisturbedExpandingWalk
    <3>2. ASSUME NEW m \in Reachable(walk.depth + 1), m \notin walk.nodes
          PROVE  FALSE
      <4>1. PICK i \in 1 .. walk.depth + 1 :
              \E a \in walk.nodes \cap Within(SnapshotLinks, Roots, i - 1) :
                \E b \in Node : /\ b \notin walk.nodes /\ <<a, b>> \in SnapshotLinks
                                /\ b \in Within(SnapshotLinks, Roots, i)
        <5>1. m \in Within(SnapshotLinks, Roots, walk.depth + 1) /\ walk.depth + 1 \in Int
          BY <2>2, <3>2 DEF Reachable
        <5>. DEFINE links == SnapshotLinks
                    roots == Roots
                    on == walk.nodes
        <5>2. roots \subseteq on /\ m \notin on /\ m \in Within(links, roots, walk.depth + 1)
          BY <3>1, <3>2, <5>1
        <5>. HIDE DEF links, roots, on
        <5>3. \E i \in 1 .. walk.depth + 1 : \E a \in on \cap Within(links, roots, i - 1) :
                \E b \in Node : b \notin on /\ <<a, b>> \in links /\ b \in Within(links, roots, i)
          BY <5>1, <5>2, FirstNodeOff
        <5>. QED  BY <5>3 DEF links, roots, on
      <4>2. PICK a \in walk.nodes \cap Within(SnapshotLinks, Roots, i - 1) :
              \E b \in Node : b \notin walk.nodes /\ <<a, b>> \in SnapshotLinks
        BY <4>1
      <4>3. PICK b \in Node : b \notin walk.nodes /\ <<a, b>> \in SnapshotLinks
        BY <4>2
      <4>4. a \in Node /\ a \in Reachable(i - 1)
        BY <1>1, <4>2, ExpandingWalk DEF Reachable
      <4>5. a \in Reachable(walk.depth)
        <5>1. i - 1 \in Int /\ walk.depth \in Int /\ i - 1 <= walk.depth
          BY <2>2
        <5>. QED  BY <4>4, <5>1, ReachableIs DEF QueryInv
      <4>6. a \notin walk.frontier \cup walk.next
        BY <1>1, <4>5, UndisturbedExpandingWalk
      <4>7. a \in Scope(visible) /\ b \in visible.nodes /\ Linked(visible, a, b)
        BY <4>3, <4>4, LinksAre DEF SnapshotLinks
      <4>8. PICK e \in visible.edges : Included(e) /\ b \in Neighbors(a, e)
        BY <4>7, LinkedIsNeighbor
      <4>. QED  BY <1>1, <3>1, <4>2, <4>3, <4>6, <4>7, <4>8 DEF Closed
    <3>. QED  BY <3>1, <3>2
  <2>4. ASSUME Closed PROVE Closed'
    <3>. SUFFICES ASSUME NEW a \in walk.nodes, NEW f \in visible.edges, NEW m \in visible.nodes,
                         a \in Scope(visible), Included(f), m \in Neighbors(a, f), a \notin walk.next
                  PROVE  m \in walk.nodes
      BY <1>1, <1>2, WalkReferenceSame DEF Closed, snapshot
    <3>. QED  BY <1>1, <2>4 DEF Closed
  <2>5. ASSUME Unlimited, walk.next = {} PROVE Reachable(request.depth) \subseteq walk.nodes
    <3>1. Closed /\ Roots \subseteq walk.nodes
      BY <1>1, <2>2, <2>5, UndisturbedExpandingWalk
    <3>2. ASSUME NEW a \in walk.nodes, NEW b \in Node, <<a, b>> \in SnapshotLinks
          PROVE  b \in walk.nodes
      <4>1. a \in Node
        BY <1>1, ExpandingWalk
      <4>2. a \in Scope(visible) /\ b \in visible.nodes /\ Linked(visible, a, b)
        BY <3>2, <4>1, LinksAre DEF SnapshotLinks
      <4>3. PICK e \in visible.edges : Included(e) /\ b \in Neighbors(a, e)
        BY <4>2, LinkedIsNeighbor
      <4>. QED  BY <1>1, <2>5, <3>1, <4>2, <4>3 DEF Closed
    <3>3. request.depth \in Int
      BY <1>1, ExpandingWalk
    <3>. QED  BY <3>1, <3>2, <3>3, WithinClosed DEF Reachable
  <2>6. /\ Reachable(walk.depth)' = Reachable(walk.depth + 1)
        /\ Reachable(request.depth)' = Reachable(request.depth)
        /\ Unlimited' <=> Unlimited
    BY <1>1, <1>2, WalkReferenceSame
  <2>7. /\ Scope(visible)' = IF walk'.scope = {} THEN Node ELSE walk'.scope
        /\ walk'.nodes \subseteq Reachable(request.depth)'
        /\ walk'.frontier \subseteq Reachable(walk.depth)'
    BY <1>1, <1>2, <2>6, UndisturbedExpandingWalk, WalkReferenceSame
  <2>8. request'.kind = "path" =>
          \A d \in 0 .. request'.depth : walk'.nodes \cap Reachable(d)' \subseteq FactsWithin(d)'
    BY <1>1, <1>2, <2>1, UndisturbedExpandingWalk, WalkReferenceSame
  <2>9. Unlimited' => /\ Roots' \subseteq walk'.nodes
                      /\ Reachable(walk.depth)' \subseteq walk'.nodes
                      /\ Closed'
                      /\ at' # "expand" => Reachable(request.depth)' \subseteq walk'.nodes
    <3>. SUFFICES ASSUME Unlimited
                  PROVE  /\ Roots' \subseteq walk'.nodes
                         /\ Reachable(walk.depth)' \subseteq walk'.nodes
                         /\ Closed'
                         /\ at' # "expand" => Reachable(request.depth)' \subseteq walk'.nodes
      BY <2>6
    <3>1. Roots' = Roots /\ Roots \subseteq walk.nodes
      BY <1>1, <1>2, UndisturbedExpandingWalk, WalkReferenceSame
    <3>. QED  BY <1>1, <1>2, <2>3, <2>4, <2>5, <2>6, <3>1
  <2>. QED  BY <1>1, <1>2, <2>7, <2>8, <2>9 DEF UndisturbedWalkIsByLevels, Walked
<1>. QED  BY <1>1, <1>3, <1>4, <1>5, <1>6, OtherStagesNext DEF QueryInv

(* At the last level each node is asked for what the limit leaves out.     *)
LEMMA CheckDepthLimitKeeps ==
  ASSUME QueryInv, CheckDepthLimit
  PROVE  QueryInv'
<1>. DEFINE n == Min(walk.frontier)
<1>1. /\ at = "expand" /\ at' = "expand" /\ walk.depth = request.depth /\ walk.frontier # {}
      /\ UNCHANGED <<snapshot, request, search, answer>>
      /\ walk' = IF HasTraversableNeighbor(n)
                 THEN [walk EXCEPT !.reasons = @ \cup {"depth_limit"}, !.frontier = {}]
                 ELSE [walk EXCEPT !.frontier = @ \ {n}]
  BY DEF CheckDepthLimit
<1>2. walk.pending = {} /\ walk.next = {} /\ walk \in WalkType
  BY <1>1, ExpandingWalk
<1>. HIDE DEF n
<1>3. /\ walk' \in WalkType /\ walk'.depth = walk.depth
      /\ walk'.direction = walk.direction /\ walk'.source = walk.source /\ walk'.target = walk.target
      /\ walk'.scope = walk.scope /\ walk'.nodes = walk.nodes /\ walk'.edges = walk.edges
      /\ walk'.frontier \subseteq walk.frontier /\ walk'.next = {} /\ walk'.pending = {}
      /\ walk'.boundary = walk.boundary
      /\ "node_limit" \in walk'.reasons <=> "node_limit" \in walk.reasons
      /\ "depth_limit" \notin walk'.reasons =>
           /\ "depth_limit" \notin walk.reasons
           /\ walk'.frontier = walk.frontier \ {n} /\ ~HasTraversableNeighbor(n)
  <2>1. CASE HasTraversableNeighbor(n)
    <3>. DEFINE to == [walk EXCEPT !.reasons = @ \cup {"depth_limit"}, !.frontier = {}]
    <3>1. to \in WalkType
      BY <1>2 DEF WalkType, Reason
    <3>2. walk' = to
      BY <1>1, <2>1
    <3>. QED  BY <1>2, <3>1, <3>2 DEF WalkType
  <2>2. CASE ~HasTraversableNeighbor(n)
    <3>. DEFINE to == [walk EXCEPT !.frontier = @ \ {n}]
    <3>1. to \in WalkType
      BY <1>2 DEF WalkType
    <3>2. walk' = to
      BY <1>1, <2>2
    <3>. QED  BY <1>2, <2>2, <3>1, <3>2 DEF WalkType
  <2>. QED  BY <2>1, <2>2
<1>4. TypeOK'
  BY <1>1, <1>3, ExpandingWalk, WalkMoves
<1>5. StagesFollow'
  BY <1>1, <1>3, WalkReferenceSame DEF QueryInv, StagesFollow, snapshot
<1>6. WalkStaysInBounds'
  BY <1>1, <1>3, ExpandingWalk, WalkReferenceSame DEF WalkStaysInBounds, Walked, snapshot
<1>7. UndisturbedWalkIsByLevels'
  <2>. SUFFICES ASSUME Undisturbed
                PROVE  UndisturbedWalkIsByLevels'
    BY <1>1, <1>3, WalkReferenceSame DEF UndisturbedWalkIsByLevels
  <2>1. \A d : FactsWithin(d)' = FactsWithin(d)
    BY <1>1, <1>3, FactsSame
  <2>2. ASSUME Closed, "depth_limit" \notin walk'.reasons PROVE Closed'
    <3>. SUFFICES ASSUME NEW a \in walk.nodes, NEW f \in visible.edges, NEW m \in visible.nodes,
                         a \in Scope(visible), Included(f), m \in Neighbors(a, f),
                         a \notin walk.frontier \ {n}
                  PROVE  m \in walk.nodes
      BY <1>1, <1>3, <2>2, WalkReferenceSame DEF Closed, snapshot
    <3>1. CASE a = n
      <4>1. f \in ReadIncidentEdges(n)
        BY <3>1, NeighborsAre DEF ReadIncidentEdges
      <4>. QED  BY <1>3, <2>2, <3>1, <4>1 DEF HasTraversableNeighbor
    <3>2. CASE a # n
      BY <1>2, <2>2, <3>2 DEF Closed
    <3>. QED  BY <3>1, <3>2
  <2>3. /\ Reachable(walk.depth)' = Reachable(walk.depth)
        /\ Reachable(request.depth)' = Reachable(request.depth)
        /\ Unlimited' <=> Unlimited
    BY <1>1, <1>3, WalkReferenceSame
  <2>4. /\ Scope(visible)' = IF walk'.scope = {} THEN Node ELSE walk'.scope
        /\ walk'.nodes \subseteq Reachable(request.depth)'
        /\ walk'.frontier \subseteq Reachable(walk.depth)'
    BY <1>1, <1>3, <2>3, UndisturbedExpandingWalk, WalkReferenceSame
  <2>5. request'.kind = "path" =>
          \A d \in 0 .. request'.depth : walk'.nodes \cap Reachable(d)' \subseteq FactsWithin(d)'
    BY <1>1, <1>3, <2>1, UndisturbedExpandingWalk, WalkReferenceSame
  <2>6. Unlimited' => /\ Roots' \subseteq walk'.nodes
                      /\ Reachable(walk.depth)' \subseteq walk'.nodes
                      /\ "depth_limit" \notin walk'.reasons => Closed'
    BY <1>1, <1>3, <2>2, <2>3, UndisturbedExpandingWalk, WalkReferenceSame
  <2>. QED  BY <1>1, <1>3, <2>4, <2>5, <2>6 DEF UndisturbedWalkIsByLevels, Walked
<1>. QED  BY <1>1, <1>4, <1>5, <1>6, <1>7, OtherStagesNext DEF QueryInv

(* A step that only goes to the next stage keeps the reference. *)
LEMMA StageMoves ==
  ASSUME UNCHANGED <<snapshot, request, walk>>
  PROVE  /\ Scope(visible)' = Scope(visible) /\ Roots' = Roots
         /\ \A d : Reachable(d)' = Reachable(d) /\ FactsWithin(d)' = FactsWithin(d)
         /\ \A n, e : Neighbors(n, e)' = Neighbors(n, e)
         /\ \A e : Included(e)' <=> Included(e)
         /\ \A n : OutOfScope(n)' <=> OutOfScope(n)
         /\ Undisturbed' <=> Undisturbed
         /\ Unlimited' <=> Unlimited
         /\ Closed' <=> Closed
<1>1. \A d : FactsWithin(d)' = FactsWithin(d)
  BY FactsSame
<1>2. Closed' <=> Closed
  BY WalkReferenceSame DEF Closed, snapshot
<1>. QED  BY <1>1, <1>2, WalkReferenceSame

LEMMA DepthReachedKeeps ==
  ASSUME QueryInv, DepthReached
  PROVE  QueryInv'
<1>1. /\ at = "expand" /\ at' = "return" /\ walk.depth = request.depth /\ walk.frontier = {}
      /\ UNCHANGED <<snapshot, request, walk, search, answer>>
  BY DEF DepthReached
<1>2. walk.pending = {} /\ walk.next = {}
  BY <1>1, ExpandingWalk
<1>3. TypeOK'
  BY <1>1, ExpandingWalk, WalkMoves
<1>4. StagesFollow'
  BY <1>1 DEF QueryInv, StagesFollow, snapshot, Undisturbed
<1>5. WalkStaysInBounds'
  BY <1>1, <1>2, ExpandingWalk, StageMoves DEF WalkStaysInBounds, Walked, snapshot
<1>6. UndisturbedWalkIsByLevels'
  BY <1>1, <1>2, StageMoves, UndisturbedExpandingWalk DEF UndisturbedWalkIsByLevels, Walked
<1>. QED  BY <1>1, <1>3, <1>4, <1>5, <1>6, OtherStagesNext DEF QueryInv

LEMMA ReturnQueryKeeps ==
  ASSUME QueryInv, ReturnQuery
  PROVE  QueryInv'
<1>1. /\ at = "return" /\ at' = "done" /\ request.kind = "query"
      /\ UNCHANGED <<snapshot, request, walk, search, answer>>
  BY DEF ReturnQuery
<1>2. TypeOK'
  BY <1>1, TypesAre, WalkMoves DEF QueryInv
<1>3. StagesFollow' /\ answer' = NoAnswer
  BY <1>1 DEF QueryInv, StagesFollow, snapshot, Undisturbed
<1>4. PathIsShortest' /\ ExplanationIsExact'
  BY <1>1, <1>3 DEF PathIsShortest, ExplanationIsExact, NoAnswer
<1>. QED  BY <1>1, <1>2, <1>3, <1>4, OtherStagesNext DEF QueryInv

-----------------------------------------------------------------------------
(* The search among the facts.                                             *)

SearchTyped(s) ==
  /\ s.queue \in Seq(Node) /\ s.from \in Node \cup {None} /\ s.pending \in SUBSET Edge
  /\ s.before \in [DOMAIN s.before -> Predecessor] /\ DOMAIN s.before \in SUBSET Node
  /\ s = [queue |-> s.queue, before |-> s.before, from |-> s.from, pending |-> s.pending]

LEMMA SearchIsTyped ==
  ASSUME NEW s
  PROVE  (\E reached \in SUBSET Node :
            s \in [queue : Seq(Node), before : [reached -> Predecessor],
                   from : Node \cup {None}, pending : SUBSET Edge])
         <=> SearchTyped(s)
<1>1. ASSUME NEW reached \in SUBSET Node,
             s \in [queue : Seq(Node), before : [reached -> Predecessor],
                    from : Node \cup {None}, pending : SUBSET Edge]
      PROVE  SearchTyped(s)
  BY <1>1 DEF SearchTyped
<1>2. ASSUME SearchTyped(s)
      PROVE  \E reached \in SUBSET Node :
               s \in [queue : Seq(Node), before : [reached -> Predecessor],
                      from : Node \cup {None}, pending : SUBSET Edge]
  BY <1>2 DEF SearchTyped
<1>. QED  BY <1>1, <1>2

(* A request that only moves its search and its answer keeps its types. *)
LEMMA SearchMoves ==
  ASSUME TypeOK, UNCHANGED <<snapshot, request, walk>>, SearchTyped(search'),
         answer' \in [nodes : Seq(Node), edges : Seq(Edge)],
         at' \in {"lookup", "scope", "starts", "expand", "return", "search", "trail",
                  "explain", "incident", "endpoints", "done", "error"}
  PROVE  TypeOK'
<1>1. \E reached \in SUBSET Node :
        search' \in [queue : Seq(Node), before : [reached -> Predecessor],
                    from : Node \cup {None}, pending : SUBSET Edge]
  BY SearchIsTyped
<1>. QED  BY <1>1 DEF TypeOK, snapshot

LEMMA SearchingWalk ==
  ASSUME QueryInv, at \in {"return", "search", "trail"}, request.kind = "path"
  PROVE  /\ TypeOK /\ walk \in WalkType /\ request.depth \in Nat
         /\ SearchTyped(search) /\ answer \in [nodes : Seq(Node), edges : Seq(Edge)]
         /\ walk.source \in Node /\ walk.target \in Node /\ walk.nodes \subseteq Node
         /\ walk.edges \subseteq {e \in seen.edges : Included(e)} /\ walk.edges \subseteq Edge
         /\ \A e \in walk.edges : {e.source, e.target} \subseteq walk.nodes
<1>1. TypeOK /\ walk \in WalkType /\ request.depth \in Nat
  BY TypesAre DEF QueryInv
<1>2. SearchTyped(search) /\ answer \in [nodes : Seq(Node), edges : Seq(Edge)]
  BY <1>1, SearchIsTyped DEF TypeOK
<1>3. walk.source \in Node /\ walk.target \in Node
  BY DEF QueryInv, StagesFollow
<1>4. walk.nodes \subseteq Node /\ walk.edges \subseteq Edge
  BY <1>1 DEF WalkType
<1>5. /\ walk.edges \subseteq {e \in seen.edges : Included(e)}
      /\ \A e \in walk.edges : {e.source, e.target} \subseteq walk.nodes
  BY DEF QueryInv, WalkStaysInBounds, Walked
<1>. QED  BY <1>1, <1>2, <1>3, <1>4, <1>5

LEMMA SearchKeepsWalk ==
  ASSUME QueryInv, at \in {"return", "search", "trail"}, at' \in {"search", "trail"},
         request.kind = "path", UNCHANGED <<snapshot, request, walk>>,
         at' = "search" => answer' = answer /\ at \in {"return", "search"}
  PROVE  StagesFollow' /\ WalkStaysInBounds' /\ UndisturbedWalkIsByLevels'
<1>1. StagesFollow'
  BY DEF QueryInv, StagesFollow, snapshot, Undisturbed
<1>2. WalkStaysInBounds'
  BY StageMoves DEF QueryInv, WalkStaysInBounds, Walked, snapshot
<1>3. UndisturbedWalkIsByLevels'
  BY StageMoves DEF QueryInv, UndisturbedWalkIsByLevels, Walked
<1>. QED  BY <1>1, <1>2, <1>3

LEMMA ReturnFactsKeeps ==
  ASSUME QueryInv, ReturnFacts
  PROVE  QueryInv'
<1>. DEFINE queue == IF {walk.source, walk.target} \subseteq walk.nodes THEN <<walk.source>> ELSE <<>>
<1>1. /\ at = "return" /\ request.kind = "path" /\ at' = "search"
      /\ search' = [NoSearch EXCEPT !.queue = queue]
      /\ UNCHANGED <<snapshot, request, walk, answer>>
  BY DEF ReturnFacts
<1>2. /\ search'.queue = queue /\ search'.before = [n \in {} |-> None] /\ DOMAIN search'.before = {}
      /\ search'.from = None /\ search'.pending = {}
      /\ search' = [queue |-> queue, before |-> search'.before, from |-> None, pending |-> {}]
  BY <1>1 DEF NoSearch
<1>3. TypeOK'
  <2>1. queue \in Seq(Node)
    BY <1>1, SearchingWalk
  <2>2. search'.before \in [{} -> Predecessor]
    BY <1>2
  <2>3. SearchTyped(search')
    BY <1>2, <2>1, <2>2 DEF SearchTyped
  <2>. QED  BY <1>1, <2>3, SearchingWalk, SearchMoves
<1>4. StagesFollow' /\ WalkStaysInBounds' /\ UndisturbedWalkIsByLevels'
  BY <1>1, SearchKeepsWalk
<1>5. Reached' = {walk.source}
  BY <1>1, <1>2 DEF Reached
<1>6. CASE {walk.source, walk.target} \subseteq walk.nodes
  <2>1. search'.queue = <<walk.source>>
    BY <1>2, <1>6
  <2>2. ToSet(search'.queue) = {walk.source}
    BY <2>1 DEF ToSet
  <2>3. SearchIsBreadthFirst'
    BY <1>1, <1>2, <1>5, <1>6, <2>2 DEF SearchIsBreadthFirst
  <2>4. DOMAIN search'.queue = {1}
    BY <2>1
  <2>5. QueueIsByDistance'
    BY <1>2, <2>4 DEF QueueIsByDistance
  <2>. QED  BY <1>1, <1>3, <1>4, <2>3, <2>5, OtherStagesNext DEF QueryInv, TrailIsShortest
<1>7. CASE ~({walk.source, walk.target} \subseteq walk.nodes)
  <2>1. search'.queue = <<>>
    BY <1>2, <1>7
  <2>2. ToSet(search'.queue) = {}
    BY <2>1 DEF ToSet
  <2>3. SearchIsBreadthFirst'
    BY <1>1, <1>2, <1>5, <1>7, <2>1, <2>2 DEF SearchIsBreadthFirst
  <2>4. DOMAIN search'.queue = {}
    BY <2>1
  <2>5. QueueIsByDistance'
    BY <1>2, <2>4 DEF QueueIsByDistance
  <2>. QED  BY <1>1, <1>3, <1>4, <2>3, <2>5, OtherStagesNext DEF QueryInv, TrailIsShortest
<1>. QED  BY <1>6, <1>7

LEMMA TailIs ==
  ASSUME NEW S, NEW q \in Seq(S), q # <<>>
  PROVE  /\ Head(q) = q[1] /\ 1 \in DOMAIN q /\ Head(q) \in S /\ Tail(q) \in Seq(S)
         /\ \A i \in DOMAIN Tail(q) : i + 1 \in DOMAIN q /\ Tail(q)[i] = q[i + 1]
         /\ ToSet(q) = {Head(q)} \cup ToSet(Tail(q))
<1>1. Head(q) = q[1] /\ 1 \in DOMAIN q /\ Head(q) \in S /\ Tail(q) \in Seq(S)
  OBVIOUS
<1>2. \A i \in DOMAIN Tail(q) : i + 1 \in DOMAIN q /\ Tail(q)[i] = q[i + 1]
  OBVIOUS
<1>3. \A i \in DOMAIN q : i = 1 \/ (i - 1 \in DOMAIN Tail(q) /\ q[i] = Tail(q)[i - 1])
  OBVIOUS
<1>4. \A i \in DOMAIN q : q[i] \in {Head(q)} \cup ToSet(Tail(q))
  BY <1>1, <1>3 DEF ToSet
<1>5. \A i \in DOMAIN Tail(q) : Tail(q)[i] \in ToSet(q)
  BY <1>2 DEF ToSet
<1>6. Head(q) \in ToSet(q)
  BY <1>1 DEF ToSet
<1>7. ToSet(q) \subseteq {Head(q)} \cup ToSet(Tail(q))
  BY <1>4 DEF ToSet
<1>8. ToSet(Tail(q)) \subseteq ToSet(q)
  BY <1>5 DEF ToSet
<1>. QED  BY <1>1, <1>2, <1>6, <1>7, <1>8

LEMMA AppendIs ==
  ASSUME NEW S, NEW q \in Seq(S), NEW m \in S
  PROVE  /\ Append(q, m) \in Seq(S) /\ Append(q, m) # <<>>
         /\ DOMAIN Append(q, m) = DOMAIN q \cup {Len(q) + 1}
         /\ Append(q, m)[Len(q) + 1] = m
         /\ \A i \in DOMAIN q : Append(q, m)[i] = q[i] /\ i < Len(q) + 1 /\ i \in Nat
         /\ ToSet(Append(q, m)) = ToSet(q) \cup {m}
<1>1. /\ Append(q, m) \in Seq(S) /\ Append(q, m) # <<>>
      /\ DOMAIN Append(q, m) = DOMAIN q \cup {Len(q) + 1}
      /\ Append(q, m)[Len(q) + 1] = m
      /\ \A i \in DOMAIN q : Append(q, m)[i] = q[i] /\ i < Len(q) + 1 /\ i \in Nat
  OBVIOUS
<1>. QED  BY <1>1 DEF ToSet

(* The two parts of SearchIsBreadthFirst: where the search came from, and  *)
(* where it may still go.                                                  *)
CameFrom ==
  \A m \in DOMAIN search.before :
    LET previous == search.before[m]
    IN /\ m \in walk.nodes /\ m # walk.source
       /\ previous.node \in Reached /\ previous.edge \in walk.edges
       /\ m \in Neighbors(previous.node, previous.edge)
       /\ \A k \in 0 .. request.depth :
            m \in FactsWithin(k) => previous.node \in FactsWithin(k - 1)

Frontier ==
  /\ ToSet(search.queue) \subseteq Reached /\ search.pending \subseteq walk.edges
  /\ search.pending # {} => search.from \in Reached
  /\ (search.queue # <<>> \/ search.pending # {}) => {walk.source, walk.target} \subseteq walk.nodes
  /\ {walk.source, walk.target} \subseteq walk.nodes =>
       /\ walk.target \in Reached => walk.target \in ToSet(search.queue)
       /\ \A n \in Reached, e \in walk.edges, m \in walk.nodes :
            m \in Neighbors(n, e) =>
              \/ m \in Reached
              \/ n \in ToSet(search.queue)
              \/ n = search.from /\ e \in search.pending

SearchInParts == at = "search" => (SearchIsBreadthFirst <=> CameFrom /\ Frontier)

LEMMA SearchParts == SearchInParts
<1>. SUFFICES ASSUME at = "search"
              PROVE  SearchIsBreadthFirst <=> CameFrom /\ Frontier
  BY DEF SearchInParts
<1>1. ASSUME SearchIsBreadthFirst PROVE CameFrom /\ Frontier
  BY <1>1 DEF SearchIsBreadthFirst, CameFrom, Frontier
<1>2. ASSUME CameFrom, Frontier PROVE SearchIsBreadthFirst
  BY <1>2 DEF SearchIsBreadthFirst, CameFrom, Frontier
<1>. QED  BY <1>1, <1>2

LEMMA SearchPartsNext == SearchInParts'
BY SearchParts, PTL

LEMMA CameFromSame ==
  ASSUME CameFrom, UNCHANGED <<snapshot, request, walk>>, search'.before = search.before
  PROVE  CameFrom'
<1>1. \A k : FactsWithin(k)' = FactsWithin(k)
  BY StageMoves
<1>2. Reached' = Reached /\ \A a, e : Neighbors(a, e)' = Neighbors(a, e)
  BY StageMoves DEF Reached
<1>3. ASSUME NEW m \in DOMAIN search.before
      PROVE  /\ m \in walk.nodes /\ m # walk.source
             /\ search.before[m].node \in Reached /\ search.before[m].edge \in walk.edges
             /\ m \in Neighbors(search.before[m].node, search.before[m].edge)
             /\ \A k \in 0 .. request.depth :
                  m \in FactsWithin(k) => search.before[m].node \in FactsWithin(k - 1)
  BY <1>3 DEF CameFrom
<1>4. ASSUME NEW m \in DOMAIN search.before, NEW k \in 0 .. request.depth, m \in FactsWithin(k)'
      PROVE  search.before[m].node \in FactsWithin(k - 1)'
  BY <1>1, <1>3, <1>4
<1>. QED  BY <1>2, <1>3, <1>4 DEF CameFrom

LEMMA SearchNodeKeeps ==
  ASSUME QueryInv, SearchNode
  PROVE  QueryInv'
<1>. DEFINE q == search.queue
            n == Head(q)
<1>1. /\ at = "search" /\ at' = "search" /\ search.pending = {} /\ q # <<>> /\ n # walk.target
      /\ search' = [search EXCEPT !.queue = Tail(q), !.from = n, !.pending = EdgesBySource(n)]
      /\ UNCHANGED <<snapshot, request, walk, answer>>
  BY DEF SearchNode
<1>2. request.kind = "path"
  BY <1>1 DEF QueryInv, StagesFollow
<1>3. SearchTyped(search) /\ q \in Seq(Node)
  BY <1>1, <1>2, SearchingWalk DEF SearchTyped
<1>4. /\ search'.queue = Tail(q) /\ search'.before = search.before /\ search'.from = n
      /\ search'.pending = EdgesBySource(n)
      /\ search' = [queue |-> Tail(q), before |-> search.before, from |-> n, pending |-> EdgesBySource(n)]
  BY <1>1, <1>3 DEF SearchTyped
<1>5. /\ n = q[1] /\ 1 \in DOMAIN q /\ n \in Node /\ Tail(q) \in Seq(Node)
      /\ \A i \in DOMAIN Tail(q) : i + 1 \in DOMAIN q /\ Tail(q)[i] = q[i + 1]
      /\ ToSet(q) = {n} \cup ToSet(Tail(q))
  BY <1>1, <1>3, TailIs
<1>. HIDE DEF n
<1>6. EdgesBySource(n) \subseteq walk.edges
  BY DEF EdgesBySource
<1>7. TypeOK'
  <2>1. EdgesBySource(n) \in SUBSET Edge
    BY <1>1, <1>2, <1>6, SearchingWalk
  <2>2. SearchTyped(search')
    BY <1>3, <1>4, <1>5, <2>1 DEF SearchTyped
  <2>. QED  BY <1>1, <1>2, <2>2, SearchingWalk, SearchMoves
<1>8. StagesFollow' /\ WalkStaysInBounds' /\ UndisturbedWalkIsByLevels'
  BY <1>1, <1>2, SearchKeepsWalk
<1>9. /\ Reached' = Reached
      /\ \A k : FactsWithin(k)' = FactsWithin(k)
      /\ \A a, e : Neighbors(a, e)' = Neighbors(a, e)
  BY <1>1, <1>4, StageMoves DEF Reached
<1>10. SearchIsBreadthFirst'
  <2>1. SearchIsBreadthFirst
    BY DEF QueryInv
  <2>2. CameFrom'
    <3>1. CameFrom
      BY <1>1, <2>1, SearchParts DEF SearchInParts
    <3>. QED  BY <1>1, <1>4, <3>1, CameFromSame
  <2>3. /\ ToSet(q) \subseteq Reached /\ {walk.source, walk.target} \subseteq walk.nodes
        /\ walk.target \in Reached => walk.target \in ToSet(q)
        /\ \A a \in Reached, e \in walk.edges, m \in walk.nodes :
             m \in Neighbors(a, e) => m \in Reached \/ a \in ToSet(q)
    BY <1>1, <2>1, SearchParts DEF Frontier, SearchInParts
  <2>4. ASSUME NEW a \in Reached, NEW e \in walk.edges, NEW m \in walk.nodes, m \in Neighbors(a, e)
        PROVE  m \in Reached \/ a \in ToSet(Tail(q)) \/ (a = n /\ e \in EdgesBySource(n))
    <3>1. a = n => e \in EdgesBySource(n)
      BY <2>4 DEF EdgesBySource
    <3>. QED  BY <1>5, <2>3, <2>4, <3>1
  <2>5. Frontier'
    <3>1. \A a \in Reached', e \in walk'.edges, m \in walk'.nodes :
            m \in Neighbors(a, e)' =>
              \/ m \in Reached'
              \/ a \in ToSet(search'.queue)
              \/ a = search'.from /\ e \in search'.pending
      BY <1>1, <1>4, <1>9, <2>4
    <3>2. /\ ToSet(search'.queue) \subseteq Reached' /\ search'.pending \subseteq walk'.edges
          /\ search'.from \in Reached' /\ {walk'.source, walk'.target} \subseteq walk'.nodes
          /\ walk'.target \in Reached' => walk'.target \in ToSet(search'.queue)
      BY <1>1, <1>4, <1>5, <1>6, <1>9, <2>3
    <3>. QED  BY <3>1, <3>2 DEF Frontier
  <2>. QED  BY <1>1, <2>2, <2>5, SearchPartsNext DEF SearchInParts
<1>11. QueueIsByDistance'
  <2>. SUFFICES ASSUME NEW k \in 0 .. request.depth
                PROVE  /\ \A i, j \in DOMAIN Tail(q) :
                            /\ i < j /\ Tail(q)[j] \in FactsWithin(k) => Tail(q)[i] \in FactsWithin(k)
                            /\ i < j /\ Tail(q)[i] \in FactsWithin(k) => Tail(q)[j] \in FactsWithin(k + 1)
                       /\ \A i \in DOMAIN Tail(q) :
                            /\ Tail(q)[i] \in FactsWithin(k) => n \in FactsWithin(k)
                            /\ n \in FactsWithin(k) => Tail(q)[i] \in FactsWithin(k + 1)
    BY <1>1, <1>4, <1>9 DEF QueueIsByDistance
  <2>1. \A i, j \in DOMAIN q :
          /\ i < j /\ q[j] \in FactsWithin(k) => q[i] \in FactsWithin(k)
          /\ i < j /\ q[i] \in FactsWithin(k) => q[j] \in FactsWithin(k + 1)
    BY <1>1 DEF QueryInv, QueueIsByDistance
  <2>2. \A i \in DOMAIN Tail(q) : i \in Nat /\ 1 < i + 1
    BY <1>5, SequencesTyped
  <2>3. \A i, j \in DOMAIN Tail(q) : i < j => i + 1 < j + 1
    BY <2>2
  <2>. QED  BY <1>5, <2>1, <2>2, <2>3
<1>. QED  BY <1>1, <1>7, <1>8, <1>10, <1>11, OtherStagesNext DEF QueryInv, TrailIsShortest

(* A fact the search has not reached lies beyond a node it still has to    *)
(* search.                                                                 *)
LEMMA BeyondFrontier ==
  ASSUME QueryInv, at = "search", {walk.source, walk.target} \subseteq walk.nodes,
         NEW k \in 0 .. request.depth, NEW m \in FactsWithin(k), m \notin Reached
  PROVE  \E i \in 1 .. k : \E a \in FactsWithin(i - 1) :
           \/ a \in ToSet(search.queue)
           \/ a = search.from /\ search.pending # {}
<1>1. request.kind = "path" /\ Frontier
  BY SearchParts DEF QueryInv, StagesFollow, SearchInParts
<1>2. k \in Int
  BY <1>1, SearchingWalk
<1>3. PICK i \in 1 .. k : \E a \in Reached \cap FactsWithin(i - 1) :
        \E b \in Node : b \notin Reached /\ <<a, b>> \in Links(Facts, Node)
  <2>. DEFINE links == Links(Facts, Node)
              roots == {walk.source}
  <2>1. roots \subseteq Reached
    BY DEF Reached
  <2>2. m \in Within(links, roots, k)
    BY DEF FactsWithin
  <2>. HIDE DEF links, roots
  <2>3. \E i \in 1 .. k : \E a \in Reached \cap Within(links, roots, i - 1) :
          \E b \in Node : b \notin Reached /\ <<a, b>> \in links /\ b \in Within(links, roots, i)
    BY <1>2, <2>1, <2>2, FirstNodeOff
  <2>. QED  BY <2>3 DEF FactsWithin, links, roots
<1>4. PICK a \in Reached \cap FactsWithin(i - 1) :
        \E b \in Node : b \notin Reached /\ <<a, b>> \in Links(Facts, Node)
  BY <1>3
<1>5. PICK b \in Node : b \notin Reached /\ <<a, b>> \in Links(Facts, Node)
  BY <1>4
<1>6. a \in Node
  <2>1. i - 1 \in Int
    BY <1>2
  <2>. QED  BY <1>4, <2>1, WithinTyped DEF FactsWithin
<1>7. b \in Facts.nodes /\ Linked(Facts, a, b)
  BY <1>5, <1>6, LinksAre
<1>8. PICK e \in Facts.edges : Included(e) /\ b \in Neighbors(a, e)
  BY <1>7, LinkedIsNeighbor
<1>9. b \in walk.nodes /\ e \in walk.edges
  BY <1>7, <1>8 DEF Facts
<1>10. a \in ToSet(search.queue) \/ (a = search.from /\ search.pending # {})
  BY <1>1, <1>4, <1>5, <1>8, <1>9 DEF Frontier
<1>. QED  BY <1>4, <1>10

LEMMA QueuedIs ==
  ASSUME NEW S, NEW q \in Seq(S), NEW a \in ToSet(q)
  PROVE  \E i \in DOMAIN q : q[i] = a
BY DEF ToSet

(* A node the search reaches is one edge further than where it comes from. *)
LEMMA ReachedIsFurther ==
  ASSUME QueryInv, at = "search", NEW e \in search.pending,
         NEW m \in Neighbors(search.from, e) \cap walk.nodes, m \notin Reached
  PROVE  \A k \in 0 .. request.depth :
           /\ m \in FactsWithin(k) => search.from \in FactsWithin(k - 1)
           /\ search.from \in FactsWithin(k) => m \in FactsWithin(k + 1)
<1>1. request.kind = "path" /\ Frontier /\ QueueIsByDistance /\ request.depth \in Nat
  BY SearchParts, TypesAre DEF QueryInv, StagesFollow, SearchInParts
<1>2. SearchTyped(search) /\ search.pending # {} /\ {walk.source, walk.target} \subseteq walk.nodes
  BY <1>1, SearchingWalk DEF Frontier
<1>3. ASSUME NEW k \in 0 .. request.depth, m \in FactsWithin(k)
      PROVE  search.from \in FactsWithin(k - 1)
  <2>1. PICK i \in 1 .. k : \E a \in FactsWithin(i - 1) :
           \/ a \in ToSet(search.queue)
           \/ a = search.from /\ search.pending # {}
    BY <1>2, <1>3, BeyondFrontier
  <2>2. PICK a \in FactsWithin(i - 1) :
           \/ a \in ToSet(search.queue)
           \/ a = search.from /\ search.pending # {}
    BY <2>1
  <2>3. i - 1 \in 0 .. request.depth /\ i - 1 \in Int /\ k - 1 \in Int /\ i - 1 <= k - 1
    BY <1>1
  <2>4. search.from \in FactsWithin(i - 1)
    <3>1. CASE a \in ToSet(search.queue)
      <4>1. PICK j \in DOMAIN search.queue : search.queue[j] = a
        BY <1>2, <3>1, QueuedIs DEF SearchTyped
      <4>. QED  BY <1>1, <1>2, <2>2, <2>3, <4>1 DEF QueueIsByDistance
    <3>. QED  BY <2>2, <3>1
  <2>. QED  BY <2>3, <2>4, WithinGrows DEF FactsWithin
<1>4. ASSUME NEW k \in 0 .. request.depth, search.from \in FactsWithin(k)
      PROVE  m \in FactsWithin(k + 1)
  <2>1. k \in Nat /\ m \in Node /\ e \in walk.edges
    BY <1>1, NeighborsAre DEF Frontier
  <2>2. search.from \in Node
    BY <1>4, <2>1, WithinTyped DEF FactsWithin
  <2>3. Included(e)
    BY <1>1, <2>1, SearchingWalk
  <2>4. <<search.from, m>> \in Links(Facts, Node)
    <3>1. Linked(Facts, search.from, m)
      BY <2>1, <2>3, NeighborIsLinked DEF Facts
    <3>. QED  BY <2>1, <2>2, <3>1, LinksAre DEF Facts
  <2>. QED  BY <1>4, <2>1, <2>4, WithinStep DEF FactsWithin
<1>. QED  BY <1>3, <1>4

(* An edge that leads nowhere new is gone from those to come. *)
LEMMA PassKeeps ==
  ASSUME QueryInv, at = "search", at' = "search", UNCHANGED <<snapshot, request, walk, answer>>,
         NEW e \in search.pending, search' = [search EXCEPT !.pending = @ \ {e}],
         \A m \in Neighbors(search.from, e) \cap walk.nodes : m \in Reached
  PROVE  QueryInv'
<1>1. request.kind = "path" /\ Frontier /\ CameFrom
  BY SearchParts DEF QueryInv, StagesFollow, SearchInParts
<1>2. SearchTyped(search) /\ search.pending # {}
  BY <1>1, SearchingWalk
<1>3. /\ search'.queue = search.queue /\ search'.before = search.before
      /\ search'.from = search.from /\ search'.pending = search.pending \ {e}
      /\ SearchTyped(search')
  BY <1>2 DEF SearchTyped
<1>4. TypeOK'
  BY <1>1, <1>3, SearchingWalk, SearchMoves
<1>5. StagesFollow' /\ WalkStaysInBounds' /\ UndisturbedWalkIsByLevels'
  BY <1>1, SearchKeepsWalk
<1>6. /\ Reached' = Reached
      /\ \A k : FactsWithin(k)' = FactsWithin(k)
      /\ \A a, f : Neighbors(a, f)' = Neighbors(a, f)
  BY <1>3, StageMoves DEF Reached
<1>7. CameFrom'
  BY <1>1, <1>3, CameFromSame
<1>8. Frontier'
  BY <1>1, <1>2, <1>3, <1>6 DEF Frontier
<1>9. QueueIsByDistance'
  BY <1>2, <1>3, <1>6 DEF QueryInv, QueueIsByDistance
<1>. QED  BY <1>4, <1>5, <1>7, <1>8, <1>9, SearchPartsNext, OtherStagesNext
          DEF QueryInv, SearchInParts, TrailIsShortest

(* What the search remembers once an edge led it to node m. *)
Extended(s, e, m) ==
  [n \in DOMAIN s.before \cup {m} |-> IF n = m THEN [node |-> s.from, edge |-> e] ELSE s.before[n]]

Joined(s, e, m, to) ==
  /\ to.queue = Append(s.queue, m) /\ to.before = Extended(s, e, m)
  /\ to.from = s.from /\ to.pending = s.pending \ {e}
  /\ to = [queue |-> to.queue, before |-> to.before, from |-> to.from, pending |-> to.pending]

LEMMA RecordIs ==
  ASSUME NEW queue, NEW before, NEW from, NEW pending, NEW s,
         s = [queue |-> queue, before |-> before, from |-> from, pending |-> pending]
  PROVE  s.queue = queue /\ s.before = before /\ s.from = from /\ s.pending = pending
OBVIOUS

LEMMA ReachIs ==
  ASSUME NEW s, SearchTyped(s), NEW e, NEW m
  PROVE  Joined(s, e, m, Reach([s EXCEPT !.pending = @ \ {e}], e, m))
<1>. DEFINE rest == [s EXCEPT !.pending = @ \ {e}]
            to == Reach(rest, e, m)
            more == Extended(s, e, m)
<1>1. /\ rest.queue = s.queue /\ rest.before = s.before
      /\ rest.from = s.from /\ rest.pending = s.pending \ {e}
  BY DEF SearchTyped
<1>. HIDE DEF rest
<1>2. to = [queue |-> Append(s.queue, m), before |-> more, from |-> s.from, pending |-> s.pending \ {e}]
  BY <1>1, Zenon DEF Reach, Extended
<1>. HIDE DEF more, to
<1>3. /\ to.queue = Append(s.queue, m) /\ to.before = more
      /\ to.from = s.from /\ to.pending = s.pending \ {e}
  BY <1>2, RecordIs, Zenon
<1>4. to = [queue |-> to.queue, before |-> to.before, from |-> to.from, pending |-> to.pending]
  BY <1>2, <1>3, Zenon
<1>5. Joined(s, e, m, to)
  BY <1>3, <1>4, Zenon DEF Joined, more
<1>. QED  BY <1>5 DEF to, rest

LEMMA ReachKeeps ==
  ASSUME QueryInv, at = "search", at' = "search", UNCHANGED <<snapshot, request, walk, answer>>,
         NEW e \in search.pending,
         NEW m \in Neighbors(search.from, e) \cap walk.nodes, m \notin Reached,
         search' = Reach([search EXCEPT !.pending = @ \ {e}], e, m)
  PROVE  QueryInv'
<1>. DEFINE q == search.queue
            before == Extended(search, e, m)
<1>1. /\ request.kind = "path" /\ Frontier /\ CameFrom /\ QueueIsByDistance
      /\ request.depth \in Nat /\ m \in Node /\ e \in Edge /\ e \in walk.edges
  BY SearchParts, SearchingWalk, NeighborsAre DEF QueryInv, StagesFollow, SearchInParts, Frontier
<1>2. SearchTyped(search) /\ search.pending # {} /\ q \in Seq(Node) /\ search.from \in Reached
  BY <1>1, SearchingWalk DEF SearchTyped, Frontier
<1>3. search.from \in Node
  BY <1>1, <1>2, SearchingWalk DEF Reached, SearchTyped
<1>4. /\ search'.queue = Append(q, m) /\ search'.before = before
      /\ search'.from = search.from /\ search'.pending = search.pending \ {e}
      /\ search' = [queue |-> search'.queue, before |-> search'.before,
                    from |-> search'.from, pending |-> search'.pending]
  <2>1. Joined(search, e, m, search')
    BY <1>2, ReachIs, Zenon
  <2>. QED  BY <2>1 DEF Joined
<1>5. /\ before \in [DOMAIN before -> Predecessor]
      /\ DOMAIN before = DOMAIN search.before \cup {m} /\ DOMAIN before \in SUBSET Node
      /\ before[m] = [node |-> search.from, edge |-> e]
      /\ \A n \in DOMAIN search.before : n # m /\ before[n] = search.before[n]
  <2>1. m \notin DOMAIN search.before /\ DOMAIN search.before \in SUBSET Node
    BY <1>2 DEF Reached, SearchTyped
  <2>2. [node |-> search.from, edge |-> e] \in Predecessor
    BY <1>1, <1>3 DEF Predecessor
  <2>3. \A n \in DOMAIN search.before : search.before[n] \in Predecessor
    BY <1>2 DEF SearchTyped
  <2>. QED  BY <1>1, <2>1, <2>2, <2>3 DEF Extended
<1>. HIDE DEF before
<1>6. /\ Append(q, m) \in Seq(Node) /\ Append(q, m) # <<>>
      /\ DOMAIN Append(q, m) = DOMAIN q \cup {Len(q) + 1}
      /\ Append(q, m)[Len(q) + 1] = m
      /\ \A i \in DOMAIN q : Append(q, m)[i] = q[i] /\ i < Len(q) + 1 /\ i \in Nat
      /\ ToSet(Append(q, m)) = ToSet(q) \cup {m}
  BY <1>1, <1>2, AppendIs
<1>7. TypeOK'
  <2>1. SearchTyped(search')
    BY <1>2, <1>4, <1>5, <1>6 DEF SearchTyped
  <2>. QED  BY <1>1, <2>1, SearchingWalk, SearchMoves
<1>8. StagesFollow' /\ WalkStaysInBounds' /\ UndisturbedWalkIsByLevels'
  BY <1>1, SearchKeepsWalk
<1>9. /\ Reached' = Reached \cup {m}
      /\ \A k : FactsWithin(k)' = FactsWithin(k)
      /\ \A a, f : Neighbors(a, f)' = Neighbors(a, f)
  BY <1>4, <1>5, StageMoves DEF Reached
<1>10. \A k \in 0 .. request.depth :
         /\ m \in FactsWithin(k) => search.from \in FactsWithin(k - 1)
         /\ search.from \in FactsWithin(k) => m \in FactsWithin(k + 1)
  BY ReachedIsFurther
<1>11. CameFrom'
  <2>1. ASSUME NEW n \in DOMAIN search.before
        PROVE  /\ n \in walk.nodes /\ n # walk.source
               /\ search.before[n].node \in Reached /\ search.before[n].edge \in walk.edges
               /\ n \in Neighbors(search.before[n].node, search.before[n].edge)
               /\ \A k \in 0 .. request.depth :
                    n \in FactsWithin(k) => search.before[n].node \in FactsWithin(k - 1)
    BY <1>1, <2>1 DEF CameFrom
  <2>2. /\ m \in walk.nodes /\ m # walk.source
        /\ before[m].node \in Reached /\ before[m].edge \in walk.edges
        /\ m \in Neighbors(before[m].node, before[m].edge)
        /\ \A k \in 0 .. request.depth :
             m \in FactsWithin(k) => before[m].node \in FactsWithin(k - 1)
    BY <1>1, <1>2, <1>5, <1>10 DEF Reached
  <2>3. ASSUME NEW n \in DOMAIN before
        PROVE  /\ n \in walk.nodes /\ n # walk.source
               /\ before[n].node \in Reached /\ before[n].edge \in walk.edges
               /\ n \in Neighbors(before[n].node, before[n].edge)
               /\ \A k \in 0 .. request.depth :
                    n \in FactsWithin(k) => before[n].node \in FactsWithin(k - 1)
    BY <1>5, <2>1, <2>2, <2>3
  <2>4. ASSUME NEW n \in DOMAIN before, NEW k \in 0 .. request.depth, n \in FactsWithin(k)'
        PROVE  before[n].node \in FactsWithin(k - 1)'
    BY <1>9, <2>3, <2>4
  <2>. QED  BY <1>4, <1>9, <2>3, <2>4 DEF CameFrom
<1>12. Frontier'
  <2>1. ASSUME NEW n \in Reached \cup {m}, NEW f \in walk.edges, NEW o \in walk.nodes, o \in Neighbors(n, f)
        PROVE  \/ o \in Reached \cup {m}
               \/ n \in ToSet(q) \cup {m}
               \/ n = search.from /\ f \in search.pending \ {e}
    <3>1. CASE n = search.from /\ f = e
      BY <2>1, <3>1, NeighborsAre
    <3>2. CASE n # m /\ ~(n = search.from /\ f = e)
      BY <1>1, <1>2, <2>1, <3>2 DEF Frontier
    <3>. QED  BY <3>1, <3>2
  <2>2. \A n \in Reached', f \in walk'.edges, o \in walk'.nodes :
          o \in Neighbors(n, f)' =>
            \/ o \in Reached'
            \/ n \in ToSet(search'.queue)
            \/ n = search'.from /\ f \in search'.pending
    BY <1>4, <1>6, <1>9, <2>1
  <2>3. /\ ToSet(search'.queue) \subseteq Reached' /\ search'.pending \subseteq walk'.edges
        /\ search'.from \in Reached' /\ {walk'.source, walk'.target} \subseteq walk'.nodes
        /\ walk'.target \in Reached' => walk'.target \in ToSet(search'.queue)
    BY <1>1, <1>2, <1>4, <1>6, <1>9 DEF Frontier
  <2>. QED  BY <2>2, <2>3 DEF Frontier
<1>13. QueueIsByDistance'
  <2>. SUFFICES ASSUME NEW k \in 0 .. request.depth
                PROVE  /\ \A i, j \in DOMAIN Append(q, m) :
                            /\ i < j /\ Append(q, m)[j] \in FactsWithin(k) => Append(q, m)[i] \in FactsWithin(k)
                            /\ i < j /\ Append(q, m)[i] \in FactsWithin(k) => Append(q, m)[j] \in FactsWithin(k + 1)
                       /\ \A i \in DOMAIN Append(q, m) :
                            /\ Append(q, m)[i] \in FactsWithin(k) => search.from \in FactsWithin(k)
                            /\ search.from \in FactsWithin(k) => Append(q, m)[i] \in FactsWithin(k + 1)
    BY <1>4, <1>9 DEF QueueIsByDistance
  <2>1. /\ \A i, j \in DOMAIN q :
             /\ i < j /\ q[j] \in FactsWithin(k) => q[i] \in FactsWithin(k)
             /\ i < j /\ q[i] \in FactsWithin(k) => q[j] \in FactsWithin(k + 1)
        /\ \A i \in DOMAIN q :
             /\ q[i] \in FactsWithin(k) => search.from \in FactsWithin(k)
             /\ search.from \in FactsWithin(k) => q[i] \in FactsWithin(k + 1)
    BY <1>1, <1>2 DEF QueueIsByDistance
  <2>2. m \in FactsWithin(k) => k - 1 \in 0 .. request.depth /\ search.from \in FactsWithin(k - 1)
    <3>. SUFFICES ASSUME m \in FactsWithin(k)
                  PROVE  k - 1 \in 0 .. request.depth /\ search.from \in FactsWithin(k - 1)
      OBVIOUS
    <3>1. search.from \in FactsWithin(k - 1)
      BY <1>10
    <3>2. k - 1 \in Int /\ ~(k - 1 < 0)
      BY <1>1, <3>1, WithinNothing DEF FactsWithin
    <3>. QED  BY <1>1, <3>1, <3>2
  <2>3. FactsWithin(k - 1) \subseteq FactsWithin(k)
    <3>1. k - 1 \in Int /\ k \in Int /\ k - 1 <= k
      BY <1>1
    <3>. QED  BY <3>1, WithinGrows DEF FactsWithin
  <2>4. m \in FactsWithin(k) => \A i \in DOMAIN q : q[i] \in FactsWithin(k)
    <3>. SUFFICES ASSUME m \in FactsWithin(k), NEW i \in DOMAIN q
                  PROVE  q[i] \in FactsWithin(k)
      OBVIOUS
    <3>1. q[i] \in FactsWithin((k - 1) + 1)
      BY <1>1, <1>2, <2>2 DEF QueueIsByDistance
    <3>2. (k - 1) + 1 = k
      BY <1>1
    <3>. QED  BY <3>1, <3>2
  <2>5. /\ m \in FactsWithin(k) => search.from \in FactsWithin(k)
        /\ search.from \in FactsWithin(k) => m \in FactsWithin(k + 1)
        /\ \A i \in DOMAIN q : q[i] \in FactsWithin(k) => m \in FactsWithin(k + 1)
    BY <1>10, <2>1, <2>2, <2>3
  <2>6. Len(q) + 1 \notin DOMAIN q /\ Len(q) \in Nat /\ \A i \in DOMAIN q : ~(Len(q) + 1 < i)
    BY <1>2, SequencesTyped
  <2>7. ~(Len(q) + 1 < Len(q) + 1)
    BY <2>6
  <2>8. ASSUME NEW i \in DOMAIN Append(q, m), NEW j \in DOMAIN Append(q, m), i < j
        PROVE  /\ Append(q, m)[j] \in FactsWithin(k) => Append(q, m)[i] \in FactsWithin(k)
               /\ Append(q, m)[i] \in FactsWithin(k) => Append(q, m)[j] \in FactsWithin(k + 1)
    <3>1. i \in DOMAIN q
      BY <1>6, <2>6, <2>7, <2>8
    <3>2. CASE j \in DOMAIN q
      BY <1>6, <2>1, <2>8, <3>1, <3>2
    <3>3. CASE j = Len(q) + 1
      BY <1>6, <2>4, <2>5, <3>1, <3>3
    <3>. QED  BY <1>6, <3>2, <3>3
  <2>9. ASSUME NEW i \in DOMAIN Append(q, m)
        PROVE  /\ Append(q, m)[i] \in FactsWithin(k) => search.from \in FactsWithin(k)
               /\ search.from \in FactsWithin(k) => Append(q, m)[i] \in FactsWithin(k + 1)
    <3>1. CASE i \in DOMAIN q
      BY <1>6, <2>1, <3>1
    <3>2. CASE i = Len(q) + 1
      BY <1>6, <2>5, <3>2
    <3>. QED  BY <1>6, <3>1, <3>2
  <2>. QED  BY <2>8, <2>9
<1>. QED  BY <1>7, <1>8, <1>11, <1>12, <1>13, SearchPartsNext, OtherStagesNext
          DEF QueryInv, SearchInParts, TrailIsShortest

LEMMA SearchEdgeKeeps ==
  ASSUME QueryInv, SearchEdge
  PROVE  QueryInv'
<1>. DEFINE e == First(search.pending)
            new == {m \in Neighbors(search.from, e) \cap walk.nodes :
                      m \notin DOMAIN search.before \cup {walk.source}}
<1>1. /\ at = "search" /\ at' = "search" /\ search.pending # {}
      /\ UNCHANGED <<snapshot, request, walk, answer>>
      /\ \/ \E m \in new : search' = Reach([search EXCEPT !.pending = @ \ {e}], e, m)
         \/ new = {} /\ search' = [search EXCEPT !.pending = @ \ {e}]
  BY DEF SearchEdge
<1>2. search.pending \in SUBSET Edge
  BY <1>1, SearchingWalk DEF SearchTyped, QueryInv, StagesFollow
<1>3. e \in search.pending
  BY <1>1, <1>2, FirstIsIn
<1>. HIDE DEF e
<1>4. CASE new = {} /\ search' = [search EXCEPT !.pending = @ \ {e}]
  <2>1. \A m \in Neighbors(search.from, e) \cap walk.nodes : m \in Reached
    BY <1>4 DEF Reached
  <2>. QED  BY <1>1, <1>3, <1>4, <2>1, PassKeeps
<1>5. ASSUME NEW m \in new, search' = Reach([search EXCEPT !.pending = @ \ {e}], e, m)
      PROVE  QueryInv'
  <2>1. m \in Neighbors(search.from, e) \cap walk.nodes /\ m \notin Reached
    BY <1>5 DEF Reached
  <2>. QED  BY <1>1, <1>3, <1>5, <2>1, ReachKeeps
<1>. QED  BY <1>1, <1>4, <1>5

-----------------------------------------------------------------------------
(* The way back.                                                           *)

LEMMA PathFoundKeeps ==
  ASSUME QueryInv, PathFound
  PROVE  QueryInv'
<1>. DEFINE q == search.queue
<1>1. /\ at = "search" /\ at' = "trail" /\ search.pending = {} /\ q # <<>> /\ Head(q) = walk.target
      /\ answer' = [nodes |-> <<walk.target>>, edges |-> <<>>]
      /\ UNCHANGED <<snapshot, request, walk, search>>
  BY DEF PathFound
<1>2. request.kind = "path" /\ Frontier /\ CameFrom
  BY <1>1, SearchParts DEF QueryInv, StagesFollow, SearchInParts
<1>3. SearchTyped(search) /\ q \in Seq(Node) /\ walk.target \in Node
  BY <1>1, <1>2, SearchingWalk DEF SearchTyped
<1>4. walk.target \in ToSet(q)
  BY <1>1, <1>3, TailIs
<1>5. TypeOK'
  <2>1. answer' \in [nodes : Seq(Node), edges : Seq(Edge)]
    BY <1>1, <1>3
  <2>2. SearchTyped(search')
    BY <1>1, <1>3
  <2>. QED  BY <1>1, <1>2, <2>1, <2>2, SearchingWalk, SearchMoves
<1>6. StagesFollow' /\ WalkStaysInBounds' /\ UndisturbedWalkIsByLevels'
  BY <1>1, <1>2, SearchKeepsWalk
<1>7. /\ Reached' = Reached
      /\ \A k : FactsWithin(k)' = FactsWithin(k)
  BY <1>1, StageMoves DEF Reached
<1>8. SearchIsBreadthFirst'
  <2>1. CameFrom'
    BY <1>1, <1>2, CameFromSame
  <2>2. /\ ToSet(search'.queue) \subseteq Reached' /\ search'.pending = {}
        /\ {walk'.source, walk'.target} \subseteq walk'.nodes
    BY <1>1, <1>2, <1>7 DEF Frontier
  <2>. QED  BY <1>1, <2>1, <2>2 DEF SearchIsBreadthFirst, CameFrom
<1>9. TrailIsShortest'
  <2>1. answer'.nodes = <<walk.target>> /\ answer'.edges = <<>> /\ Len(answer'.edges) = 0
        /\ Len(answer'.nodes) = 1 /\ answer'.nodes[1] = walk.target
    BY <1>1
  <2>2. walk.target \in Reached
    BY <1>2, <1>4 DEF Frontier
  <2>3. \A k \in 0 .. request.depth : k - 0 = k
    OBVIOUS
  <2>. QED  BY <1>1, <1>7, <2>1, <2>2, <2>3 DEF TrailIsShortest
<1>10. QueueIsByDistance'
  BY <1>1 DEF QueueIsByDistance
<1>. QED  BY <1>1, <1>5, <1>6, <1>8, <1>9, <1>10, OtherStagesNext DEF QueryInv

LEMMA PrependIs ==
  ASSUME NEW S, NEW q \in Seq(S), NEW m \in S
  PROVE  /\ <<m>> \o q \in Seq(S) /\ Len(<<m>> \o q) = Len(q) + 1 /\ (<<m>> \o q)[1] = m
         /\ \A i \in DOMAIN q : (<<m>> \o q)[i + 1] = q[i]
OBVIOUS

LEMMA TrailIs ==
  ASSUME QueryInv, at = "trail"
  PROVE  /\ request.kind = "path" /\ TypeOK /\ CameFrom /\ SearchTyped(search)
         /\ answer.nodes \in Seq(Node) /\ answer.edges \in Seq(Edge)
         /\ Len(answer.edges) \in Nat /\ request.depth \in Nat
         /\ DOMAIN answer.edges = 1 .. Len(answer.edges)
         /\ DOMAIN answer.nodes = 1 .. Len(answer.edges) + 1
         /\ Len(answer.nodes) = Len(answer.edges) + 1
         /\ Head(answer.nodes) = answer.nodes[1]
         /\ answer.nodes[1] \in Reached /\ answer.nodes[Len(answer.edges) + 1] = walk.target
         /\ \A i \in 1 .. Len(answer.edges) :
              answer.edges[i] \in walk.edges /\ answer.nodes[i + 1] \in Neighbors(answer.nodes[i], answer.edges[i])
         /\ \A k \in 0 .. request.depth :
              walk.target \in FactsWithin(k) => answer.nodes[1] \in FactsWithin(k - Len(answer.edges))
<1>1. request.kind = "path"
  BY DEF QueryInv, StagesFollow
<1>2. /\ TypeOK /\ SearchTyped(search) /\ request.depth \in Nat
      /\ answer.nodes \in Seq(Node) /\ answer.edges \in Seq(Edge)
  BY <1>1, SearchingWalk
<1>3. CameFrom
  BY DEF QueryInv, SearchIsBreadthFirst, CameFrom
<1>4. /\ Len(answer.edges) \in Nat /\ DOMAIN answer.edges = 1 .. Len(answer.edges)
      /\ DOMAIN answer.nodes = 1 .. Len(answer.nodes)
  BY <1>2, SequencesTyped
<1>5. /\ Len(answer.nodes) = Len(answer.edges) + 1
      /\ answer.nodes[1] \in Reached /\ answer.nodes[Len(answer.edges) + 1] = walk.target
      /\ \A i \in 1 .. Len(answer.edges) :
           answer.edges[i] \in walk.edges /\ answer.nodes[i + 1] \in Neighbors(answer.nodes[i], answer.edges[i])
      /\ \A k \in 0 .. request.depth :
           walk.target \in FactsWithin(k) => answer.nodes[1] \in FactsWithin(k - Len(answer.edges))
  BY DEF QueryInv, TrailIsShortest
<1>6. Head(answer.nodes) = answer.nodes[1]
  BY <1>2, <1>4, <1>5
<1>. QED  BY <1>1, <1>2, <1>3, <1>4, <1>5, <1>6

LEMMA TraceBackKeeps ==
  ASSUME QueryInv, TraceBack
  PROVE  QueryInv'
<1>. DEFINE first == answer.nodes[1]
            length == Len(answer.edges)
            previous == search.before[first]
<1>1. /\ at = "trail" /\ at' = "trail" /\ first # walk.source
      /\ answer' = [nodes |-> <<previous.node>> \o answer.nodes, edges |-> <<previous.edge>> \o answer.edges]
      /\ UNCHANGED <<snapshot, request, walk, search>>
  BY TrailIs DEF TraceBack
<1>2. first \in DOMAIN search.before
  BY <1>1, TrailIs DEF Reached
<1>3. previous \in Predecessor /\ previous.node \in Node /\ previous.edge \in Edge
  BY <1>1, <1>2, TrailIs DEF SearchTyped, Predecessor
<1>4. /\ first \in walk.nodes
      /\ previous.node \in Reached /\ previous.edge \in walk.edges
      /\ first \in Neighbors(previous.node, previous.edge)
      /\ \A k \in 0 .. request.depth : first \in FactsWithin(k) => previous.node \in FactsWithin(k - 1)
  BY <1>1, <1>2, TrailIs DEF CameFrom
<1>5. /\ answer'.nodes \in Seq(Node) /\ Len(answer'.nodes) = length + 2
      /\ answer'.nodes[1] = previous.node
      /\ \A i \in DOMAIN answer.nodes : answer'.nodes[i + 1] = answer.nodes[i]
  <2>1. answer'.nodes = <<previous.node>> \o answer.nodes
    BY <1>1
  <2>0. answer.nodes \in Seq(Node) /\ previous.node \in Node
    BY <1>1, <1>3, TrailIs
  <2>. HIDE DEF previous
  <2>2. Len(answer'.nodes) = Len(answer.nodes) + 1
    BY <2>0, <2>1, PrependIs
  <2>3. /\ answer'.nodes \in Seq(Node) /\ answer'.nodes[1] = previous.node
        /\ \A i \in DOMAIN answer.nodes : answer'.nodes[i + 1] = answer.nodes[i]
    BY <2>0, <2>1, PrependIs
  <2>4. (length + 1) + 1 = length + 2 /\ Len(answer.nodes) = length + 1
    BY <1>1, TrailIs
  <2>. QED  BY <2>2, <2>3, <2>4
<1>6. /\ answer'.edges \in Seq(Edge) /\ Len(answer'.edges) = length + 1
      /\ answer'.edges[1] = previous.edge
      /\ \A i \in 1 .. length : answer'.edges[i + 1] = answer.edges[i]
  <2>1. answer'.edges = <<previous.edge>> \o answer.edges
    BY <1>1
  <2>. QED  BY <1>1, <1>3, <2>1, TrailIs, PrependIs
<1>7. answer' = [nodes |-> answer'.nodes, edges |-> answer'.edges]
  BY <1>1
<1>. HIDE DEF previous, length
<1>8. TypeOK'
  <2>1. answer' \in [nodes : Seq(Node), edges : Seq(Edge)]
    BY <1>5, <1>6, <1>7
  <2>2. SearchTyped(search')
    BY <1>1, TrailIs
  <2>. QED  BY <1>1, <2>1, <2>2, TrailIs, SearchMoves
<1>9. StagesFollow' /\ WalkStaysInBounds' /\ UndisturbedWalkIsByLevels'
  BY <1>1, TrailIs, SearchKeepsWalk
<1>10. /\ Reached' = Reached
       /\ \A k : FactsWithin(k)' = FactsWithin(k)
       /\ \A a, e : Neighbors(a, e)' = Neighbors(a, e)
  BY <1>1, StageMoves DEF Reached
<1>11. SearchIsBreadthFirst'
  <2>1. CameFrom'
    BY <1>1, TrailIs, CameFromSame
  <2>2. /\ ToSet(search'.queue) \subseteq Reached' /\ search'.pending \subseteq walk'.edges
        /\ search'.pending # {} => search'.from \in Reached'
        /\ {walk'.source, walk'.target} \subseteq walk'.nodes
    BY <1>1, <1>10 DEF QueryInv, SearchIsBreadthFirst
  <2>. QED  BY <1>1, <2>1, <2>2 DEF SearchIsBreadthFirst, CameFrom
<1>12. length \in Nat
  BY <1>1, TrailIs DEF length
<1>13. TrailIsShortest'
  <2>1. answer'.nodes[(length + 1) + 1] = walk.target
    <3>1. length + 1 \in DOMAIN answer.nodes /\ answer.nodes[length + 1] = walk.target
      BY <1>1, <1>12, TrailIs DEF length
    <3>. QED  BY <1>5, <3>1
  <2>2. ASSUME NEW i \in 1 .. length + 1
        PROVE  answer'.edges[i] \in walk.edges /\ answer'.nodes[i + 1] \in Neighbors(answer'.nodes[i], answer'.edges[i])
    <3>1. CASE i = 1
      <4>1. 1 \in DOMAIN answer.nodes
        BY <1>1, <1>12, TrailIs DEF length
      <4>2. answer'.nodes[1 + 1] = first
        BY <1>5, <4>1
      <4>. QED  BY <1>4, <1>5, <1>6, <3>1, <4>2
    <3>2. CASE i # 1
      <4>1. PICK j \in 1 .. length : i = j + 1
        <5>1. i - 1 \in 1 .. length /\ i = (i - 1) + 1
          BY <1>12, <3>2
        <5>. QED  BY <5>1
      <4>2. j \in DOMAIN answer.nodes /\ j + 1 \in DOMAIN answer.nodes
        BY <1>1, <1>12, TrailIs DEF length
      <4>3. answer'.nodes[j + 1] = answer.nodes[j] /\ answer'.nodes[(j + 1) + 1] = answer.nodes[j + 1]
        BY <1>5, <4>2
      <4>4. answer'.edges[j + 1] = answer.edges[j]
        BY <1>6
      <4>5. answer.edges[j] \in walk.edges /\ answer.nodes[j + 1] \in Neighbors(answer.nodes[j], answer.edges[j])
        BY <1>1, TrailIs DEF length
      <4>. QED  BY <4>1, <4>3, <4>4, <4>5
    <3>. QED  BY <3>1, <3>2
  <2>3. ASSUME NEW k \in 0 .. request.depth, walk.target \in FactsWithin(k)
        PROVE  previous.node \in FactsWithin(k - (length + 1))
    <3>1. first \in FactsWithin(k - length)
      BY <1>1, <2>3, TrailIs DEF length
    <3>2. request.depth \in Nat /\ k \in Nat
      BY <1>1, TrailIs
    <3>3. k - length \in Int /\ ~(k - length < 0)
      BY <1>12, <3>1, <3>2, WithinNothing DEF FactsWithin
    <3>4. k - length \in 0 .. request.depth /\ (k - length) - 1 = k - (length + 1)
      BY <1>12, <3>2, <3>3
    <3>5. previous.node \in FactsWithin((k - length) - 1)
      BY <1>4, <3>1, <3>4
    <3>. QED  BY <3>4, <3>5
  <2>4. Len(answer'.nodes) = Len(answer'.edges) + 1
    BY <1>5, <1>6, <1>12
  <2>. QED  BY <1>1, <1>4, <1>5, <1>6, <1>10, <2>1, <2>2, <2>3, <2>4 DEF TrailIsShortest
<1>14. QueueIsByDistance'
  BY <1>1 DEF QueueIsByDistance
<1>. QED  BY <1>1, <1>8, <1>9, <1>11, <1>13, <1>14, OtherStagesNext DEF QueryInv

LEMMA PathTracedKeeps ==
  ASSUME QueryInv, PathTraced
  PROVE  QueryInv'
<1>. DEFINE length == Len(answer.edges)
<1>1. /\ at = "trail" /\ at' = "done" /\ answer.nodes[1] = walk.source
      /\ UNCHANGED <<snapshot, request, walk, search, answer>>
  BY TrailIs DEF PathTraced
<1>2. TypeOK'
  BY <1>1, TypesAre, WalkMoves DEF QueryInv
<1>3. StagesFollow'
  BY <1>1 DEF QueryInv, StagesFollow, snapshot, Undisturbed
<1>4. /\ \A d : Reachable(d)' = Reachable(d)
      /\ Undisturbed' <=> Undisturbed
      /\ length \in Nat /\ request.depth \in Nat /\ request.kind = "path"
  BY <1>1, StageMoves, TrailIs
<1>5. ASSUME NEW i \in 1 .. length
      PROVE  /\ answer.edges[i] \in seen.edges
             /\ Linked([seen EXCEPT !.edges = {answer.edges[i]}], answer.nodes[i], answer.nodes[i + 1])
  <2>1. /\ answer.edges[i] \in walk.edges
        /\ answer.nodes[i + 1] \in Neighbors(answer.nodes[i], answer.edges[i])
    BY <1>1, TrailIs
  <2>2. answer.edges[i] \in seen.edges /\ Included(answer.edges[i])
    BY <1>1, <1>4, <2>1, SearchingWalk
  <2>3. [seen EXCEPT !.edges = {answer.edges[i]}].edges = {answer.edges[i]}
    <3>1. seen \in Graphs
      BY <1>1, TrailIs DEF TypeOK
    <3>. QED  BY <3>1 DEF Graphs
  <2>. DEFINE g == [seen EXCEPT !.edges = {answer.edges[i]}]
  <2>4. answer.edges[i] \in g.edges
    BY <2>3
  <2>. HIDE DEF g
  <2>5. Linked(g, answer.nodes[i], answer.nodes[i + 1])
    BY <2>1, <2>2, <2>4, NeighborIsLinked
  <2>. QED  BY <2>2, <2>5 DEF g
<1>6. ASSUME Undisturbed, walk.target \in Reachable(length - 1) PROVE FALSE
  <2>1. /\ walk.nodes \subseteq Reachable(request.depth)
        /\ \A d \in 0 .. request.depth : walk.nodes \cap Reachable(d) \subseteq FactsWithin(d)
    BY <1>1, <1>4, <1>6 DEF QueryInv, UndisturbedWalkIsByLevels, Walked
  <2>2. walk.target \in walk.nodes
    BY <1>1 DEF QueryInv, SearchIsBreadthFirst
  <2>3. ASSUME NEW d \in 0 .. request.depth, walk.target \in Reachable(d), d < length PROVE FALSE
    <3>1. walk.source \in FactsWithin(d - length)
      BY <1>1, <2>1, <2>2, <2>3, TrailIs
    <3>2. d - length \in Int /\ d - length < 0
      BY <1>4, <2>3
    <3>. QED  BY <3>1, <3>2, WithinNothing DEF FactsWithin
  <2>4. CASE length - 1 <= request.depth
    <3>1. length - 1 \in Int /\ ~(length - 1 < 0)
      BY <1>4, <1>6, WithinNothing DEF Reachable
    <3>2. length - 1 \in 0 .. request.depth /\ length - 1 < length
      BY <1>4, <2>4, <3>1
    <3>. QED  BY <1>6, <2>3, <3>2
  <2>5. CASE ~(length - 1 <= request.depth)
    <3>1. request.depth \in 0 .. request.depth /\ request.depth < length
      BY <1>4, <2>5
    <3>. QED  BY <2>1, <2>2, <2>3, <3>1
  <2>. QED  BY <2>4, <2>5
<1>7. answer.nodes # <<>> /\ answer.nodes[length + 1] = walk.target
  <2>1. Len(answer.nodes) # 0
    BY <1>1, <1>4, TrailIs
  <2>. QED  BY <1>1, <2>1, TrailIs
<1>8. PathIsShortest'
  <2>1. \A i \in 1 .. length :
          /\ answer'.edges[i] \in seen'.edges
          /\ Linked([seen EXCEPT !.edges = {answer.edges[i]}], answer.nodes[i], answer.nodes[i + 1])'
    BY <1>1, <1>5, LinkedSame DEF snapshot
  <2>2. Undisturbed' => walk'.target \notin Reachable(length - 1)'
    BY <1>1, <1>4, <1>6
  <2>. QED  BY <1>1, <1>7, <2>1, <2>2 DEF PathIsShortest
<1>9. ExplanationIsExact'
  BY <1>1, <1>4 DEF ExplanationIsExact
<1>. QED  BY <1>1, <1>2, <1>3, <1>8, <1>9, OtherStagesNext DEF QueryInv

LEMMA NoSearchTyped == SearchTyped(NoSearch)
BY DEF SearchTyped, NoSearch

LEMMA FallBackKeeps ==
  ASSUME QueryInv, FallBack
  PROVE  QueryInv'
<1>. DEFINE to == [NoWalk EXCEPT !.direction = "both", !.start = {walk.source},
                                 !.source = walk.source, !.target = walk.target]
<1>1. /\ at = "search" /\ at' = "scope" /\ walk' = to /\ search' = NoSearch
      /\ UNCHANGED <<snapshot, request, answer>>
  BY DEF FallBack
<1>2. request.kind = "path" /\ walk.source \in Node /\ walk.target \in Node /\ answer = NoAnswer
  BY <1>1 DEF QueryInv, StagesFollow
<1>3. to.depth = 0 /\ to.start = {walk.source} /\ to.source = walk.source /\ to.target = walk.target
      /\ to.nodes = {} /\ to.edges = {} /\ to.frontier = {} /\ to.next = {} /\ to.pending = {}
      /\ to.reasons = {} /\ to.boundary = None
  BY DEF NoWalk
<1>4. to \in WalkType
  BY <1>2, NoWalkTyped DEF WalkType, Direction
<1>. HIDE DEF to
<1>5. TypeOK'
  <2>1. TypeOK /\ to.depth <= request.depth
    BY <1>3, TypesAre DEF QueryInv
  <2>2. walk' \in [direction : Direction, start : SUBSET Node, source : Node \cup {None},
               target : Node \cup {None}, scope : SUBSET Node,
               nodes : SUBSET Node, edges : SUBSET Edge,
               frontier : SUBSET Node, next : SUBSET Node, from : Node \cup {None},
               pending : SUBSET Edge, depth : 0 .. request.depth, reasons : SUBSET Reason,
               boundary : Node \cup {None}]
    BY <1>1, <1>4, <2>1, WalkTyped
  <2>3. \E reached \in SUBSET Node :
          search' \in [queue : Seq(Node), before : [reached -> Predecessor],
                      from : Node \cup {None}, pending : SUBSET Edge]
    BY <1>1, NoSearchTyped, SearchIsTyped
  <2>. QED  BY <1>1, <2>1, <2>2, <2>3 DEF TypeOK, snapshot
<1>6. StagesFollow'
  BY <1>1, <1>2, <1>3 DEF QueryInv, StagesFollow, snapshot, Undisturbed
<1>7. WalkStaysInBounds'
  BY <1>1, <1>3 DEF WalkStaysInBounds, Walked
<1>8. UndisturbedWalkIsByLevels'
  <2>1. Roots' = walk'.start \cap visible'.nodes
    BY <1>1, <1>2, <1>3 DEF Roots
  <2>. QED  BY <1>1, <2>1 DEF UndisturbedWalkIsByLevels, Walked
<1>. QED  BY <1>1, <1>5, <1>6, <1>7, <1>8, OtherStagesNext DEF QueryInv

(* A search that has run out of nodes has reached all the facts lead to. *)
LEMMA NoPathKeeps ==
  ASSUME QueryInv, NoPath
  PROVE  QueryInv'
<1>1. /\ at = "search" /\ at' = "done" /\ search.pending = {} /\ search.queue = <<>>
      /\ UNCHANGED <<snapshot, request, walk, search, answer>>
  BY DEF NoPath
<1>2. /\ request.kind = "path" /\ answer = NoAnswer /\ walk.source \in Node /\ request.depth \in Nat
      /\ Frontier /\ TypeOK
  BY <1>1, SearchParts, TypesAre DEF QueryInv, StagesFollow, SearchInParts
<1>3. TypeOK'
  BY <1>1, TypesAre, WalkMoves DEF QueryInv
<1>4. StagesFollow'
  BY <1>1 DEF QueryInv, StagesFollow, snapshot, Undisturbed
<1>5. ASSUME Undisturbed, walk.target \in Reachable(request.depth),
             Cardinality(Reachable(request.depth)) <= request.nodes
      PROVE  FALSE
  <2>1. Roots \subseteq walk.nodes /\ Reachable(request.depth) \subseteq walk.nodes
    BY <1>1, <1>5 DEF QueryInv, UndisturbedWalkIsByLevels, Walked, Unlimited
  <2>2. walk.nodes \cap Reachable(request.depth) \subseteq FactsWithin(request.depth)
    BY <1>1, <1>2, <1>5 DEF QueryInv, UndisturbedWalkIsByLevels, Walked
  <2>3. walk.source \in walk.nodes
    <3>1. ASSUME Roots = {} PROVE FALSE
      <4>1. Within(SnapshotLinks, Roots, request.depth) = {}
        BY <3>1, WithinNone
      <4>. QED  BY <1>5, <4>1 DEF Reachable
    <3>2. Roots \subseteq {walk.source}
      BY <1>2 DEF Roots
    <3>. QED  BY <2>1, <3>1, <3>2
  <2>4. {walk.source, walk.target} \subseteq walk.nodes /\ walk.target \in FactsWithin(request.depth)
    BY <1>5, <2>1, <2>2, <2>3
  <2>5. ToSet(search.queue) = {}
    BY <1>1 DEF ToSet
  <2>6. walk.target \notin Reached
    BY <1>2, <2>4, <2>5 DEF Frontier
  <2>7. request.depth \in 0 .. request.depth
    BY <1>2
  <2>. QED  BY <1>1, <2>4, <2>5, <2>6, <2>7, BeyondFrontier
<1>6. PathIsShortest'
  <2>1. /\ Reachable(request.depth)' = Reachable(request.depth) /\ (Undisturbed' <=> Undisturbed)
        /\ answer'.nodes = <<>>
    BY <1>1, <1>2, StageMoves DEF NoAnswer
  <2>. QED  BY <1>1, <1>5, <2>1 DEF PathIsShortest
<1>7. ExplanationIsExact'
  BY <1>1, <1>2 DEF ExplanationIsExact
<1>. QED  BY <1>1, <1>3, <1>4, <1>6, <1>7, OtherStagesNext DEF QueryInv

-----------------------------------------------------------------------------
(* Explanations.                                                           *)

LEMMA ExplainSnapshotKeeps ==
  ASSUME QueryInv, ExplainSnapshot
  PROVE  QueryInv'
<1>1. at = "lookup" /\ request.kind = "explain" /\ UNCHANGED <<snapshot, request, search, answer>>
  BY DEF ExplainSnapshot
<1>2. ASSUME NEW n \in Node, walk' = [NoWalk EXCEPT !.source = n], at' = "explain"
      PROVE  QueryInv'
  <2>. DEFINE to == [NoWalk EXCEPT !.source = n]
  <2>1. to \in WalkType /\ to.depth = 0 /\ to.source = n
    BY NoWalkTyped DEF WalkType, NoWalk
  <2>2. walk' = to
    BY <1>2
  <2>. HIDE DEF to
  <2>3. TypeOK'
    <3>1. TypeOK /\ UNCHANGED <<snapshot, request, search, answer>> /\ at' = "explain"
      BY <1>1, <1>2 DEF QueryInv
    <3>2. walk' \in WalkType /\ walk'.depth <= request.depth
      BY <3>1, <2>1, <2>2, TypesAre
    <3>. QED  BY <3>1, <3>2, WalkMoves
  <2>4. StagesFollow'
    BY <1>1, <1>2, <2>1, <2>2 DEF QueryInv, StagesFollow, snapshot, Undisturbed
  <2>. QED  BY <1>2, <2>3, <2>4, OtherStagesNext DEF QueryInv
<1>3. CASE walk' = NoWalk /\ at' = "done"
  <2>1. TypeOK'
    BY <1>1, <1>3, WalkMoves, TypesAre, NoWalkTyped DEF QueryInv, NoWalk
  <2>2. StagesFollow' /\ answer' = NoAnswer /\ walk'.source = None
    BY <1>1, <1>3 DEF QueryInv, StagesFollow, snapshot, Undisturbed, NoWalk
  <2>3. PathIsShortest' /\ ExplanationIsExact'
    BY <1>1, <1>3, <2>2 DEF PathIsShortest, ExplanationIsExact, NoAnswer
  <2>. QED  BY <1>3, <2>1, <2>2, <2>3, OtherStagesNext DEF QueryInv
<1>. QED  BY <1>2, <1>3 DEF ExplainSnapshot

LEMMA ExplainingWalk ==
  ASSUME QueryInv, at \in {"explain", "incident", "endpoints"}
  PROVE  /\ TypeOK /\ walk \in WalkType /\ walk.source \in Node /\ request.kind = "explain"
         /\ walk.nodes \in SUBSET Node /\ walk.edges \in SUBSET Edge /\ walk.pending \in SUBSET Edge
         /\ visible.nodes \subseteq seen.nodes /\ visible.edges \subseteq seen.edges
         /\ visible.nodes \subseteq Node /\ visible.edges \subseteq Edge
         /\ walk.depth <= request.depth /\ (Undisturbed => seen = visible)
BY TypesAre, SnapshotTyped DEF QueryInv, StagesFollow, WalkType

LEMMA ExplainNodeKeeps ==
  ASSUME QueryInv, ExplainNode
  PROVE  QueryInv'
<1>1. at = "explain" /\ UNCHANGED <<snapshot, request, search, answer>>
  BY DEF ExplainNode
<1>2. CASE walk' = [walk EXCEPT !.nodes = {walk.source}] /\ at' = "incident"
  <2>1. /\ walk' \in WalkType /\ walk'.depth = walk.depth /\ walk'.source = walk.source
        /\ walk'.nodes = {walk.source}
    BY <1>1, <1>2, ExplainingWalk DEF WalkType
  <2>2. TypeOK'
    BY <1>1, <1>2, <2>1, ExplainingWalk, WalkMoves
  <2>3. StagesFollow'
    BY <1>1, <1>2, <2>1 DEF QueryInv, StagesFollow, snapshot, Undisturbed
  <2>4. ExplanationIsComplete'
    BY <1>2, <2>1 DEF ExplanationIsComplete
  <2>. QED  BY <1>2, <2>2, <2>3, <2>4, OtherStagesNext DEF QueryInv
<1>3. CASE walk' = walk /\ at' = "error"
  <2>1. TypeOK'
    BY <1>1, <1>3, ExplainingWalk, WalkMoves
  <2>2. StagesFollow'
    BY <1>1, <1>3 DEF QueryInv, StagesFollow, snapshot, Undisturbed
  <2>. QED  BY <1>3, <2>1, <2>2, OtherStagesNext DEF QueryInv
<1>. QED  BY <1>2, <1>3 DEF ExplainNode

LEMMA ExplainEdgesKeeps ==
  ASSUME QueryInv, ExplainEdges
  PROVE  QueryInv'
<1>. DEFINE edges == ReadIncidentEdges(walk.source)
<1>1. /\ at = "incident" /\ at' = "endpoints" /\ UNCHANGED <<snapshot, request, search, answer>>
      /\ walk' = [walk EXCEPT !.edges = edges, !.pending = edges]
  BY DEF ExplainEdges
<1>2. edges \in SUBSET Edge /\ edges = Incident(visible)
  BY <1>1, ExplainingWalk DEF ReadIncidentEdges, Incident
<1>. HIDE DEF edges
<1>3. /\ walk' \in WalkType /\ walk'.depth = walk.depth /\ walk'.source = walk.source
      /\ walk'.nodes = walk.nodes /\ walk'.edges = edges /\ walk'.pending = edges
  BY <1>1, <1>2, ExplainingWalk DEF WalkType
<1>4. TypeOK'
  BY <1>1, <1>3, ExplainingWalk, WalkMoves
<1>5. StagesFollow'
  BY <1>1, <1>3 DEF QueryInv, StagesFollow, snapshot, Undisturbed
<1>6. walk.nodes = {walk.source}
  BY <1>1 DEF QueryInv, ExplanationIsComplete
<1>7. Incident(visible) \subseteq Incident(seen)
  BY <1>1, ExplainingWalk DEF Incident
<1>8. Incident(visible)' = Incident(visible) /\ Incident(seen)' = Incident(seen)
  BY <1>1, <1>3 DEF Incident, snapshot
<1>9. ExplanationIsComplete'
  BY <1>1, <1>2, <1>3, <1>6, <1>7, <1>8 DEF ExplanationIsComplete, Ends
<1>. QED  BY <1>1, <1>4, <1>5, <1>9, OtherStagesNext DEF QueryInv

LEMMA ExplainEndpointsKeeps ==
  ASSUME QueryInv, ExplainEndpoints
  PROVE  QueryInv'
<1>. DEFINE e == First(walk.pending)
            ends == {e.source, e.target} \cap visible.nodes
<1>1. /\ at = "endpoints" /\ at' = "endpoints" /\ walk.pending # {}
      /\ UNCHANGED <<snapshot, request, search, answer>>
      /\ walk' = [walk EXCEPT !.pending = @ \ {e}, !.nodes = @ \cup ends]
  BY DEF ExplainEndpoints
<1>2. e \in walk.pending /\ ends \in SUBSET Node
  BY <1>1, ExplainingWalk, FirstIsIn
<1>. HIDE DEF e
<1>3. /\ walk' \in WalkType /\ walk'.depth = walk.depth /\ walk'.source = walk.source
      /\ walk'.nodes = walk.nodes \cup ends /\ walk'.edges = walk.edges /\ walk'.pending = walk.pending \ {e}
  <2>. HIDE DEF ends
  <2>. QED  BY <1>1, <1>2, ExplainingWalk DEF WalkType
<1>4. TypeOK'
  BY <1>1, <1>3, ExplainingWalk, WalkMoves
<1>5. StagesFollow'
  BY <1>1, <1>3 DEF QueryInv, StagesFollow, snapshot, Undisturbed
<1>6. /\ Incident(visible)' = Incident(visible) /\ Incident(seen)' = Incident(seen)
      /\ Ends(seen)' = Ends(seen) /\ (Undisturbed' <=> Undisturbed)
  BY <1>1, <1>3 DEF Incident, Ends, snapshot, Undisturbed
<1>7. ExplanationIsComplete
  BY DEF QueryInv
<1>8. ends \subseteq Ends(seen)
  <2>1. e \in Incident(seen)
    BY <1>1, <1>2, <1>7 DEF ExplanationIsComplete
  <2>. QED  BY <1>1, <2>1, ExplainingWalk DEF Ends
<1>9. ExplanationIsComplete'
  <2>1. /\ walk'.pending \subseteq walk'.edges /\ walk'.edges \subseteq Incident(seen)'
        /\ walk'.source \in walk'.nodes /\ walk'.nodes \subseteq Ends(seen)'
    BY <1>1, <1>3, <1>6, <1>7, <1>8 DEF ExplanationIsComplete
  <2>2. ASSUME Undisturbed', NEW f \in walk'.edges \ walk'.pending
        PROVE  {f.source, f.target} \cap visible'.nodes \subseteq walk'.nodes
    <3>1. CASE f = e
      BY <1>1, <1>3, <3>1 DEF snapshot
    <3>2. CASE f # e
      BY <1>1, <1>3, <1>6, <1>7, <2>2, <3>2 DEF ExplanationIsComplete, snapshot
    <3>. QED  BY <3>1, <3>2
  <2>3. Undisturbed' => walk'.edges = Incident(visible)'
    BY <1>1, <1>3, <1>6, <1>7 DEF ExplanationIsComplete
  <2>. QED  BY <1>1, <2>1, <2>2, <2>3 DEF ExplanationIsComplete
<1>. QED  BY <1>1, <1>4, <1>5, <1>9, OtherStagesNext DEF QueryInv

LEMMA ExplainedKeeps ==
  ASSUME QueryInv, Explained
  PROVE  QueryInv'
<1>1. /\ at = "endpoints" /\ at' = "done" /\ walk.pending = {}
      /\ UNCHANGED <<snapshot, request, walk, search, answer>>
  BY DEF Explained
<1>2. TypeOK'
  BY <1>1, ExplainingWalk, WalkMoves
<1>3. StagesFollow' /\ answer' = NoAnswer
  BY <1>1 DEF QueryInv, StagesFollow, snapshot, Undisturbed
<1>4. PathIsShortest'
  BY <1>1, <1>3, ExplainingWalk DEF PathIsShortest, NoAnswer
<1>5. /\ walk.edges \subseteq Incident(seen)
      /\ walk.source \in walk.nodes /\ walk.nodes \subseteq Ends(seen)
  BY <1>1 DEF QueryInv, ExplanationIsComplete
<1>6. ASSUME Undisturbed PROVE walk.edges = Incident(visible) /\ walk.nodes = Ends(visible)
  <2>1. /\ walk.edges = Incident(visible)
        /\ \A e \in walk.edges : {e.source, e.target} \cap visible.nodes \subseteq walk.nodes
    BY <1>1, <1>6 DEF QueryInv, ExplanationIsComplete
  <2>2. seen = visible
    BY <1>1, <1>6, ExplainingWalk
  <2>3. Ends(visible) \subseteq walk.nodes
    BY <1>5, <2>1 DEF Ends
  <2>. QED  BY <1>5, <2>1, <2>2, <2>3
<1>7. ExplanationIsExact'
  BY <1>1, <1>5, <1>6 DEF ExplanationIsExact, Incident, Ends, Undisturbed, snapshot
<1>. QED  BY <1>1, <1>2, <1>3, <1>4, <1>7, OtherStagesNext DEF QueryInv

-----------------------------------------------------------------------------
(* Changes to the snapshot, and steps that change nothing.                 *)

LEMMA SnapshotChangesKeeps ==
  ASSUME QueryInv, SnapshotChanges
  PROVE  QueryInv'
<1>1. /\ at \notin {"done", "error"} /\ changes < MaxChanges /\ changes' = changes + 1
      /\ UNCHANGED <<request, at, walk, search, answer>>
  BY DEF SnapshotChanges
<1>2. TypeOK /\ changes \in Nat /\ changes' \in 0 .. MaxChanges /\ changes' # 0
  BY <1>1, QueryAssumption DEF QueryInv, TypeOK
<1>3. visible' \in Graphs
  <2>1. visible \in Graphs /\ Unstable \in Graphs
    BY <1>2, QueryAssumption DEF TypeOK
  <2>2. ASSUME NEW n \in Unstable.nodes, visible' = [visible EXCEPT !.nodes = SymDiff(@, {n})]
        PROVE  visible' \in Graphs
    <3>1. SymDiff(visible.nodes, {n}) \in SUBSET Node
      BY <2>1 DEF SymDiff, Graphs
    <3>. QED  BY <2>1, <2>2, <3>1 DEF Graphs
  <2>3. ASSUME NEW e \in Unstable.edges, visible' = [visible EXCEPT !.edges = SymDiff(@, {e})]
        PROVE  visible' \in Graphs
    <3>1. SymDiff(visible.edges, {e}) \in SUBSET Edge
      BY <2>1 DEF SymDiff, Graphs
    <3>. QED  BY <2>1, <2>3, <3>1 DEF Graphs
  <2>. QED  BY <2>2, <2>3 DEF SnapshotChanges
<1>4. /\ seen' \in Graphs
      /\ seen'.nodes = seen.nodes \cup visible'.nodes /\ seen'.edges = seen.edges \cup visible'.edges
  <2>1. seen' = [nodes |-> seen.nodes \cup visible'.nodes, edges |-> seen.edges \cup visible'.edges]
    BY DEF SnapshotChanges
  <2>2. seen \in Graphs
    BY <1>2 DEF TypeOK
  <2>. QED  BY <1>3, <2>1, <2>2 DEF Graphs
<1>5. TypeOK'
  BY <1>1, <1>2, <1>3, <1>4 DEF TypeOK
<1>6. ~Undisturbed'
  BY <1>2 DEF Undisturbed
<1>7. StagesFollow'
  BY <1>1, <1>4, <1>6 DEF QueryInv, StagesFollow
<1>8. /\ \A k : FactsWithin(k)' = FactsWithin(k)
      /\ \A n, e : Neighbors(n, e)' = Neighbors(n, e)
      /\ \A e : Included(e)' <=> Included(e)
      /\ \A n : OutOfScope(n)' <=> OutOfScope(n)
      /\ Reached' = Reached
  BY <1>1, FactsSame, ReadingSame DEF Reached
<1>9. WalkStaysInBounds'
  BY <1>1, <1>4, <1>8 DEF QueryInv, WalkStaysInBounds, Walked
<1>10. UndisturbedWalkIsByLevels'
  BY <1>6 DEF UndisturbedWalkIsByLevels
<1>11. SearchIsBreadthFirst' /\ QueueIsByDistance' /\ TrailIsShortest'
  BY <1>1, <1>8 DEF QueryInv, SearchIsBreadthFirst, QueueIsByDistance, TrailIsShortest
<1>12. ExplanationIsComplete'
  <2>1. Incident(seen) \subseteq Incident(seen)'
    BY <1>1, <1>4 DEF Incident
  <2>2. Ends(seen) \subseteq Ends(seen)'
    BY <1>1, <1>4, <2>1 DEF Ends
  <2>. QED  BY <1>1, <1>6, <2>1, <2>2 DEF QueryInv, ExplanationIsComplete
<1>. QED  BY <1>1, <1>5, <1>7, <1>9, <1>10, <1>11, <1>12, OtherStagesNext DEF QueryInv

LEMMA StutterKeeps ==
  ASSUME QueryInv, UNCHANGED vars
  PROVE  QueryInv'
<1>1. UNCHANGED <<visible, changes, seen, request, at, walk, search, answer>>
  BY DEF vars
<1>2. TypeOK'
  BY <1>1 DEF QueryInv, TypeOK
<1>3. StagesFollow'
  BY <1>1 DEF QueryInv, StagesFollow, Undisturbed
<1>4. /\ Scope(visible)' = Scope(visible) /\ Roots' = Roots
      /\ \A d : Reachable(d)' = Reachable(d) /\ FactsWithin(d)' = FactsWithin(d)
      /\ \A n, e : Neighbors(n, e)' = Neighbors(n, e)
      /\ \A e : Included(e)' <=> Included(e)
      /\ \A n : OutOfScope(n)' <=> OutOfScope(n)
      /\ Undisturbed' <=> Undisturbed
      /\ Unlimited' <=> Unlimited
      /\ Closed' <=> Closed
      /\ Reached' = Reached
      /\ \A g, n, m : Linked(g, n, m)' <=> Linked(g, n, m)
  BY <1>1, StageMoves, LinkedSame DEF snapshot, Reached
<1>5. WalkStaysInBounds'
  BY <1>1, <1>4 DEF QueryInv, WalkStaysInBounds, Walked
<1>6. UndisturbedWalkIsByLevels'
  BY <1>1, <1>4 DEF QueryInv, UndisturbedWalkIsByLevels, Walked
<1>7. SearchIsBreadthFirst'
  BY <1>1, <1>4 DEF QueryInv, SearchIsBreadthFirst
<1>8. QueueIsByDistance' /\ TrailIsShortest'
  BY <1>1, <1>4 DEF QueryInv, QueueIsByDistance, TrailIsShortest
<1>9. ExplanationIsComplete' /\ ExplanationIsExact'
  BY <1>1, <1>4 DEF QueryInv, ExplanationIsComplete, ExplanationIsExact, Incident, Ends
<1>10. PathIsShortest'
  BY <1>1, <1>4 DEF QueryInv, PathIsShortest
<1>. QED  BY <1>2, <1>3, <1>5, <1>6, <1>7, <1>8, <1>9, <1>10 DEF QueryInv
-----------------------------------------------------------------------------
(* The results.                                                            *)

(* The inductive invariant holds of every request, for every graph, order  *)
(* of edges, request and bound: walks go level by level, searches are      *)
(* breadth first, explanations are read edge by edge, whatever a prune or  *)
(* a rollback does to the snapshot meanwhile (Traverse, shortestPath,      *)
(* Explain).                                                               *)
THEOREM QueryInvariant == Spec => []QueryInv
<1>1. Init => QueryInv
  BY InitKeeps
<1>2. QueryInv /\ [Next]_vars => QueryInv'
  <2>. SUFFICES ASSUME QueryInv, [Next]_vars
                PROVE  QueryInv'
    OBVIOUS
  <2>1. ASSUME Step PROVE QueryInv'
    BY <2>1, RankSnapshotKeeps, ResolveEndpointsKeeps, ReadScopeKeeps, SelectStartKeeps, StartsSelectedKeeps,
       ExpandNodeKeeps, VisitEdgeKeeps, NextLevelKeeps, CheckDepthLimitKeeps, DepthReachedKeeps,
       ReturnQueryKeeps, ReturnFactsKeeps, SearchNodeKeeps, SearchEdgeKeeps, PathFoundKeeps,
       TraceBackKeeps, PathTracedKeeps, FallBackKeeps, NoPathKeeps, ExplainSnapshotKeeps,
       ExplainNodeKeeps, ExplainEdgesKeeps, ExplainEndpointsKeeps, ExplainedKeeps DEF Step
  <2>. QED  BY <2>1, SnapshotChangesKeeps, StutterKeeps DEF Next
<1>. QED  BY <1>1, <1>2, PTL DEF Spec

LEMMA ReturnedWalkIsExact ==
  ASSUME QueryInv
  PROVE  WalkIsExact
<1>. SUFFICES ASSUME at = "return"
              PROVE  /\ Cardinality(walk.nodes) <= request.nodes
                     /\ walk.edges \subseteq {e \in seen.edges : Included(e)}
                     /\ \A e \in walk.edges : {e.source, e.target} \subseteq walk.nodes
                     /\ Undisturbed => walk.nodes \subseteq Reachable(request.depth)
                     /\ walk.boundary = None => \A n \in walk.nodes : ~OutOfScope(n)
                     /\ Undisturbed /\ walk.reasons = {} => walk.nodes = AllReachable
  BY DEF WalkIsExact
<1>1. /\ Cardinality(walk.nodes) <= request.nodes
      /\ walk.edges \subseteq {e \in seen.edges : Included(e)}
      /\ \A e \in walk.edges : {e.source, e.target} \subseteq walk.nodes
      /\ walk.boundary = None => \A n \in walk.nodes : ~OutOfScope(n)
  BY DEF QueryInv, WalkStaysInBounds, Walked
<1>2. Undisturbed => walk.nodes \subseteq Reachable(request.depth)
  BY DEF QueryInv, UndisturbedWalkIsByLevels, Walked
<1>3. ASSUME Undisturbed, walk.reasons = {} PROVE walk.nodes = AllReachable
  <2>1. /\ walk.frontier = {} /\ walk.next = {} /\ walk.pending = {}
        /\ Roots \subseteq walk.nodes /\ Closed
    BY <1>3 DEF QueryInv, WalkStaysInBounds, UndisturbedWalkIsByLevels, Walked, Unlimited
  <2>2. walk.nodes \in SUBSET Node /\ request.depth \in Int /\ SnapshotLinks \subseteq Node \X Node
    BY TypesAre, SnapshotTyped DEF QueryInv, WalkType
  <2>3. ASSUME NEW a \in walk.nodes, NEW b \in Node, <<a, b>> \in SnapshotLinks
        PROVE  b \in walk.nodes
    <3>1. a \in Scope(visible) /\ b \in visible.nodes /\ Linked(visible, a, b)
      BY <2>2, <2>3, LinksAre DEF SnapshotLinks
    <3>2. PICK e \in visible.edges : Included(e) /\ b \in Neighbors(a, e)
      BY <3>1, LinkedIsNeighbor
    <3>. QED  BY <2>1, <3>1, <3>2 DEF Closed
  <2>4. AllReachable \subseteq walk.nodes
    BY <2>1, <2>2, <2>3, ConnectedClosed DEF AllReachable
  <2>5. Reachable(request.depth) \subseteq AllReachable
    BY <2>2, WithinConnected DEF AllReachable, Reachable
  <2>. QED  BY <1>2, <1>3, <2>4, <2>5
<1>. QED  BY <1>1, <1>2, <1>3

(* What a walk returns is within the limits of the request, was visible    *)
(* while it ran and leaves out nothing it does not report: for every graph *)
(* and request (Traverse, truncationReasons).                              *)
THEOREM WalksAreExact == Spec => []WalkIsExact
BY ReturnedWalkIsExact, QueryInvariant, PTL

(* A path that is answered is a chain of edges and a shortest one, and one *)
(* within the limits is found (FindPathSnapshot, shortestPath).            *)
THEOREM PathsAreShortest == Spec => []PathIsShortest
<1>1. QueryInv => PathIsShortest
  BY DEF QueryInv
<1>. QED  BY <1>1, QueryInvariant, PTL

(* An explanation shows what there is about a node, and all of it if the   *)
(* snapshot was left alone (Explain).                                      *)
THEOREM ExplanationsAreExact == Spec => []ExplanationIsExact
<1>1. QueryInv => ExplanationIsExact
  BY DEF QueryInv
<1>. QED  BY <1>1, QueryInvariant, PTL
=============================================================================
