------------------------------ MODULE GraphQuery ------------------------------
(***************************************************************************)
(* Queries, paths and explanations over one snapshot: query/query.go,      *)
(* query/path.go, query/rank.go and the Traverse and Explain of            *)
(* storage/sqlite/sqlite.go they call.                                     *)
(*                                                                         *)
(* A query looks up start nodes by term and walks outgoing edges from      *)
(* them; a path request looks up two endpoints, walks from the first and   *)
(* searches the facts it got for a shortest path, and may try once more    *)
(* with the edges taken in both directions; an explanation looks up one    *)
(* node and reads its edges and their ends.  All issue one statement per   *)
(* node and per edge, none of them in a transaction.  A prune deletes rows *)
(* of the snapshot between any two of them, and a rollback below it makes  *)
(* it show an older version (SnapshotChanges).                             *)
(*                                                                         *)
(* Nodes are numbers in the order of their IDs; Edges lists the possible   *)
(* edges in the order of (source, target, relation).                       *)
(***************************************************************************)
EXTENDS Integers, SequencesExt, FiniteSetsExt

CONSTANTS
  Node,        \* node IDs
  Edges,       \* the possible edges, in the order of their keys
  Snapshots,   \* the snapshots considered
  Requests,    \* the requests considered
  Unstable,    \* the nodes and edges that may come and go
  Exact,       \* per term, the nodes it names exactly, in rank order
  Broad,       \* per term, the nodes it matches at all, in rank order
  MaxSeeds,    \* maxSeedsPerTerm
  MaxChanges   \* bound on the rows that appear or vanish during a request

Term == DOMAIN Exact
Edge == ToSet(Edges)
None == 0

Graphs == [nodes : SUBSET Node, edges : SUBSET Edge]

(* A query names one term or two, a path request a source and a target, an *)
(* explanation one term.                                                   *)
(* AllowUndirectedFallback only matters to paths, and an empty set of      *)
(* projects or relations does not restrict the walk.                       *)
Request ==
  [kind : {"query", "path", "explain"}, source : Term, target : Term, fallback : BOOLEAN,
   projects : SUBSET Node, relations : SUBSET STRING, depth : Nat, nodes : Nat \ {0}]

ASSUME QueryAssumption ==
  /\ Node \subseteq Nat \ {None} /\ IsFiniteSet(Node)
  /\ Edges \in Seq([source : Node, target : Node, relation : STRING])
  /\ Snapshots \subseteq Graphs /\ Requests \subseteq Request
  /\ Unstable \in Graphs
  /\ DOMAIN Broad = Term
  /\ \A t \in Term : Exact[t] \in Seq(Node) /\ Broad[t] \in Seq(Node)
  /\ MaxSeeds \in Nat \ {0} /\ MaxChanges \in Nat

VARIABLES
  visible,     \* what a statement about the snapshot returns now
  changes,     \* the rows that appeared or vanished since the request began
  seen,        \* history: all that was visible since the request began
  request,     \* the request being answered
  at,          \* the next thing the request does
  walk,        \* the state of Traverse
  search,      \* the state of shortestPath
  answer       \* the path, the nodes along it and its edges

vars == <<visible, changes, seen, request, at, walk, search, answer>>

snapshot == <<visible, changes, seen>>

Direction == {"outgoing", "both"}
Reason == {"depth_limit", "node_limit"}

NoWalk ==
  [direction |-> "outgoing", start |-> {}, source |-> None,
   target |-> None, scope |-> {}, nodes |-> {}, edges |-> {},
   frontier |-> {}, next |-> {}, from |-> None, pending |-> {}, depth |-> 0, reasons |-> {}, boundary |-> None]

NoSearch == [queue |-> <<>>, before |-> [n \in {} |-> None], from |-> None, pending |-> {}]
NoAnswer == [nodes |-> <<>>, edges |-> <<>>]

Predecessor == [node : Node, edge : Edge]

(* Everything a request keeps between two statements.                      *)
TypeOK ==
  /\ visible \in Graphs /\ seen \in Graphs /\ changes \in 0 .. MaxChanges
  /\ request \in Request
  /\ at \in {"lookup", "scope", "starts", "expand", "return", "search", "trail",
             "explain", "incident", "endpoints", "done", "error"}
  /\ walk \in [direction : Direction, start : SUBSET Node, source : Node \cup {None},
               target : Node \cup {None}, scope : SUBSET Node,
               nodes : SUBSET Node, edges : SUBSET Edge,
               frontier : SUBSET Node, next : SUBSET Node, from : Node \cup {None},
               pending : SUBSET Edge, depth : 0 .. request.depth, reasons : SUBSET Reason,
               boundary : Node \cup {None}]
  /\ \E reached \in SUBSET Node :
       search \in [queue : Seq(Node), before : [reached -> Predecessor],
                  from : Node \cup {None}, pending : SUBSET Edge]
  /\ answer \in [nodes : Seq(Node), edges : Seq(Edge)]
-----------------------------------------------------------------------------
(* lookupTermMatches and pathEndpointMatches: exact matches if there are   *)
(* any, otherwise the best broad ones.  An endpoint's exact matches are    *)
(* not cut to a limit.                                                     *)
Visible(matches) == {i \in DOMAIN matches : matches[i] \in visible.nodes}

UpTo(matches, limit) ==
  {matches[i] : i \in {j \in Visible(matches) :
                        Cardinality({k \in Visible(matches) : k < j}) < limit}}

LookupExactNodes(t) == {Exact[t][i] : i \in Visible(Exact[t])}
LookupNodes(t, limit) == UpTo(Broad[t], limit)

LookupTermMatches(t, limit) ==
  IF LookupExactNodes(t) # {} THEN UpTo(Exact[t], limit) ELSE LookupNodes(t, limit)

PathEndpointMatches(t) ==
  IF LookupExactNodes(t) # {} THEN LookupExactNodes(t) ELSE LookupNodes(t, MaxSeeds + 1)

(* readScopedNodeIDs: the projects and what they contain in graph g,       *)
(* transitively.  A recursive query with UNION returns the least set that  *)
(* holds its seeds and all it derives.                                     *)
ReadScopedNodeIDs(g, projects) ==
  {n \in Node : \A scoped \in SUBSET Node :
     /\ projects \subseteq scoped
     /\ \A e \in g.edges : e.relation = "contains" /\ e.source \in scoped => e.target \in scoped
     => n \in scoped}

(* A node is out of scope when the request names projects and none of them *)
(* contains it.                                                            *)
OutOfScope(n) == walk.scope # {} /\ n \notin walk.scope

Included(e) == request.relations = {} \/ e.relation \in request.relations

(* traversalNeighbor: the other end of an edge that may be followed from n. *)
Neighbors(n, e) ==
  {m \in Node : \/ e.source = n /\ m = e.target
                \/ /\ walk.direction = "both"
                   /\ e.source # n
                   /\ e.target = n /\ m = e.source}

(* readIncidentEdges; loops over edges take them in the order of their keys. *)
ReadIncidentEdges(n) == {e \in visible.edges : n \in {e.source, e.target}}

First(edges) ==
  Edges[CHOOSE i \in DOMAIN Edges : Edges[i] \in edges /\ \A j \in 1 .. i - 1 : Edges[j] \notin edges]
-----------------------------------------------------------------------------
Init ==
  /\ visible \in Snapshots
  /\ changes = 0
  /\ seen = visible
  /\ request \in Requests
  /\ at = "lookup"
  /\ walk = NoWalk
  /\ search = NoSearch
  /\ answer = NoAnswer

(* QuerySnapshot: the seeds of every term, at most MaxSeeds each, are the  *)
(* start nodes; without any the answer is empty.                           *)
RankSnapshot ==
  /\ at = "lookup" /\ request.kind = "query"
  /\ LET seeds == UNION {LookupTermMatches(t, MaxSeeds) : t \in {request.source, request.target}}
     IN /\ walk' = [NoWalk EXCEPT !.start = seeds]
        /\ at' = IF seeds = {} THEN "done" ELSE "scope"
  /\ UNCHANGED <<snapshot, request, search, answer>>

(* FindPathSnapshot: an endpoint that is not exactly one node is answered  *)
(* with candidates.                                                        *)
ResolveEndpoints ==
  /\ at = "lookup" /\ request.kind = "path"
  /\ LET sources == PathEndpointMatches(request.source)
         targets == PathEndpointMatches(request.target)
     IN \/ \E s, t \in Node :
             /\ sources = {s} /\ targets = {t}
             /\ walk' = [NoWalk EXCEPT !.start = {s}, !.source = s, !.target = t]
             /\ at' = "scope"
        \/ /\ ~\E s, t \in Node : sources = {s} /\ targets = {t}
           /\ walk' = NoWalk
           /\ at' = "done"
  /\ UNCHANGED <<snapshot, request, search, answer>>

ReadScope ==
  /\ at = "scope"
  /\ walk' = [walk EXCEPT !.scope = IF request.projects = {} THEN {}
                                      ELSE ReadScopedNodeIDs(visible, request.projects)]
  /\ at' = "starts"
  /\ UNCHANGED <<snapshot, request, search, answer>>

(* The loop over the sorted start nodes of Traverse: a node that is gone   *)
(* is skipped, one outside the scope is an error, and the node limit ends  *)
(* the walk at once.                                                       *)
SelectStart ==
  /\ at = "starts" /\ walk.start # {}
  /\ LET n == Min(walk.start)
         rest == [walk EXCEPT !.start = @ \ {n}]
     IN CASE n \notin visible.nodes -> walk' = rest /\ at' = at
          [] n \in visible.nodes /\ OutOfScope(n) -> walk' = walk /\ at' = "error"
          [] n \in visible.nodes /\ ~OutOfScope(n) /\ Cardinality(walk.nodes) = request.nodes ->
               /\ walk' = [rest EXCEPT !.reasons = {"node_limit"}]
               /\ at' = "return"
          [] OTHER ->
               /\ walk' = [rest EXCEPT !.nodes = @ \cup {n}, !.frontier = @ \cup {n}]
               /\ at' = at
  /\ UNCHANGED <<snapshot, request, search, answer>>

StartsSelected ==
  /\ at = "starts" /\ walk.start = {}
  /\ at' = "expand"
  /\ UNCHANGED <<snapshot, request, walk, search, answer>>

ExpandNode ==
  /\ at = "expand" /\ walk.depth < request.depth
  /\ walk.pending = {} /\ walk.frontier # {}
  /\ LET n == Min(walk.frontier)
     IN walk' = [walk EXCEPT !.frontier = @ \ {n}, !.from = n, !.pending = ReadIncidentEdges(n)]
  /\ UNCHANGED <<snapshot, request, at, search, answer>>

(* A plausible bug: the limit is not reported.                             *)
Follow_Silent(w, e, m) ==
  IF m \in w.nodes \/ Cardinality(w.nodes) < request.nodes
  THEN [w EXCEPT !.nodes = @ \cup {m}, !.edges = @ \cup {e},
                 !.boundary = IF OutOfScope(m) THEN m ELSE @,
                 !.next = IF OutOfScope(m) \/ m \in w.nodes THEN @ ELSE @ \cup {m}]
  ELSE w

(* What following edge e to the node m makes of the walk.  A node outside  *)
(* the scope is included and not walked from.                              *)
Follow(w, e, m) ==
  LET full == Cardinality(w.nodes) = request.nodes
      limited == [w EXCEPT !.reasons = @ \cup {"node_limit"}]
      found == [w EXCEPT !.nodes = @ \cup {m}, !.edges = @ \cup {e}]
  IN IF OutOfScope(m)
     THEN [IF full THEN limited ELSE found
             EXCEPT !.boundary = IF @ = None THEN m ELSE @]
     ELSE IF m \in w.nodes THEN found
     ELSE IF full THEN limited
     ELSE [found EXCEPT !.next = @ \cup {m}]

VisitEdge ==
  /\ at = "expand" /\ walk.pending # {}
  /\ LET e == First(walk.pending)
         rest == [walk EXCEPT !.pending = @ \ {e}]
         followed == IF Included(e) THEN Neighbors(walk.from, e) \cap visible.nodes ELSE {}
     IN \/ \E m \in followed : walk' = Follow(rest, e, m)
        \/ followed = {} /\ walk' = rest
  /\ UNCHANGED <<snapshot, request, at, search, answer>>

(* A plausible bug: one level too many.                                    *)
NextLevel_PastDepth ==
  /\ at = "expand"
  /\ walk.pending = {} /\ walk.frontier = {}
  /\ walk' = [walk EXCEPT !.frontier = walk.next, !.next = {}, !.depth = @ + 1]
  /\ at' = IF walk.next = {} THEN "return" ELSE at
  /\ UNCHANGED <<snapshot, request, search, answer>>

NextLevel ==
  /\ at = "expand" /\ walk.depth < request.depth
  /\ walk.pending = {} /\ walk.frontier = {}
  /\ walk' = [walk EXCEPT !.frontier = walk.next, !.next = {}, !.depth = @ + 1]
  /\ at' = IF walk.next = {} THEN "return" ELSE at
  /\ UNCHANGED <<snapshot, request, search, answer>>

(* hasTraversableNeighbor, for one node of the last level.                 *)
HasTraversableNeighbor(n) ==
  \E e \in ReadIncidentEdges(n) :
    Included(e) /\ Neighbors(n, e) \ walk.nodes # {}

CheckDepthLimit ==
  /\ at = "expand" /\ walk.depth = request.depth
  /\ walk.frontier # {}
  /\ LET n == Min(walk.frontier)
     IN walk' = IF HasTraversableNeighbor(n)
                THEN [walk EXCEPT !.reasons = @ \cup {"depth_limit"}, !.frontier = {}]
                ELSE [walk EXCEPT !.frontier = @ \ {n}]
  /\ UNCHANGED <<snapshot, request, at, search, answer>>

DepthReached ==
  /\ at = "expand" /\ walk.depth = request.depth
  /\ walk.frontier = {}
  /\ at' = "return"
  /\ UNCHANGED <<snapshot, request, walk, search, answer>>
-----------------------------------------------------------------------------
(* The end of Traverse.  A path request goes on with shortestPath, which   *)
(* finds nothing unless both endpoints are among the facts.                *)
ReturnQuery ==
  /\ at = "return" /\ request.kind = "query"
  /\ at' = "done"
  /\ UNCHANGED <<snapshot, request, walk, search, answer>>

ReturnFacts ==
  /\ at = "return" /\ request.kind = "path"
  /\ at' = "search"
  /\ search' = [NoSearch EXCEPT !.queue = IF {walk.source, walk.target} \subseteq walk.nodes
                                          THEN <<walk.source>> ELSE <<>>]
  /\ UNCHANGED <<snapshot, request, walk, answer>>

(* The edges of n among the facts, in key order, and where each leads.     *)
EdgesBySource(n) == {e \in walk.edges : Neighbors(n, e) # {}}

(* A node that was not reached before joins the queue.                     *)
Reach(s, e, m) ==
  [queue |-> Append(s.queue, m),
   before |-> [n \in DOMAIN s.before \cup {m} |->
                 IF n = m THEN [node |-> s.from, edge |-> e] ELSE s.before[n]],
   from |-> s.from, pending |-> s.pending]

(* The breadth-first search, node by node and edge by edge.                *)
SearchNode ==
  /\ at = "search" /\ search.pending = {}
  /\ search.queue # <<>> /\ Head(search.queue) # walk.target
  /\ LET n == Head(search.queue)
     IN search' = [search EXCEPT !.queue = Tail(@), !.from = n, !.pending = EdgesBySource(n)]
  /\ UNCHANGED <<snapshot, request, at, walk, answer>>

(* A plausible bug: a node that was reached before is reached again.       *)
SearchEdge_Again ==
  /\ at = "search" /\ search.pending # {}
  /\ LET e == First(search.pending)
         rest == [search EXCEPT !.pending = @ \ {e}]
         new == Neighbors(search.from, e) \cap (walk.nodes \ {walk.source})
     IN \/ \E m \in new : search' = Reach(rest, e, m)
        \/ new = {} /\ search' = rest
  /\ UNCHANGED <<snapshot, request, at, walk, answer>>

SearchEdge ==
  /\ at = "search" /\ search.pending # {}
  /\ LET e == First(search.pending)
         rest == [search EXCEPT !.pending = @ \ {e}]
         new == {m \in Neighbors(search.from, e) \cap walk.nodes :
                   m \notin DOMAIN search.before \cup {walk.source}}
     IN \/ \E m \in new : search' = Reach(rest, e, m)
        \/ new = {} /\ search' = rest
  /\ UNCHANGED <<snapshot, request, at, walk, answer>>

(* The way back from the target along the predecessors, reversed.          *)
PathFound ==
  /\ at = "search" /\ search.pending = {}
  /\ search.queue # <<>> /\ Head(search.queue) = walk.target
  /\ answer' = [nodes |-> <<walk.target>>, edges |-> <<>>]
  /\ at' = "trail"
  /\ UNCHANGED <<snapshot, request, walk, search>>

TraceBack ==
  /\ at = "trail" /\ Head(answer.nodes) # walk.source
  /\ LET previous == search.before[Head(answer.nodes)]
     IN answer' = [nodes |-> <<previous.node>> \o answer.nodes,
                   edges |-> <<previous.edge>> \o answer.edges]
  /\ UNCHANGED <<snapshot, request, at, walk, search>>

PathTraced ==
  /\ at = "trail" /\ Head(answer.nodes) = walk.source
  /\ at' = "done"
  /\ UNCHANGED <<snapshot, request, walk, search, answer>>

(* A plausible bug: the second walk may be followed by another.            *)
FallBack_Again ==
  /\ at = "search" /\ search.pending = {} /\ search.queue = <<>>
  /\ request.fallback
  /\ walk' = [NoWalk EXCEPT !.direction = "both", !.start = {walk.source},
                            !.source = walk.source, !.target = walk.target]
  /\ at' = "scope"
  /\ search' = NoSearch
  /\ UNCHANGED <<snapshot, request, answer>>

(* No path: once more with both directions if the request allows it.       *)
FallBack ==
  /\ at = "search" /\ search.pending = {} /\ search.queue = <<>>
  /\ request.fallback /\ walk.direction = "outgoing"
  /\ walk' = [NoWalk EXCEPT !.direction = "both", !.start = {walk.source},
                            !.source = walk.source, !.target = walk.target]
  /\ at' = "scope"
  /\ search' = NoSearch
  /\ UNCHANGED <<snapshot, request, answer>>

NoPath ==
  /\ at = "search" /\ search.pending = {} /\ search.queue = <<>>
  /\ ~(request.fallback /\ walk.direction = "outgoing")
  /\ at' = "done"
  /\ UNCHANGED <<snapshot, request, walk, search, answer>>

-----------------------------------------------------------------------------
(* ExplainSnapshot: a term that is not exactly one node is answered with   *)
(* candidates.                                                             *)
ExplainSnapshot ==
  /\ at = "lookup" /\ request.kind = "explain"
  /\ LET candidates == LookupTermMatches(request.source, MaxSeeds + 1)
     IN \/ /\ \E n \in Node : candidates = {n} /\ walk' = [NoWalk EXCEPT !.source = n]
           /\ at' = "explain"
        \/ /\ ~\E n \in Node : candidates = {n}
           /\ walk' = NoWalk
           /\ at' = "done"
  /\ UNCHANGED <<snapshot, request, search, answer>>

(* Explain: the node itself, which may be gone by now, its edges, and the  *)
(* ends of each edge that are there when it is their turn.                 *)
ExplainNode ==
  /\ at = "explain"
  /\ IF walk.source \in visible.nodes
     THEN walk' = [walk EXCEPT !.nodes = {walk.source}] /\ at' = "incident"
     ELSE walk' = walk /\ at' = "error"
  /\ UNCHANGED <<snapshot, request, search, answer>>

ExplainEdges ==
  /\ at = "incident"
  /\ LET edges == ReadIncidentEdges(walk.source)
     IN walk' = [walk EXCEPT !.edges = edges, !.pending = edges]
  /\ at' = "endpoints"
  /\ UNCHANGED <<snapshot, request, search, answer>>

(* A plausible bug: only the end an edge leads to is read.                 *)
ExplainEndpoints_TargetOnly ==
  /\ at = "endpoints" /\ walk.pending # {}
  /\ walk' = [walk EXCEPT !.pending = @ \ {First(walk.pending)},
                          !.nodes = @ \cup ({First(walk.pending).target} \cap visible.nodes)]
  /\ UNCHANGED <<snapshot, request, at, search, answer>>

ExplainEndpoints ==
  /\ at = "endpoints" /\ walk.pending # {}
  /\ LET e == First(walk.pending)
     IN walk' = [walk EXCEPT !.pending = @ \ {e},
                            !.nodes = @ \cup ({e.source, e.target} \cap visible.nodes)]
  /\ UNCHANGED <<snapshot, request, at, search, answer>>

Explained ==
  /\ at = "endpoints" /\ walk.pending = {}
  /\ at' = "done"
  /\ UNCHANGED <<snapshot, request, walk, search, answer>>
-----------------------------------------------------------------------------
(* Another connection prunes the snapshot's version or rolls the workspace *)
(* back below it: rows vanish, and in the second case others appear.       *)
SnapshotChanges ==
  /\ at \notin {"done", "error"} /\ changes < MaxChanges
  /\ \/ \E n \in Unstable.nodes : visible' = [visible EXCEPT !.nodes = SymDiff(@, {n})]
     \/ \E e \in Unstable.edges : visible' = [visible EXCEPT !.edges = SymDiff(@, {e})]
  /\ changes' = changes + 1
  /\ seen' = [nodes |-> seen.nodes \cup visible'.nodes, edges |-> seen.edges \cup visible'.edges]
  /\ UNCHANGED <<request, at, walk, search, answer>>

Step ==
  \/ RankSnapshot \/ ResolveEndpoints \/ ReadScope \/ SelectStart \/ StartsSelected
  \/ ExpandNode \/ VisitEdge \/ NextLevel \/ CheckDepthLimit \/ DepthReached
  \/ ReturnQuery \/ ReturnFacts \/ SearchNode \/ SearchEdge
  \/ PathFound \/ TraceBack \/ PathTraced \/ FallBack \/ NoPath
  \/ ExplainSnapshot \/ ExplainNode \/ ExplainEdges \/ ExplainEndpoints \/ Explained

Next == Step \/ SnapshotChanges

(* A request runs in a goroutine of its own that waits for nobody.         *)
Fairness == WF_vars(Step)

Spec == Init /\ [][Next]_vars /\ Fairness
-----------------------------------------------------------------------------
(* The reference: the nodes at the end of a chain of at most depth edges   *)
(* of graph g that starts at a root and leaves only nodes in the scope, and *)
(* the nodes at the end of any.                                            *)
Scope(g) == IF request.projects = {} THEN Node ELSE ReadScopedNodeIDs(g, request.projects)

Linked(g, n, m) ==
  \E e \in g.edges : /\ Included(e)
                     /\ \/ e.source = n /\ e.target = m
                        \/ walk.direction = "both" /\ e.target = n /\ e.source = m

Links(g, scope) == {l \in (Node \cap scope) \X g.nodes : Linked(g, l[1], l[2])}

Chains(links, roots, k) ==
  {p \in [0 .. k -> Node] : p[0] \in roots /\ \A i \in 1 .. k : <<p[i - 1], p[i]>> \in links}

Within(links, roots, depth) ==
  UNION {{p[k] : p \in Chains(links, roots, k)} : k \in 0 .. depth}

Connected(links, roots) ==
  {n \in Node : \A S \in SUBSET Node :
     roots \subseteq S /\ (\A l \in links : l[1] \in S => l[2] \in S) => n \in S}

Seeds == UNION {LookupTermMatches(t, MaxSeeds) : t \in {request.source, request.target}}

Roots == IF request.kind = "query" THEN Seeds \cap visible.nodes
         ELSE {walk.source} \cap visible.nodes

SnapshotLinks == Links(visible, Scope(visible))
Reachable(depth) == Within(SnapshotLinks, Roots, depth)
AllReachable == Connected(SnapshotLinks, Roots)

Undisturbed == changes = 0

(* What a walk returns is within the limits of the request and was visible *)
(* while it ran, whatever happened to the snapshot: no edge without its    *)
(* nodes, no node farther than MaxDepth, none past a scope boundary; and a *)
(* walk of an undisturbed snapshot that reports no truncation reason left  *)
(* nothing out (Traverse, truncationReasons).                              *)
WalkIsExact ==
  at = "return" =>
    /\ Cardinality(walk.nodes) <= request.nodes
    /\ walk.edges \subseteq {e \in seen.edges : Included(e)}
    /\ \A e \in walk.edges : {e.source, e.target} \subseteq walk.nodes
    /\ Undisturbed => walk.nodes \subseteq Reachable(request.depth)
    /\ walk.boundary = None => \A n \in walk.nodes : ~OutOfScope(n)
    /\ Undisturbed /\ walk.reasons = {} => walk.nodes = AllReachable

(* The answer to a path request is a chain of edges that were all visible  *)
(* from the source to the target; on an undisturbed snapshot a directed    *)
(* one is a shortest one even if the node limit cut the walk, and an       *)
(* undirected one is never longer than need be (shortestPath).  A path     *)
(* that exists within the depth limit is found if the nodes that near do   *)
(* not exceed the node limit (FindPathSnapshot).                           *)
PathIsShortest ==
  /\ at = "done" /\ answer.nodes # <<>> =>
       LET length == Len(answer.edges)
       IN /\ answer.nodes[1] = walk.source /\ answer.nodes[length + 1] = walk.target
          /\ \A i \in 1 .. length :
               /\ answer.edges[i] \in seen.edges
               /\ Linked([seen EXCEPT !.edges = {answer.edges[i]}],
                         answer.nodes[i], answer.nodes[i + 1])
          /\ Undisturbed => walk.target \notin Reachable(length - 1)
  /\ at = "done" /\ request.kind = "path" /\ walk.source # None /\ Undisturbed =>
       LET near == Reachable(request.depth)
       IN walk.target \in near /\ Cardinality(near) <= request.nodes => answer.nodes # <<>>

(* An explanation shows the node, edges at it and ends of these edges, all *)
(* of which were visible while it was read; an explanation of an           *)
(* undisturbed snapshot shows all there are (Explain).                     *)
ExplanationIsExact ==
  at = "done" /\ request.kind = "explain" /\ walk.source # None =>
    LET n == walk.source
        incident(g) == {e \in g.edges : n \in {e.source, e.target}}
        ends(g) == {n} \cup UNION {{e.source, e.target} \cap g.nodes : e \in incident(g)}
    IN /\ walk.edges \subseteq incident(seen)
       /\ n \in walk.nodes /\ walk.nodes \subseteq ends(seen)
       /\ Undisturbed => walk.edges = incident(visible) /\ walk.nodes = ends(visible)

(* Every request ends, with an answer or an error, whatever is pruned or   *)
(* rolled back meanwhile (the loops of Traverse and shortestPath).         *)
RequestEnds == <>(at \in {"done", "error"})
-----------------------------------------------------------------------------
(* The inductive invariant behind WalkIsExact, PathIsShortest and          *)
(* ExplanationIsExact, in parts.  First what belongs to each stage.        *)
StagesFollow ==
  /\ visible.nodes \subseteq seen.nodes /\ visible.edges \subseteq seen.edges
  /\ Undisturbed => seen = visible
  /\ at \in {"scope", "starts", "expand", "return"} => request.kind \in {"query", "path"}
  /\ at \in {"search", "trail"} => request.kind = "path"
  /\ at \in {"explain", "incident", "endpoints"} => request.kind = "explain" /\ walk.source \in Node
  /\ at \in {"scope", "starts", "expand", "return", "search", "trail"} /\ request.kind = "path" =>
       walk.source \in Node /\ walk.target \in Node
  /\ ~(at \in {"trail", "done"} /\ request.kind = "path") => answer = NoAnswer

Walked == at \in {"starts", "expand", "return", "search", "trail"}

(* What holds of a walk whatever happens to the snapshot.                  *)
WalkStaysInBounds ==
  /\ at \in {"scope", "starts"} =>
       /\ walk.edges = {} /\ walk.frontier = walk.nodes /\ walk.next = {} /\ walk.pending = {}
       /\ walk.depth = 0 /\ walk.reasons = {} /\ walk.boundary = None
  /\ at = "scope" => walk.nodes = {}
  /\ at = "starts" => walk.start \cap walk.nodes = {}
  /\ Walked =>
       /\ Cardinality(walk.nodes) <= request.nodes
       /\ "node_limit" \in walk.reasons => Cardinality(walk.nodes) = request.nodes
       /\ walk.edges \subseteq {e \in seen.edges : Included(e)}
       /\ \A e \in walk.edges : {e.source, e.target} \subseteq walk.nodes
       /\ walk.boundary = None => \A n \in walk.nodes : ~OutOfScope(n)
       /\ \A n \in walk.frontier \cup walk.next : n \in walk.nodes /\ ~OutOfScope(n)
       /\ walk.next # {} => walk.depth < request.depth
       /\ walk.pending # {} =>
            /\ walk.depth < request.depth /\ walk.from \in walk.nodes /\ ~OutOfScope(walk.from)
            /\ \A e \in walk.pending : e \in seen.edges
       /\ "depth_limit" \in walk.reasons => walk.depth = request.depth
       /\ at # "starts" /\ at # "expand" =>
            /\ walk.pending = {}
            /\ walk.reasons = {} => walk.frontier = {} /\ walk.next = {}

(* The walk has followed all it can from the nodes it is done with.        *)
Closed ==
  \A n \in walk.nodes, e \in visible.edges, m \in visible.nodes :
    /\ n \in Scope(visible) /\ Included(e) /\ m \in Neighbors(n, e)
    /\ n \notin walk.frontier \cup walk.next
    /\ ~(n = walk.from /\ e \in walk.pending)
    => m \in walk.nodes

(* The node limit has cost the walk nothing. *)
Unlimited ==
  \/ "node_limit" \notin walk.reasons
  \/ Cardinality(Reachable(request.depth)) <= request.nodes

Facts == [nodes |-> walk.nodes, edges |-> walk.edges]
FactsWithin(k) == Within(Links(Facts, Node), {walk.source}, k)

(* What holds of a walk of an undisturbed snapshot: it goes level by level, *)
(* and its facts lead to each node on as few edges as the snapshot does.   *)
UndisturbedWalkIsByLevels ==
  Undisturbed =>
    /\ at = "scope" => Roots = walk.start \cap visible.nodes
    /\ at = "starts" => Roots = (walk.start \cap visible.nodes) \cup walk.nodes
    /\ Walked =>
         /\ Scope(visible) = IF walk.scope = {} THEN Node ELSE walk.scope
         /\ walk.nodes \subseteq Reachable(request.depth)
         /\ walk.frontier \subseteq Reachable(walk.depth)
         /\ walk.next \subseteq Reachable(walk.depth + 1) \ Reachable(walk.depth)
         /\ walk.pending # {} => walk.from \in Reachable(walk.depth)
         /\ request.kind = "path" =>
              \A d \in 0 .. request.depth : walk.nodes \cap Reachable(d) \subseteq FactsWithin(d)
    /\ Walked /\ at # "starts" /\ Unlimited =>
         /\ Roots \subseteq walk.nodes
         /\ Reachable(walk.depth) \subseteq walk.nodes
         /\ "depth_limit" \notin walk.reasons /\ at \in {"expand", "return"} => Closed
         /\ at # "expand" => Reachable(request.depth) \subseteq walk.nodes

Reached == DOMAIN search.before \cup {walk.source}

(* The nodes a search has reached and is done with lead to no others, the  *)
(* target is not one of them, and a predecessor is one edge closer to the  *)
(* source than the node.                                                   *)
SearchIsBreadthFirst ==
  at \in {"search", "trail"} =>
    /\ \A m \in DOMAIN search.before :
         LET previous == search.before[m]
         IN /\ m \in walk.nodes /\ m # walk.source
            /\ previous.node \in Reached /\ previous.edge \in walk.edges
            /\ m \in Neighbors(previous.node, previous.edge)
            /\ \A k \in 0 .. request.depth :
                 m \in FactsWithin(k) => previous.node \in FactsWithin(k - 1)
    /\ ToSet(search.queue) \subseteq Reached /\ search.pending \subseteq walk.edges
    /\ search.pending # {} => search.from \in Reached
    /\ (search.queue # <<>> \/ search.pending # {} \/ at = "trail") =>
         {walk.source, walk.target} \subseteq walk.nodes
    /\ at = "search" /\ {walk.source, walk.target} \subseteq walk.nodes =>
         /\ walk.target \in Reached => walk.target \in ToSet(search.queue)
         /\ \A n \in Reached, e \in walk.edges, m \in walk.nodes :
              m \in Neighbors(n, e) =>
                \/ m \in Reached
                \/ n \in ToSet(search.queue)
                \/ n = search.from /\ e \in search.pending

(* The queue is in the order of the distance from the source, which grows  *)
(* by at most one along it.                                                *)
QueueIsByDistance ==
  at = "search" =>
    /\ \A i, j \in DOMAIN search.queue, k \in 0 .. request.depth :
         /\ i < j /\ search.queue[j] \in FactsWithin(k) => search.queue[i] \in FactsWithin(k)
         /\ i < j /\ search.queue[i] \in FactsWithin(k) => search.queue[j] \in FactsWithin(k + 1)
    /\ search.pending # {} =>
         \A i \in DOMAIN search.queue, k \in 0 .. request.depth :
           /\ search.queue[i] \in FactsWithin(k) => search.from \in FactsWithin(k)
           /\ search.from \in FactsWithin(k) => search.queue[i] \in FactsWithin(k + 1)

(* The trail so far is a chain of facts to the target, and its first node  *)
(* is as much closer to the source as it is long.                          *)
TrailIsShortest ==
  at = "trail" =>
    LET length == Len(answer.edges)
    IN /\ Len(answer.nodes) = length + 1
       /\ answer.nodes[1] \in Reached /\ answer.nodes[length + 1] = walk.target
       /\ \A i \in 1 .. length :
            answer.edges[i] \in walk.edges /\ answer.nodes[i + 1] \in Neighbors(answer.nodes[i], answer.edges[i])
       /\ \A k \in 0 .. request.depth :
            walk.target \in FactsWithin(k) => answer.nodes[1] \in FactsWithin(k - length)

Incident(g) == {e \in g.edges : walk.source \in {e.source, e.target}}
Ends(g) == {walk.source} \cup UNION {{e.source, e.target} \cap g.nodes : e \in Incident(g)}

ExplanationIsComplete ==
  /\ at = "incident" => walk.nodes = {walk.source}
  /\ at = "endpoints" =>
       /\ walk.pending \subseteq walk.edges /\ walk.edges \subseteq Incident(seen)
       /\ walk.source \in walk.nodes /\ walk.nodes \subseteq Ends(seen)
       /\ Undisturbed =>
            /\ walk.edges = Incident(visible)
            /\ \A e \in walk.edges \ walk.pending : {e.source, e.target} \cap visible.nodes \subseteq walk.nodes

(* All of this together: what Traverse, shortestPath and Explain rely on   *)
(* between any two of their statements, whatever is pruned meanwhile.      *)
QueryInv ==
  /\ TypeOK /\ StagesFollow /\ WalkStaysInBounds /\ UndisturbedWalkIsByLevels
  /\ SearchIsBreadthFirst /\ QueueIsByDistance /\ TrailIsShortest /\ ExplanationIsComplete
  /\ PathIsShortest /\ ExplanationIsExact
=============================================================================
