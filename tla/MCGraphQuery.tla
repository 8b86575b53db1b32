----------------------------- MODULE MCGraphQuery -----------------------------
(* A small instance of GraphQuery: a project, 1, the declarations it may   *)
(* contain and one outside, with cycles, shortcuts and dangling edges.     *)
EXTENDS GraphQuery

MCEdge(s, t, r) == [source |-> s, target |-> t, relation |-> r]

MCEdges ==
  <<MCEdge(1, 2, "contains"), MCEdge(1, 3, "contains"), MCEdge(2, 3, "calls"),
    MCEdge(2, 4, "calls"), MCEdge(3, 2, "calls"), MCEdge(3, 4, "calls"), MCEdge(4, 3, "calls")>>

MCSnapshots == [nodes : {Node, Node \ {3}}, edges : SUBSET Edge]
MCUnstable == [nodes |-> {3}, edges |-> {MCEdge(2, 3, "calls"), MCEdge(3, 4, "calls")}]

MCExact == [project |-> <<1>>, name |-> <<>>, outside |-> <<4>>, leaf |-> <<3>>]
MCBroad == [project |-> <<1>>, name |-> <<3, 2, 4>>, outside |-> <<4>>, leaf |-> <<3>>]

MCPaths ==
  [kind : {"path"}, source : {"project"}, target : {"outside"}, fallback : BOOLEAN,
   projects : {{}, {1}}, relations : {{}}, depth : {1, 3}, nodes : {3, 4}]

MCAmbiguousPaths ==
  [kind : {"path"}, source : {"name"}, target : {"outside"}, fallback : {FALSE},
   projects : {{}}, relations : {{}}, depth : {3}, nodes : {4}]

MCQuery(t, relations) ==
  [kind : {"query"}, source : {"name"}, target : {t}, fallback : {FALSE},
   projects : {{}, {1}}, relations : {relations}, depth : {0, 2}, nodes : {2, 4}]

MCQueries == MCQuery("name", {"calls"}) \cup MCQuery("project", {})

MCExplanations ==
  [kind : {"explain"}, source : {"name", "leaf", "outside"}, target : {"name"}, fallback : {FALSE},
   projects : {{}}, relations : {{}}, depth : {0}, nodes : {4}]

MCRequests == MCPaths \cup MCAmbiguousPaths \cup MCQueries \cup MCExplanations
=============================================================================
