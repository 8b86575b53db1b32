--------------------------- MODULE VersionedGraph ---------------------------
(***************************************************************************)
(* What the storage contract (storage/storage.go) promises: a store holds  *)
(* a history of immutable graph versions.  A publication adds exactly one  *)
(* complete version and keeps the newest Retained ones; a rollback forgets *)
(* the versions after a chosen one; pruning forgets the versions before a  *)
(* chosen one.  Nothing else may happen to the history.  There are no      *)
(* rows, intervals or transactions here: GraphStore implements this        *)
(* specification with them.                                                *)
(***************************************************************************)
EXTENDS Integers, FiniteSets

CONSTANTS
  Path,          \* source paths of one workspace
  Contribution,  \* what one source file contributes to the graph
  Node,          \* nodes the workspace resolver may add
  Retained,      \* how many versions a publication keeps
  MaxVersion     \* bound on version numbers

VARIABLE graphs  \* the retained versions, each mapped to its graph

Edge == [owner : Path, target : Node]

(* A path contributes nothing ({}) or one value ({c}). *)
Graph == [contributions : [Path -> SUBSET Contribution],
          nodes : SUBSET Node,
          edges : SUBSET Edge]

EmptyGraph == [contributions |-> [p \in Path |-> {}], nodes |-> {}, edges |-> {}]

Newest == IF DOMAIN graphs = {} THEN 0
          ELSE CHOOSE v \in DOMAIN graphs : \A w \in DOMAIN graphs : w <= v

Latest == IF DOMAIN graphs = {} THEN EmptyGraph ELSE graphs[Newest]
-----------------------------------------------------------------------------
Init == graphs = [v \in {} |-> EmptyGraph]

(* One new version, and every other one that is kept is as it was; the     *)
(* oldest ones beyond the retention limit disappear.                       *)
AddVersion ==
  LET n == Newest + 1 IN
  /\ n <= MaxVersion
  /\ DOMAIN graphs' = {w \in DOMAIN graphs \cup {n} : w > n - Retained}
  /\ \A v \in DOMAIN graphs' \ {n} : graphs'[v] = graphs[v]

Replaced(new, p) == \E c \in Contribution : new.contributions[p] = {c}
Kept(new, p) == new.contributions[p] = Latest.contributions[p]
Removed(new, p) == new.contributions[p] = {}

(* Publish: the update replaces the contributions of its paths and leaves  *)
(* the others.                                                             *)
PublishUpdate ==
  /\ AddVersion
  /\ LET new == graphs'[Newest + 1]
     IN /\ new \in Graph
        /\ \A p \in Path : Replaced(new, p) \/ Kept(new, p)

(* A contribution session: only staged paths survive, written ones with    *)
(* their new value.                                                        *)
PublishSession ==
  /\ AddVersion
  /\ LET new == graphs'[Newest + 1]
     IN /\ new \in Graph
        /\ \A p \in Path : \/ Replaced(new, p) \/ Kept(new, p)
                           \/ Removed(new, p)

DiscardAfter(v) ==
  /\ v \in DOMAIN graphs
  /\ graphs' = [w \in {x \in DOMAIN graphs : x <= v} |-> graphs[w]]

DiscardBefore(v) ==
  /\ v \in DOMAIN graphs
  /\ graphs' = [w \in {x \in DOMAIN graphs : x >= v} |-> graphs[w]]

Next ==
  \/ PublishUpdate
  \/ PublishSession
  \/ \E v \in DOMAIN graphs : DiscardAfter(v) \/ DiscardBefore(v)

Spec == Init /\ [][Next]_graphs
=============================================================================
