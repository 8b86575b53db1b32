-------------------------- MODULE GraphStoreProofs --------------------------
(***************************************************************************)
(* Proofs that the interval tables of GraphStore keep a sound history, for *)
(* every set of paths and contributions and every retention limit.         *)
(***************************************************************************)
EXTENDS GraphStore, TLAPS

-----------------------------------------------------------------------------
(* Facts about the table operators. *)

(* Storing an update as version v keeps the table a sound history that now *)
(* reaches v (batch.add closing the replaced records at v - 1).            *)
LEMMA StoreSound ==
  ASSUME NEW table \in SUBSET Row, NEW lo \in Nat \ {0}, NEW v \in Nat \ {0},
         lo <= v, NEW update \in Updates,
         Within(table, lo .. (v - 1), v - 1), Disjoint(table)
  PROVE  LET stored == StoreContributions(table, update, v)
         IN  /\ stored \in SUBSET Row
             /\ Within(stored, lo .. v, v)
             /\ Disjoint(stored)
<1> DEFINE closed == CloseContributionRecords(table, DOMAIN update, v - 1)
           fresh == {NewRecord(p, v, update[p]) : p \in DOMAIN update}
<1>0. NULL \notin Nat
  BY StoreAssumption
<1>1. DOMAIN update \subseteq Path /\ \A p \in DOMAIN update : update[p] \in Contribution
  BY DEF Updates
<1>2. \A r \in fresh : /\ r \in Row /\ r.from = v /\ r.to = NULL
                       /\ r.path \in DOMAIN update
                       /\ r.contribution = update[r.path]
  BY <1>1 DEF NewRecord, Row
<1>3. \A r \in closed : 
         /\ r \in Row
         /\ r.from \in lo .. (v - 1)
         /\ r.to # NULL => r.to \in lo .. (v - 1) /\ r.from <= r.to
         /\ r.path \in DOMAIN update => r.to # NULL
  <2> SUFFICES ASSUME NEW s \in table,
                      NEW r, r = IF s.path \in DOMAIN update /\ s.to = NULL
                                 THEN [s EXCEPT !.to = v - 1] ELSE s
               PROVE  /\ r \in Row
                      /\ r.from \in lo .. (v - 1)
                      /\ r.to # NULL => r.to \in lo .. (v - 1) /\ r.from <= r.to
                      /\ r.path \in DOMAIN update => r.to # NULL
    BY DEF CloseContributionRecords
  <2>1. s \in Row /\ s.from \in lo .. (v - 1)
    BY DEF Within
  <2> QED
    BY <1>0, <2>1 DEF Within, Row
<1>4. Disjoint(closed)
  <2> SUFFICES ASSUME NEW r1 \in table, NEW r2 \in table,
                      NEW s1, s1 = IF r1.path \in DOMAIN update /\ r1.to = NULL
                                   THEN [r1 EXCEPT !.to = v - 1] ELSE r1,
                      NEW s2, s2 = IF r2.path \in DOMAIN update /\ r2.to = NULL
                                   THEN [r2 EXCEPT !.to = v - 1] ELSE r2,
                      s1.path = s2.path, s1 # s2
               PROVE  \/ s1.to # NULL /\ s1.to < s2.from
                      \/ s2.to # NULL /\ s2.to < s1.from
    BY DEF CloseContributionRecords, Disjoint
  <2>1. r1 \in Row /\ r2 \in Row /\ r1 # r2
    OBVIOUS
  <2>2. /\ s1.path = r1.path /\ s1.from = r1.from
        /\ s2.path = r2.path /\ s2.from = r2.from
        /\ r1.to # NULL => s1.to = r1.to
        /\ r2.to # NULL => s2.to = r2.to
    BY <2>1 DEF Row
  <2> QED
    BY <2>1, <2>2 DEF Disjoint
<1>5. StoreContributions(table, update, v) = closed \cup fresh
  BY DEF StoreContributions
<1>6. Within(closed \cup fresh, lo .. v, v)
  BY <1>2, <1>3 DEF Within
<1>7. Disjoint(closed \cup fresh)
  <2> SUFFICES ASSUME NEW r \in closed \cup fresh, NEW s \in closed \cup fresh,
                      r.path = s.path, r # s
               PROVE  \/ r.to # NULL /\ r.to < s.from
                      \/ s.to # NULL /\ s.to < r.from
    BY DEF Disjoint
  <2>1. CASE r \in closed /\ s \in closed
    BY <2>1, <1>4 DEF Disjoint
  <2>2. CASE r \in fresh /\ s \in fresh
    BY <2>2 DEF NewRecord
  <2>3. CASE r \in closed /\ s \in fresh
    BY <2>3, <1>2, <1>3
  <2>4. CASE r \in fresh /\ s \in closed
    BY <2>4, <1>2, <1>3
  <2> QED
    BY <2>1, <2>2, <2>3, <2>4
<1> QED
  BY <1>2, <1>3, <1>5, <1>6, <1>7

(* Pruning before version b keeps a sound history that starts at b         *)
(* (pruneVersions: rebaseContributions, then the deletion).                *)
LEMMA PruneSound ==
  ASSUME NEW table \in SUBSET Row, NEW lo \in Nat \ {0}, NEW hi \in Nat \ {0},
         NEW b \in lo .. hi,
         Within(table, lo .. hi, hi), Disjoint(table)
  PROVE  LET pruned == PruneRecords(table, b)
         IN  /\ pruned \in SUBSET Row
             /\ Within(pruned, b .. hi, hi)
             /\ Disjoint(pruned)
<1>0. NULL \notin Nat
  BY StoreAssumption
<1> DEFINE Rebased(r) == IF r.from < b /\ (r.to = NULL \/ r.to >= b)
                         THEN [r EXCEPT !.from = b] ELSE r
<1>1. ASSUME NEW r \in table, Rebased(r).from >= b
      PROVE  /\ Rebased(r) \in Row
             /\ Rebased(r).path = r.path /\ Rebased(r).to = r.to
             /\ Rebased(r).from \in b .. hi
             /\ r.from <= Rebased(r).from
             /\ r.to # NULL => r.to \in b .. hi /\ Rebased(r).from <= r.to /\ r.to < hi
             /\ Rebased(r).from = r.from \/ Rebased(r).from = b
  <2>1. r \in Row /\ r.from \in lo .. hi
    BY DEF Within
  <2>2. r.to # NULL => r.to \in lo .. hi /\ r.from <= r.to /\ r.to < hi
    BY DEF Within
  <2> QED
    BY <1>0, <1>1, <2>1, <2>2 DEF Row
<1>2. PruneRecords(table, b) = {s \in {Rebased(r) : r \in table} : s.from >= b}
  BY DEF PruneRecords, RebaseContributions
<1>3. PruneRecords(table, b) \in SUBSET Row /\ Within(PruneRecords(table, b), b .. hi, hi)
  BY <1>1, <1>2 DEF Within
<1>4. Disjoint(PruneRecords(table, b))
  <2> SUFFICES ASSUME NEW r1 \in table, NEW r2 \in table,
                      Rebased(r1).from >= b, Rebased(r2).from >= b,
                      Rebased(r1).path = Rebased(r2).path, Rebased(r1) # Rebased(r2)
               PROVE  \/ Rebased(r1).to # NULL /\ Rebased(r1).to < Rebased(r2).from
                      \/ Rebased(r2).to # NULL /\ Rebased(r2).to < Rebased(r1).from
    BY <1>2, ZenonT(30) DEF Disjoint
  <2>1. r1 # r2 /\ r1.path = r2.path
    BY <1>1
  <2>2. \/ r1.to # NULL /\ r1.to < r2.from
        \/ r2.to # NULL /\ r2.to < r1.from
    BY <2>1 DEF Disjoint
  <2>3. r1 \in Row /\ r2 \in Row
    OBVIOUS
  <2> HIDE DEF Rebased
  <2> QED
    BY <1>1, <2>2, <2>3 DEF Row
<1> QED
  BY <1>3, <1>4

(* Rolling back to version v keeps a sound history that ends at v: the     *)
(* records v saw are open again (reopenContributionRecords).               *)
LEMMA RollbackSound ==
  ASSUME NEW table \in SUBSET Row, NEW lo \in Nat \ {0}, NEW hi \in Nat \ {0},
         NEW v \in lo .. hi,
         Within(table, lo .. hi, hi), Disjoint(table)
  PROVE  LET restored == RollbackRecords(table, v)
         IN  /\ restored \in SUBSET Row
             /\ Within(restored, lo .. v, v)
             /\ Disjoint(restored)
<1>0. NULL \notin Nat
  BY StoreAssumption
<1> DEFINE Reopened(r) == IF r.to # NULL /\ r.to >= v THEN [r EXCEPT !.to = NULL] ELSE r
<1>1. ASSUME NEW r \in table, r.from <= v
      PROVE  /\ Reopened(r) \in Row
             /\ Reopened(r).path = r.path /\ Reopened(r).from = r.from
             /\ r.from \in lo .. v
             /\ Reopened(r).to # NULL =>
                  /\ Reopened(r).to = r.to
                  /\ r.to \in lo .. v /\ r.from <= r.to /\ r.to < v
             /\ r.to # NULL /\ r.to < v => Reopened(r).to = r.to
  <2>1. r \in Row /\ r.from \in lo .. hi
    BY DEF Within
  <2>2. r.to # NULL => r.to \in lo .. hi /\ r.from <= r.to /\ r.to < hi
    BY DEF Within
  <2> QED
    BY <1>0, <1>1, <2>1, <2>2 DEF Row
<1>2. RollbackRecords(table, v) = {Reopened(r) : r \in {s \in table : s.from <= v}}
  BY DEF RollbackRecords, ReopenContributionRecords
<1>3. RollbackRecords(table, v) \in SUBSET Row /\ Within(RollbackRecords(table, v), lo .. v, v)
  BY <1>1, <1>2 DEF Within
<1>4. Disjoint(RollbackRecords(table, v))
  <2> SUFFICES ASSUME NEW r1 \in table, NEW r2 \in table, r1.from <= v, r2.from <= v,
                      Reopened(r1).path = Reopened(r2).path, Reopened(r1) # Reopened(r2)
               PROVE  \/ Reopened(r1).to # NULL /\ Reopened(r1).to < Reopened(r2).from
                      \/ Reopened(r2).to # NULL /\ Reopened(r2).to < Reopened(r1).from
    BY <1>2, ZenonT(30) DEF Disjoint
  <2>1. r1 # r2 /\ r1.path = r2.path
    BY <1>1
  <2>2. \/ r1.to # NULL /\ r1.to < r2.from
        \/ r2.to # NULL /\ r2.to < r1.from
    BY <2>1 DEF Disjoint
  <2>3. r1 \in Row /\ r2 \in Row
    OBVIOUS
  <2> HIDE DEF Reopened
  <2> QED
    BY <1>1, <2>2, <2>3 DEF Row
<1> QED
  BY <1>3, <1>4
-----------------------------------------------------------------------------
(* The inductive invariant. *)

(* Both ends of a run of version numbers. *)
LEMMA EndsOfRun ==
  ASSUME NEW lo \in Int, NEW hi \in Int, lo <= hi
  PROVE  /\ (CHOOSE v \in lo .. hi : \A w \in lo .. hi : w <= v) = hi
         /\ (CHOOSE v \in lo .. hi : \A w \in lo .. hi : v <= w) = lo
<1>1. hi \in lo .. hi /\ \A w \in lo .. hi : w <= hi
  OBVIOUS
<1>2. lo \in lo .. hi /\ \A w \in lo .. hi : lo <= w
  OBVIOUS
<1>3. \A v \in lo .. hi : (\A w \in lo .. hi : w <= v) => v = hi
  BY <1>1
<1>4. \A v \in lo .. hi : (\A w \in lo .. hi : v <= w) => v = lo
  BY <1>2
<1> QED
  BY <1>1, <1>2, <1>3, <1>4

(* The retained versions are a run that ends at the current version; an    *)
(* empty history is the run from 1 to 0.                                   *)
LEMMA VersionsAreRun ==
  ASSUME TypeOK, ContiguousVersions
  PROVE  /\ CurrentVersion \in 0 .. MaxVersion
         /\ \E lo \in Nat \ {0} : /\ lo <= CurrentVersion + 1
                                  /\ versions = lo .. CurrentVersion
                                  /\ versions # {} => EarliestVersion = lo
<1>0. MaxVersion \in Nat
  BY StoreAssumption
<1>1. CASE versions = {}
  <2>1. CurrentVersion = 0 /\ versions = 1 .. 0
    BY <1>1 DEF CurrentVersion
  <2> QED
    BY <1>0, <1>1, <2>1
<1>2. CASE versions # {}
  <2>1. PICK lo \in 1 .. MaxVersion, hi \in 1 .. MaxVersion : lo <= hi /\ versions = lo .. hi
    BY <1>2 DEF ContiguousVersions
  <2>2. CurrentVersion = hi /\ EarliestVersion = lo
    BY <1>0, <1>2, <2>1, EndsOfRun DEF CurrentVersion, EarliestVersion
  <2> QED
    BY <1>0, <2>1, <2>2
<1> QED
  BY <1>1, <1>2

(* A run as the new set of versions has its upper end as current version.  *)
LEMMA NextRun ==
  ASSUME NEW lo \in Nat \ {0}, NEW hi \in Nat \ {0}, lo <= hi, hi <= MaxVersion,
         versions' = lo .. hi
  PROVE  CurrentVersion' = hi /\ ContiguousVersions'
<1>0. MaxVersion \in Nat
  BY StoreAssumption
<1>1. versions' # {}
  OBVIOUS
<1>2. CurrentVersion' = hi
  BY <1>1, EndsOfRun DEF CurrentVersion
<1> QED
  BY <1>0, <1>2 DEF ContiguousVersions

(* Whatever a publication has put in its tables for version v, as long as  *)
(* they are sound up to v, recording v and applying the retention limit    *)
(* re-establishes the invariant.                                           *)
LEMMA RecordVersionSound ==
  ASSUME NEW lo \in Nat \ {0}, NEW v \in Nat \ {0}, lo <= v, v <= MaxVersion,
         versions = lo .. (v - 1), v - 1 - lo < Retained,
         NEW newRows \in SUBSET Row, Within(newRows, lo .. v, v), Disjoint(newRows),
         NEW newNodes \in SUBSET NodeRow, \A n \in newNodes : n.version \in lo .. v,
         NEW newEdges \in SUBSET EdgeRow, \A e \in newEdges : e.version \in lo .. v,
         RecordVersion(v, newRows, newNodes, newEdges)
  PROVE  StoreInv'
<1>0. MaxVersion \in Nat /\ Retained \in Nat \ {0}
  BY StoreAssumption
<1>1. CASE v > Retained
  <2> DEFINE b == v - Retained + 1
  <2>1. /\ b \in lo .. v
        /\ versions' = b .. v
        /\ rows' = PruneRecords(newRows, b)
        /\ workspaceNodes' = {n \in newNodes : n.version >= b}
        /\ workspaceEdges' = {e \in newEdges : e.version >= b}
    <3>1. /\ b \in versions \cup {v}
          /\ versions' = {w \in versions \cup {v} : w >= b}
          /\ rows' = PruneRecords(newRows, b)
          /\ workspaceNodes' = {n \in newNodes : n.version >= b}
          /\ workspaceEdges' = {e \in newEdges : e.version >= b}
      BY <1>1 DEF RecordVersion, RetentionBoundary
    <3>2. b \in lo .. v
      BY <1>0, <3>1
    <3>3. versions' = b .. v
      BY <1>0, <3>1, <3>2
    <3> QED
      BY <3>1, <3>2, <3>3
  <2>2. b \in Nat \ {0} /\ b <= v
    BY <1>0, <1>1
  <2>3. CurrentVersion' = v /\ ContiguousVersions'
    BY <2>1, <2>2, NextRun
  <2>4. rows' \in SUBSET Row /\ Within(rows', b .. v, v) /\ Disjoint(rows')
    BY <2>1, PruneSound
  <2>5. WorkspaceFactsWithinHistory' /\ TypeOK'
    BY <1>0, <2>1, <2>2, <2>4 DEF WorkspaceFactsWithinHistory, TypeOK, NodeRow, EdgeRow
  <2>6. RetentionLimit'
    BY <1>0, <2>1 DEF RetentionLimit
  <2>7. IntervalsWithinHistory' /\ DisjointIntervals'
    BY <2>1, <2>3, <2>4 DEF IntervalsWithinHistory, DisjointIntervals, Within, Disjoint
  <2> QED
    BY <2>3, <2>5, <2>6, <2>7 DEF StoreInv
<1>2. CASE ~(v > Retained)
  <2>1. /\ versions' = lo .. v
        /\ rows' = newRows /\ workspaceNodes' = newNodes /\ workspaceEdges' = newEdges
    <3>1. versions \cup {v} = lo .. v
      OBVIOUS
    <3> QED
      BY <1>2, <3>1 DEF RecordVersion
  <2>2. CurrentVersion' = v /\ ContiguousVersions'
    BY <2>1, NextRun
  <2>3. WorkspaceFactsWithinHistory' /\ TypeOK'
    BY <1>0, <2>1 DEF WorkspaceFactsWithinHistory, TypeOK
  <2>4. RetentionLimit'
    BY <1>0, <1>2, <2>1 DEF RetentionLimit
  <2>5. IntervalsWithinHistory' /\ DisjointIntervals'
    BY <2>1, <2>2 DEF IntervalsWithinHistory, DisjointIntervals, Within, Disjoint
  <2> QED
    BY <2>2, <2>3, <2>4, <2>5 DEF StoreInv
<1> QED
  BY <1>1, <1>2

(* Publish keeps the invariant: its tables are sound up to the version it  *)
(* records.                                                                *)
LEMMA PublishSound ==
  ASSUME StoreInv, NEW update \in Updates, NEW nodes \in SUBSET Node,
         NEW edges \in SUBSET Edge, NEW owners \in SUBSET Path,
         Publish(update, nodes, edges, owners)
  PROVE  StoreInv'
<1> DEFINE v == CurrentVersion + 1
           newRows == StoreContributions(rows, update, v)
           newNodes == workspaceNodes \cup {[version |-> v, node |-> n] : n \in nodes}
           newEdges == workspaceEdges \cup RetainWorkspaceFacts(v, owners)
                                     \cup {[version |-> v, edge |-> e] : e \in edges}
<1>0. MaxVersion \in Nat /\ Retained \in Nat \ {0}
  BY StoreAssumption
<1>i. TypeOK /\ ContiguousVersions
  BY DEF StoreInv
<1>1. PICK lo \in Nat \ {0} : /\ lo <= CurrentVersion + 1
                              /\ versions = lo .. CurrentVersion
                              /\ versions # {} => EarliestVersion = lo
  BY <1>i, VersionsAreRun
<1>2. CurrentVersion \in Nat /\ v \in Nat \ {0} /\ CurrentVersion = v - 1
  BY <1>0, <1>i, VersionsAreRun
<1>3. v <= MaxVersion /\ RecordVersion(v, newRows, newNodes, newEdges)
  BY DEF Publish
<1>4. v - 1 - lo < Retained
  BY <1>0, <1>1, <1>2 DEF StoreInv, RetentionLimit
<1>5. newRows \in SUBSET Row /\ Within(newRows, lo .. v, v) /\ Disjoint(newRows)
  <2>1. /\ rows \in SUBSET Row
        /\ Within(rows, lo .. (v - 1), v - 1)
        /\ Disjoint(rows)
    BY <1>1, <1>2 DEF StoreInv, TypeOK, IntervalsWithinHistory, DisjointIntervals
  <2> QED
    BY <1>1, <1>2, <2>1, StoreSound
<1>6. newNodes \in SUBSET NodeRow /\ \A n \in newNodes : n.version \in lo .. v
  BY <1>1, <1>2 DEF StoreInv, TypeOK, WorkspaceFactsWithinHistory, NodeRow
<1>7. newEdges \in SUBSET EdgeRow /\ \A e \in newEdges : e.version \in lo .. v
  <2>1. RetainWorkspaceFacts(v, owners) \in SUBSET EdgeRow
    BY <1>2 DEF RetainWorkspaceFacts, StoreInv, TypeOK, EdgeRow
  <2>2. \A e \in RetainWorkspaceFacts(v, owners) : e.version = v
    BY DEF RetainWorkspaceFacts
  <2> QED
    BY <1>1, <1>2, <2>1, <2>2 DEF StoreInv, TypeOK, WorkspaceFactsWithinHistory, EdgeRow
<1> HIDE DEF v, newRows, newNodes, newEdges
<1> QED
  BY <1>1, <1>2, <1>3, <1>4, <1>5, <1>6, <1>7, RecordVersionSound

(* Rollback keeps the invariant: what is left is a sound history that ends *)
(* at the version rolled back to.                                          *)
LEMMA RollbackKeepsInv ==
  ASSUME StoreInv, NEW v \in versions, Rollback(v)
  PROVE  StoreInv'
<1>0. MaxVersion \in Nat /\ Retained \in Nat \ {0}
  BY StoreAssumption
<1>i. TypeOK /\ ContiguousVersions
  BY DEF StoreInv
<1>1. PICK lo \in Nat \ {0} : /\ lo <= CurrentVersion + 1
                              /\ versions = lo .. CurrentVersion
                              /\ versions # {} => EarliestVersion = lo
  BY <1>i, VersionsAreRun
<1>2. CurrentVersion \in Nat \ {0} /\ CurrentVersion <= MaxVersion /\ v \in lo .. CurrentVersion
  BY <1>0, <1>1, <1>i, VersionsAreRun
<1>3. versions' = lo .. v
  BY <1>1, <1>2 DEF Rollback
<1>4. CurrentVersion' = v /\ ContiguousVersions'
  BY <1>0, <1>2, <1>3, NextRun
<1>5. rows' \in SUBSET Row /\ Within(rows', lo .. v, v) /\ Disjoint(rows')
  <2>1. rows \in SUBSET Row /\ Within(rows, lo .. CurrentVersion, CurrentVersion) /\ Disjoint(rows)
    BY <1>1 DEF StoreInv, TypeOK, IntervalsWithinHistory, DisjointIntervals
  <2>2. rows' = RollbackRecords(rows, v)
    BY DEF Rollback
  <2> QED
    BY <1>2, <2>1, <2>2, RollbackSound
<1>6. WorkspaceFactsWithinHistory' /\ TypeOK'
  <2>1. /\ workspaceNodes' = {n \in workspaceNodes : n.version <= v}
        /\ workspaceEdges' = {e \in workspaceEdges : e.version <= v}
    BY DEF Rollback
  <2> QED
    BY <1>0, <1>1, <1>2, <1>3, <1>5, <2>1
    DEF StoreInv, WorkspaceFactsWithinHistory, TypeOK, NodeRow, EdgeRow
<1>7. RetentionLimit'
  BY <1>1, <1>2, <1>3 DEF StoreInv, RetentionLimit
<1>8. IntervalsWithinHistory' /\ DisjointIntervals'
  BY <1>3, <1>4, <1>5 DEF IntervalsWithinHistory, DisjointIntervals, Within, Disjoint
<1> QED
  BY <1>4, <1>6, <1>7, <1>8 DEF StoreInv

(* Prune keeps the invariant: what is left is a sound history that starts  *)
(* at the pruning boundary.                                                *)
LEMMA PruneKeepsInv ==
  ASSUME StoreInv, NEW v \in versions, Prune(v)
  PROVE  StoreInv'
<1>0. MaxVersion \in Nat /\ Retained \in Nat \ {0}
  BY StoreAssumption
<1>i. TypeOK /\ ContiguousVersions
  BY DEF StoreInv
<1>1. PICK lo \in Nat \ {0} : /\ lo <= CurrentVersion + 1
                              /\ versions = lo .. CurrentVersion
                              /\ versions # {} => EarliestVersion = lo
  BY <1>i, VersionsAreRun
<1>2. CurrentVersion \in Nat \ {0} /\ CurrentVersion <= MaxVersion /\ v \in lo .. CurrentVersion
  BY <1>0, <1>1, <1>i, VersionsAreRun
<1>3. versions' = v .. CurrentVersion
  BY <1>1, <1>2 DEF Prune
<1>4. CurrentVersion' = CurrentVersion /\ ContiguousVersions'
  BY <1>0, <1>2, <1>3, NextRun
<1>5. rows' \in SUBSET Row /\ Within(rows', v .. CurrentVersion, CurrentVersion) /\ Disjoint(rows')
  <2>1. rows \in SUBSET Row /\ Within(rows, lo .. CurrentVersion, CurrentVersion) /\ Disjoint(rows)
    BY <1>1 DEF StoreInv, TypeOK, IntervalsWithinHistory, DisjointIntervals
  <2>2. rows' = PruneRecords(rows, v)
    BY DEF Prune
  <2> QED
    BY <1>2, <2>1, <2>2, PruneSound
<1>6. WorkspaceFactsWithinHistory' /\ TypeOK'
  <2>1. /\ workspaceNodes' = {n \in workspaceNodes : n.version >= v}
        /\ workspaceEdges' = {e \in workspaceEdges : e.version >= v}
    BY DEF Prune
  <2> QED
    BY <1>0, <1>1, <1>2, <1>3, <1>5, <2>1
    DEF StoreInv, WorkspaceFactsWithinHistory, TypeOK, NodeRow, EdgeRow
<1>7. RetentionLimit'
  BY <1>1, <1>2, <1>3 DEF StoreInv, RetentionLimit
<1>8. IntervalsWithinHistory' /\ DisjointIntervals'
  BY <1>3, <1>4, <1>5 DEF IntervalsWithinHistory, DisjointIntervals, Within, Disjoint
<1> QED
  BY <1>4, <1>6, <1>7, <1>8 DEF StoreInv

(* The empty database satisfies the invariant. *)
LEMMA InitSound == Init => StoreInv
  BY StoreAssumption
  DEF Init, StoreInv, TypeOK, ContiguousVersions, DisjointIntervals, Disjoint,
      IntervalsWithinHistory, Within, WorkspaceFactsWithinHistory, RetentionLimit

(* Every operation of the store preserves it. *)
LEMMA NextSound == StoreInv /\ [Next]_storeVars => StoreInv'
<1> SUFFICES ASSUME StoreInv, [Next]_storeVars PROVE StoreInv'
  OBVIOUS
<1>1. CASE UNCHANGED storeVars
  BY <1>1 DEF storeVars, StoreInv, TypeOK, ContiguousVersions, DisjointIntervals,
     IntervalsWithinHistory, CurrentVersion, WorkspaceFactsWithinHistory, RetentionLimit
<1>2. ASSUME NEW update \in Updates, NEW nodes \in SUBSET Node,
             NEW edges \in SUBSET Edge, NEW owners \in SUBSET Path,
             Publish(update, nodes, edges, owners)
      PROVE  StoreInv'
  BY <1>2, PublishSound
<1>3. ASSUME NEW v \in versions, Rollback(v) PROVE StoreInv'
  BY <1>3, RollbackKeepsInv
<1>4. ASSUME NEW v \in versions, Prune(v) PROVE StoreInv'
  BY <1>4, PruneKeepsInv
<1> QED
  BY <1>1, <1>2, <1>3, <1>4 DEF Next

(* The tables always hold a sound, bounded history: typed rows, versions   *)
(* without gaps, disjoint intervals inside the retained history, no        *)
(* orphaned workspace facts, at most Retained versions.                    *)
THEOREM StoreInvariant == Spec => []StoreInv
  BY InitSound, NextSound, PTL DEF Spec
-----------------------------------------------------------------------------
(* Published versions are immutable. *)

(* Storing version v does not change what an older version w shows. *)
LEMMA StoreKeepsOlder ==
  ASSUME NEW table \in SUBSET Row, NEW v \in Nat, NEW w \in Nat, w < v,
         NEW update \in Updates
  PROVE  ContributionsAt(StoreContributions(table, update, v), w) = ContributionsAt(table, w)
<1> DEFINE Closed(r) == IF r.path \in DOMAIN update /\ r.to = NULL
                        THEN [r EXCEPT !.to = v - 1] ELSE r
           fresh == {NewRecord(p, v, update[p]) : p \in DOMAIN update}
<1>0. NULL \notin Nat
  BY StoreAssumption
<1>1. \A r \in table : /\ Closed(r).path = r.path
                       /\ Closed(r).contribution = r.contribution
                       /\ Visible(Closed(r), w) <=> Visible(r, w)
  <2> SUFFICES ASSUME NEW r \in table
               PROVE  /\ Closed(r).path = r.path
                      /\ Closed(r).contribution = r.contribution
                      /\ Visible(Closed(r), w) <=> Visible(r, w)
    OBVIOUS
  <2> QED
    BY <1>0 DEF Row, Visible
<1>2. \A r \in fresh : ~Visible(r, w)
  BY DEF NewRecord, Visible
<1>3. StoreContributions(table, update, v) = {Closed(r) : r \in table} \cup fresh
  BY DEF StoreContributions, CloseContributionRecords
<1> HIDE DEF Closed, fresh
<1>4. ASSUME NEW p \in Path
      PROVE  {r.contribution : r \in {s \in {Closed(q) : q \in table} \cup fresh :
                                        s.path = p /\ Visible(s, w)}}
           = {r.contribution : r \in {s \in table : s.path = p /\ Visible(s, w)}}
  BY <1>1, <1>2
<1> QED
  BY <1>3, <1>4 DEF ContributionsAt

(* Pruning before version b does not change what b or a later version      *)
(* shows.                                                                  *)
LEMMA PruneKeepsNewer ==
  ASSUME NEW table \in SUBSET Row, NEW b \in Nat, NEW w \in Nat, b <= w
  PROVE  ContributionsAt(PruneRecords(table, b), w) = ContributionsAt(table, w)
<1> DEFINE Rebased(r) == IF r.from < b /\ (r.to = NULL \/ r.to >= b)
                         THEN [r EXCEPT !.from = b] ELSE r
<1>0. NULL \notin Nat
  BY StoreAssumption
<1>1. \A r \in table : /\ Rebased(r).path = r.path
                       /\ Rebased(r).contribution = r.contribution
                       /\ Rebased(r).from >= b /\ Visible(Rebased(r), w) <=> Visible(r, w)
  <2> SUFFICES ASSUME NEW r \in table
               PROVE  /\ Rebased(r).path = r.path
                      /\ Rebased(r).contribution = r.contribution
                      /\ Rebased(r).from >= b /\ Visible(Rebased(r), w) <=> Visible(r, w)
    OBVIOUS
  <2> QED
    BY <1>0 DEF Row, Visible
<1>2. PruneRecords(table, b) = {s \in {Rebased(r) : r \in table} : s.from >= b}
  BY DEF PruneRecords, RebaseContributions
<1> HIDE DEF Rebased
<1>3. ASSUME NEW p \in Path
      PROVE  {r.contribution : r \in {s \in PruneRecords(table, b) :
                                        s.path = p /\ Visible(s, w)}}
           = {r.contribution : r \in {s \in table : s.path = p /\ Visible(s, w)}}
  BY <1>1, <1>2
<1> QED
  BY <1>3 DEF ContributionsAt

(* Rolling back to version v does not change what v or an older version    *)
(* shows.                                                                  *)
LEMMA RollbackKeepsOlder ==
  ASSUME NEW table \in SUBSET Row, NEW v \in Nat, NEW w \in Nat, w <= v
  PROVE  ContributionsAt(RollbackRecords(table, v), w) = ContributionsAt(table, w)
<1> DEFINE Reopened(r) == IF r.to # NULL /\ r.to >= v THEN [r EXCEPT !.to = NULL] ELSE r
<1>0. NULL \notin Nat
  BY StoreAssumption
<1>1. \A r \in table : /\ Reopened(r).path = r.path
                       /\ Reopened(r).contribution = r.contribution
                       /\ r.from <= v /\ Visible(Reopened(r), w) <=> Visible(r, w)
  <2> SUFFICES ASSUME NEW r \in table
               PROVE  /\ Reopened(r).path = r.path
                      /\ Reopened(r).contribution = r.contribution
                      /\ r.from <= v /\ Visible(Reopened(r), w) <=> Visible(r, w)
    OBVIOUS
  <2> QED
    BY <1>0 DEF Row, Visible
<1>2. RollbackRecords(table, v) = {Reopened(r) : r \in {s \in table : s.from <= v}}
  BY DEF RollbackRecords, ReopenContributionRecords
<1> HIDE DEF Reopened
<1>3. ASSUME NEW p \in Path
      PROVE  {r.contribution : r \in {s \in RollbackRecords(table, v) :
                                        s.path = p /\ Visible(s, w)}}
           = {r.contribution : r \in {s \in table : s.path = p /\ Visible(s, w)}}
  BY <1>1, <1>2
<1> QED
  BY <1>3 DEF ContributionsAt

(* A publication of version v keeps an older version w if the tables it    *)
(* records show the same at w: retention only drops what is before its     *)
(* boundary.                                                               *)
LEMMA RecordVersionKeepsOlder ==
  ASSUME NEW v \in Nat, NEW w \in versions \cap versions', versions \subseteq Nat,
         NEW newRows \in SUBSET Row, NEW newNodes \in SUBSET NodeRow,
         NEW newEdges \in SUBSET EdgeRow,
         ContributionsAt(newRows, w) = ContributionsAt(rows, w),
         \A n : n.version = w => (n \in newNodes <=> n \in workspaceNodes),
         \A e : e.version = w => (e \in newEdges <=> e \in workspaceEdges),
         RecordVersion(v, newRows, newNodes, newEdges)
  PROVE  GraphAt(w)' = GraphAt(w)
<1>0. Retained \in Nat \ {0} /\ w \in Nat
  BY StoreAssumption
<1>1. /\ ContributionsAt(rows', w) = ContributionsAt(rows, w)
      /\ {m \in workspaceNodes' : m.version = w} = {m \in workspaceNodes : m.version = w}
      /\ {f \in workspaceEdges' : f.version = w} = {f \in workspaceEdges : f.version = w}
  <2>1. CASE v > Retained
    <3> DEFINE b == RetentionBoundary(v)
    <3>1. b \in Nat
      BY <1>0, <2>1 DEF RetentionBoundary
    <3>2. /\ versions' = {u \in versions \cup {v} : u >= b}
          /\ rows' = PruneRecords(newRows, b)
          /\ workspaceNodes' = {n \in newNodes : n.version >= b}
          /\ workspaceEdges' = {e \in newEdges : e.version >= b}
      BY <2>1 DEF RecordVersion
    <3>3. b <= w
      BY <1>0, <3>1, <3>2
    <3>4. ContributionsAt(rows', w) = ContributionsAt(rows, w)
      BY <1>0, <3>1, <3>2, <3>3, PruneKeepsNewer
    <3> QED
      BY <3>2, <3>3, <3>4
  <2>2. CASE ~(v > Retained)
    BY <2>2 DEF RecordVersion
  <2> QED
    BY <2>1, <2>2
<1> QED
  BY <1>1 DEF GraphAt, ContributionsAt

(* No operation of the store changes what a version that survives it       *)
(* shows.                                                                  *)
LEMMA StepKeepsGraphs ==
  ASSUME StoreInv, Next, NEW w \in versions \cap versions'
  PROVE  GraphAt(w)' = GraphAt(w)
<1>0. TypeOK /\ ContiguousVersions
  BY DEF StoreInv
<1>1. /\ rows \in SUBSET Row /\ workspaceNodes \in SUBSET NodeRow
      /\ workspaceEdges \in SUBSET EdgeRow /\ versions \subseteq Nat /\ w \in Nat
  BY <1>0, StoreAssumption DEF TypeOK
<1>2. ASSUME NEW update \in Updates, NEW nodes \in SUBSET Node,
             NEW edges \in SUBSET Edge, NEW owners \in SUBSET Path,
             Publish(update, nodes, edges, owners)
      PROVE  GraphAt(w)' = GraphAt(w)
  <2> DEFINE v == CurrentVersion + 1
             newRows == StoreContributions(rows, update, v)
             newNodes == workspaceNodes \cup {[version |-> v, node |-> n] : n \in nodes}
             newEdges == workspaceEdges \cup RetainWorkspaceFacts(v, owners)
                                       \cup {[version |-> v, edge |-> e] : e \in edges}
  <2>1. v \in Nat \ {0} /\ w < v
    BY <1>0, <1>1, VersionsAreRun, StoreAssumption
  <2>2. RecordVersion(v, newRows, newNodes, newEdges)
    BY <1>2 DEF Publish
  <2>3. ContributionsAt(newRows, w) = ContributionsAt(rows, w)
    BY <1>1, <2>1, StoreKeepsOlder
  <2>4. newRows \in SUBSET Row
    <3>1. CloseContributionRecords(rows, DOMAIN update, v - 1) \in SUBSET Row
      BY <1>1, <2>1 DEF CloseContributionRecords, Row
    <3>2. {NewRecord(p, v, update[p]) : p \in DOMAIN update} \in SUBSET Row
      BY <2>1 DEF NewRecord, Row, Updates
    <3> QED
      BY <3>1, <3>2 DEF StoreContributions
  <2>5. /\ newNodes \in SUBSET NodeRow
        /\ \A n : n.version = w => (n \in newNodes <=> n \in workspaceNodes)
    BY <1>1, <2>1 DEF NodeRow
  <2>6. RetainWorkspaceFacts(v, owners) \in SUBSET EdgeRow
    BY <1>1, <2>1 DEF RetainWorkspaceFacts, EdgeRow
  <2>7. \A e \in RetainWorkspaceFacts(v, owners) : e.version = v
    BY DEF RetainWorkspaceFacts
  <2>8. /\ newEdges \in SUBSET EdgeRow
        /\ \A e : e.version = w => (e \in newEdges <=> e \in workspaceEdges)
    BY <1>1, <2>1, <2>6, <2>7 DEF EdgeRow
  <2> HIDE DEF v, newRows, newNodes, newEdges
  <2> QED
    BY <1>1, <2>1, <2>2, <2>3, <2>4, <2>5, <2>8, RecordVersionKeepsOlder
<1>3. ASSUME NEW v \in versions, Rollback(v) PROVE GraphAt(w)' = GraphAt(w)
  <2>1. v \in Nat /\ w <= v
    BY <1>1, <1>3 DEF Rollback
  <2>2. ContributionsAt(rows', w) = ContributionsAt(rows, w)
    BY <1>1, <1>3, <2>1, RollbackKeepsOlder DEF Rollback
  <2>3. /\ {m \in workspaceNodes' : m.version = w} = {m \in workspaceNodes : m.version = w}
        /\ {f \in workspaceEdges' : f.version = w} = {f \in workspaceEdges : f.version = w}
    BY <1>3, <2>1 DEF Rollback
  <2> QED
    BY <2>2, <2>3 DEF GraphAt, ContributionsAt
<1>4. ASSUME NEW v \in versions, Prune(v) PROVE GraphAt(w)' = GraphAt(w)
  <2>1. v \in Nat /\ v <= w
    BY <1>1, <1>4 DEF Prune
  <2>2. ContributionsAt(rows', w) = ContributionsAt(rows, w)
    BY <1>1, <1>4, <2>1, PruneKeepsNewer DEF Prune
  <2>3. /\ {m \in workspaceNodes' : m.version = w} = {m \in workspaceNodes : m.version = w}
        /\ {f \in workspaceEdges' : f.version = w} = {f \in workspaceEdges : f.version = w}
    BY <1>4, <2>1 DEF Prune
  <2> QED
    BY <2>2, <2>3 DEF GraphAt, ContributionsAt
<1> QED
  BY <1>2, <1>3, <1>4 DEF Next

(* A published version never changes as long as it is retained.            *)
THEOREM PublishedVersionsImmutable == Spec => SnapshotsImmutable
<1>1. StoreInv /\ [Next]_storeVars
        => [\A v \in versions \cap versions' : GraphAt(v)' = GraphAt(v)]_storeVars
  BY StepKeepsGraphs
<1> QED
  BY <1>1, StoreInvariant, PTL DEF Spec, SnapshotsImmutable

(* Every step leaves a history whose versions are none of the pruned ones: *)
(* a rollback keeps at least one version, and a publication continues from *)
(* the newest one.                                                         *)
LEMMA StepKeepsPruned ==
  ASSUME StoreInv, Next, NEW v \in 1 .. MaxVersion, OpenSnapshot(v) = "pruned"
  PROVE  OpenSnapshot(v)' = "pruned"
<1>0. MaxVersion \in Nat /\ Retained \in Nat \ {0}
  BY StoreAssumption
<1>i. TypeOK /\ ContiguousVersions
  BY DEF StoreInv
<1>1. PICK lo \in Nat \ {0} : /\ lo <= CurrentVersion + 1
                              /\ versions = lo .. CurrentVersion
                              /\ versions # {} => EarliestVersion = lo
  BY <1>i, VersionsAreRun
<1>2. CurrentVersion \in Nat
  BY <1>0, <1>i, VersionsAreRun
<1>3. v \in Nat \ {0} /\ versions # {} /\ v < lo
  BY <1>0, <1>1 DEF OpenSnapshot
<1>4. versions' # {} /\ \A w \in versions' : lo <= w
  <2>1. ASSUME NEW update, NEW nodes, NEW edges, NEW owners,
               Publish(update, nodes, edges, owners)
        PROVE  versions' # {} /\ \A w \in versions' : lo <= w
    <3> DEFINE n == CurrentVersion + 1
    <3>1. versions' \subseteq versions \cup {n} /\ n \in versions'
      <4>1. n > Retained => RetentionBoundary(n) <= n
        BY <1>0, <1>2 DEF RetentionBoundary
      <4> QED
        BY <1>0, <1>2, <2>1, <4>1 DEF Publish, RecordVersion
    <3> QED
      BY <1>1, <1>2, <3>1
  <2>2. ASSUME NEW w \in versions, Rollback(w) \/ Prune(w)
        PROVE  versions' # {} /\ \A u \in versions' : lo <= u
    <3>1. versions' \subseteq versions /\ w \in versions'
      BY <1>1, <1>2, <2>2 DEF Rollback, Prune
    <3> QED
      BY <1>1, <1>2, <3>1
  <2> QED
    BY <2>1, <2>2 DEF Next
<1>5. ContiguousVersions'
  BY NextSound DEF StoreInv
<1>6. PICK from \in 1 .. MaxVersion, to \in 1 .. MaxVersion :
         from <= to /\ versions' = from .. to
  BY <1>4, <1>5 DEF ContiguousVersions
<1>7. EarliestVersion' = from
  BY <1>0, <1>6, EndsOfRun DEF EarliestVersion
<1>8. v < from /\ v \notin versions'
  BY <1>0, <1>1, <1>3, <1>4, <1>6
<1> QED
  BY <1>3, <1>4, <1>7, <1>8 DEF OpenSnapshot

(* A version reported as pruned is reported as pruned for ever.            *)
THEOREM PrunedForever == Spec => PrunedVersionsStayPruned
<1>1. StoreInv /\ [Next]_storeVars
        => [\A v \in 1 .. MaxVersion :
              OpenSnapshot(v) = "pruned" => OpenSnapshot(v)' = "pruned"]_storeVars
  BY StepKeepsPruned
<1> QED
  BY <1>1, StoreInvariant, PTL DEF Spec, PrunedVersionsStayPruned
-----------------------------------------------------------------------------
(* The tables implement the storage contract. *)

(* The newest version of the mapped history is the current version, and    *)
(* its contributions are what the tables show at it.                       *)
LEMMA MappedHistory ==
  ASSUME StoreInv
  PROVE  /\ History!Newest = CurrentVersion
         /\ History!Latest.contributions = ContributionsAt(rows, CurrentVersion)
<1> DEFINE G == [v \in versions |-> GraphAt(v)]
<1>1. DOMAIN G = versions
  OBVIOUS
<1>2. History!Newest = CurrentVersion
  BY <1>1 DEF History!Newest, CurrentVersion
<1>3. CASE versions = {}
  <2>1. rows = {}
    BY <1>3 DEF StoreInv, IntervalsWithinHistory, Within
  <2> QED
    BY <1>1, <1>2, <1>3, <2>1 DEF History!Latest, History!EmptyGraph, ContributionsAt
<1>4. CASE versions # {}
  <2>1. CurrentVersion \in versions
    <3>1. TypeOK /\ ContiguousVersions
      BY DEF StoreInv
    <3>2. PICK lo \in Nat \ {0} : lo <= CurrentVersion + 1 /\ versions = lo .. CurrentVersion
      BY <3>1, VersionsAreRun
    <3>3. CurrentVersion \in Nat
      BY <3>1, VersionsAreRun, StoreAssumption
    <3> QED
      BY <1>4, <3>2, <3>3
  <2>2. History!Latest = GraphAt(CurrentVersion)
    BY <1>1, <1>2, <1>4, <2>1 DEF History!Latest
  <2> QED
    BY <1>2, <2>2 DEF GraphAt
<1> QED
  BY <1>2, <1>3, <1>4

(* What typed tables show at a version is a graph of the contract (stated  *)
(* of the state after a step).                                             *)
LEMMA GraphAtTyped ==
  ASSUME TypeOK', NEW v
  PROVE  GraphAt(v)' \in History!Graph
<1>1. ContributionsAt(rows', v) \in [Path -> SUBSET Contribution]
  BY DEF ContributionsAt, TypeOK, Row
<1>2. {n.node : n \in {m \in workspaceNodes' : m.version = v}} \in SUBSET Node
  BY DEF TypeOK, NodeRow
<1>3. {e.edge : e \in {f \in workspaceEdges' : f.version = v}} \in SUBSET Edge
  BY DEF TypeOK, EdgeRow
<1> QED
  BY <1>1, <1>2, <1>3 DEF GraphAt, ContributionsAt, History!Graph, History!Edge, Edge

(* Recording version v from tables that show the older versions unchanged  *)
(* adds one version to the history, which shows what the tables hold for   *)
(* v; retention drops exactly the versions the contract drops.             *)
LEMMA RecordVersionRefines ==
  ASSUME StoreInv, NEW v, v = CurrentVersion + 1, v <= MaxVersion,
         NEW newRows \in SUBSET Row, NEW newNodes \in SUBSET NodeRow,
         NEW newEdges \in SUBSET EdgeRow,
         \A w \in versions : ContributionsAt(newRows, w) = ContributionsAt(rows, w),
         \A n : n.version \in versions => (n \in newNodes <=> n \in workspaceNodes),
         \A e : e.version \in versions => (e \in newEdges <=> e \in workspaceEdges),
         RecordVersion(v, newRows, newNodes, newEdges)
  PROVE  /\ History!AddVersion
         /\ v \in versions'
         /\ ContributionsAt(rows', v) = ContributionsAt(newRows, v)
<1>0. MaxVersion \in Nat /\ Retained \in Nat \ {0}
  BY StoreAssumption
<1>1. TypeOK /\ ContiguousVersions
  BY DEF StoreInv
<1>2. PICK lo \in Nat \ {0} : lo <= CurrentVersion + 1 /\ versions = lo .. CurrentVersion
  BY <1>1, VersionsAreRun
<1>3. CurrentVersion \in Nat /\ v \in Nat \ {0} /\ versions \subseteq Nat
  BY <1>0, <1>1, <1>2, VersionsAreRun
<1>4. versions' = {w \in versions \cup {v} : w > v - Retained}
  BY <1>0, <1>2, <1>3 DEF RecordVersion, RetentionBoundary
<1>5. v \in versions'
  BY <1>0, <1>3, <1>4
<1>6. ContributionsAt(rows', v) = ContributionsAt(newRows, v)
  <2>1. CASE v > Retained
    <3>1. RetentionBoundary(v) \in Nat /\ RetentionBoundary(v) <= v
      BY <1>0, <1>3, <2>1 DEF RetentionBoundary
    <3>2. rows' = PruneRecords(newRows, RetentionBoundary(v))
      BY <2>1 DEF RecordVersion
    <3> QED
      BY <1>3, <3>1, <3>2, PruneKeepsNewer
  <2>2. CASE ~(v > Retained)
    BY <2>2 DEF RecordVersion
  <2> QED
    BY <2>1, <2>2
<1>7. \A w \in versions' \ {v} : w \in versions /\ GraphAt(w)' = GraphAt(w)
  <2> SUFFICES ASSUME NEW w \in versions' \ {v}
               PROVE  w \in versions /\ GraphAt(w)' = GraphAt(w)
    OBVIOUS
  <2>1. w \in versions \cap versions'
    BY <1>4
  <2> QED
    BY <1>3, <2>1, RecordVersionKeepsOlder
<1>8. History!AddVersion
  <2> DEFINE G == [w \in versions |-> GraphAt(w)]
  <2>1. DOMAIN G = versions /\ (DOMAIN G)' = versions'
    OBVIOUS
  <2>2. \A w \in versions' \ {v} : G'[w] = G[w]
    BY <1>7
  <2> QED
    BY <1>4, <2>1, <2>2, MappedHistory DEF History!AddVersion
<1> QED
  BY <1>5, <1>6, <1>8

(* Version v shows the update for the paths it names, and what version     *)
(* v - 1 showed for the others.                                            *)
LEMMA StoreShows ==
  ASSUME NEW table \in SUBSET Row, NEW lo \in Nat \ {0}, NEW u \in Nat, NEW v, v = u + 1,
         NEW update \in Updates, Within(table, lo .. u, u),
         NEW p \in Path
  PROVE  LET stored == StoreContributions(table, update, v) IN
         /\ p \in DOMAIN update => ContributionsAt(stored, v)[p] = {update[p]}
         /\ p \notin DOMAIN update =>
              ContributionsAt(stored, v)[p] = ContributionsAt(table, u)[p]
<1> DEFINE Closed(r) == IF r.path \in DOMAIN update /\ r.to = NULL
                        THEN [r EXCEPT !.to = v - 1] ELSE r
           fresh == {NewRecord(q, v, update[q]) : q \in DOMAIN update}
           stored == {Closed(r) : r \in table} \cup fresh
<1>0. NULL \notin Nat
  BY StoreAssumption
<1>1. \A r \in table : /\ Closed(r).path = r.path
                       /\ Closed(r).contribution = r.contribution
                       /\ r.path \in DOMAIN update => ~Visible(Closed(r), v)
                       /\ r.path \notin DOMAIN update =>
                            (Visible(Closed(r), v) <=> Visible(r, u))
  <2> SUFFICES ASSUME NEW r \in table
               PROVE  /\ Closed(r).path = r.path
                      /\ Closed(r).contribution = r.contribution
                      /\ r.path \in DOMAIN update => ~Visible(Closed(r), v)
                      /\ r.path \notin DOMAIN update =>
                           (Visible(Closed(r), v) <=> Visible(r, u))
    OBVIOUS
  <2>1. /\ r \in Row /\ r.from \in lo .. u
        /\ r.to # NULL => r.to \in lo .. u /\ r.to < u
    BY DEF Within
  <2> QED
    BY <1>0, <2>1 DEF Row, Visible
<1>2. \A r \in fresh : /\ r.path \in DOMAIN update
                       /\ r.contribution = update[r.path]
                       /\ Visible(r, v)
  BY DEF NewRecord, Visible
<1>3. \A q \in DOMAIN update : NewRecord(q, v, update[q]) \in fresh
                                /\ NewRecord(q, v, update[q]).path = q
  BY DEF NewRecord
<1>4. StoreContributions(table, update, v) = stored
  BY DEF StoreContributions, CloseContributionRecords
<1> HIDE DEF Closed, fresh
<1>5. p \in DOMAIN update =>
        {r.contribution : r \in {s \in stored : s.path = p /\ Visible(s, v)}} = {update[p]}
  BY <1>1, <1>2, <1>3
<1>6. p \notin DOMAIN update =>
        {r.contribution : r \in {s \in stored : s.path = p /\ Visible(s, v)}}
          = {r.contribution : r \in {s \in table : s.path = p /\ Visible(s, u)}}
  BY <1>1, <1>2
<1> QED
  BY <1>4, <1>5, <1>6 DEF ContributionsAt

(* Publish is the publication of an update: one new version, the paths of  *)
(* the update replaced, every other path as it was.                        *)
LEMMA PublishRefines ==
  ASSUME StoreInv, NEW update \in Updates, NEW nodes \in SUBSET Node,
         NEW edges \in SUBSET Edge, NEW owners \in SUBSET Path,
         Publish(update, nodes, edges, owners)
  PROVE  History!PublishUpdate
<1>0. PICK v : v = CurrentVersion + 1
  OBVIOUS
<1> DEFINE newRows == StoreContributions(rows, update, v)
           newNodes == workspaceNodes \cup {[version |-> v, node |-> n] : n \in nodes}
           newEdges == workspaceEdges \cup RetainWorkspaceFacts(v, owners)
                                     \cup {[version |-> v, edge |-> e] : e \in edges}
<1>1. TypeOK /\ ContiguousVersions
  BY DEF StoreInv
<1>2. PICK lo \in Nat \ {0} : lo <= v /\ versions = lo .. CurrentVersion
  BY <1>0, <1>1, VersionsAreRun
<1>3. CurrentVersion \in Nat /\ v \in Nat \ {0} /\ CurrentVersion = v - 1
  BY <1>0, <1>1, VersionsAreRun, StoreAssumption
<1>4. v <= MaxVersion /\ RecordVersion(v, newRows, newNodes, newEdges)
  BY <1>0 DEF Publish
<1>5. /\ rows \in SUBSET Row /\ Within(rows, lo .. (v - 1), v - 1) /\ Disjoint(rows)
      /\ workspaceNodes \in SUBSET NodeRow /\ workspaceEdges \in SUBSET EdgeRow
  BY <1>2, <1>3 DEF StoreInv, TypeOK, IntervalsWithinHistory, DisjointIntervals
<1>6. newRows \in SUBSET Row
  BY <1>2, <1>3, <1>5, StoreSound
<1>7. \A w \in versions : ContributionsAt(newRows, w) = ContributionsAt(rows, w)
  BY <1>2, <1>3, <1>5, StoreKeepsOlder
<1>8. /\ newNodes \in SUBSET NodeRow
      /\ \A n : n.version \in versions => (n \in newNodes <=> n \in workspaceNodes)
  BY <1>2, <1>3, <1>5 DEF NodeRow
<1>9. /\ newEdges \in SUBSET EdgeRow
      /\ \A e : e.version \in versions => (e \in newEdges <=> e \in workspaceEdges)
  <2>1. RetainWorkspaceFacts(v, owners) \in SUBSET EdgeRow
    BY <1>3, <1>5 DEF RetainWorkspaceFacts, EdgeRow
  <2>2. \A e \in RetainWorkspaceFacts(v, owners) : e.version = v
    BY DEF RetainWorkspaceFacts
  <2> QED
    BY <1>2, <1>3, <1>5, <2>1, <2>2 DEF EdgeRow
<1>10. \A p \in Path : \/ \E c \in Contribution : ContributionsAt(newRows, v)[p] = {c}
                       \/ ContributionsAt(newRows, v)[p] = ContributionsAt(rows, CurrentVersion)[p]
  <2> SUFFICES ASSUME NEW p \in Path
               PROVE \/ \E c \in Contribution : ContributionsAt(newRows, v)[p] = {c}
                     \/ ContributionsAt(newRows, v)[p] = ContributionsAt(rows, CurrentVersion)[p]
    OBVIOUS
  <2>1. /\ p \in DOMAIN update => ContributionsAt(newRows, v)[p] = {update[p]}
        /\ p \notin DOMAIN update =>
             ContributionsAt(newRows, v)[p] = ContributionsAt(rows, CurrentVersion)[p]
    <3>1. /\ rows \in SUBSET Row /\ CurrentVersion \in Nat /\ v = CurrentVersion + 1
          /\ Within(rows, lo .. CurrentVersion, CurrentVersion)
      BY <1>0, <1>3, <1>5
    <3> QED BY <3>1, StoreShows
  <2>2. p \in DOMAIN update => update[p] \in Contribution
    BY DEF Updates
  <2> HIDE DEF newRows
  <2> QED
    BY <2>1, <2>2
<1> HIDE DEF newRows, newNodes, newEdges
<1>11. /\ History!AddVersion /\ v \in versions'
       /\ ContributionsAt(rows', v) = ContributionsAt(newRows, v)
  BY <1>0, <1>4, <1>6, <1>7, <1>8, <1>9, RecordVersionRefines
<1>12. GraphAt(v)' \in History!Graph
  BY PublishSound, GraphAtTyped DEF StoreInv
<1>13. [w \in versions |-> GraphAt(w)]'[v] = GraphAt(v)'
  BY <1>11
<1>14. GraphAt(v)'.contributions = ContributionsAt(newRows, v)
  BY <1>11 DEF GraphAt, ContributionsAt
<1> QED
  BY <1>0, <1>10, <1>11, <1>12, <1>13, <1>14, MappedHistory
  DEF History!PublishUpdate, History!Replaced, History!Kept

(* Rollback discards the versions after the chosen one. *)
LEMMA RollbackRefines ==
  ASSUME StoreInv, NEW v \in versions, Rollback(v)
  PROVE  History!DiscardAfter(v)
<1>1. versions' = {w \in versions : w <= v}
  BY DEF Rollback
<1>2. \A w \in versions' : GraphAt(w)' = GraphAt(w)
  BY <1>1, StepKeepsGraphs DEF Next
<1>3. [w \in versions |-> GraphAt(w)]'
        = [w \in {x \in versions : x <= v} |-> [u \in versions |-> GraphAt(u)][w]]
  BY <1>1, <1>2
<1> QED
  BY <1>3 DEF History!DiscardAfter

(* Prune discards the versions before the chosen one. *)
LEMMA PruneRefines ==
  ASSUME StoreInv, NEW v \in versions, Prune(v)
  PROVE  History!DiscardBefore(v)
<1>1. versions' = {w \in versions : w >= v}
  BY DEF Prune
<1>2. \A w \in versions' : GraphAt(w)' = GraphAt(w)
  BY <1>1, StepKeepsGraphs DEF Next
<1>3. [w \in versions |-> GraphAt(w)]'
        = [w \in {x \in versions : x >= v} |-> [u \in versions |-> GraphAt(u)][w]]
  BY <1>1, <1>2
<1> QED
  BY <1>3 DEF History!DiscardBefore

(* Every step of the store is a step of the contract. *)
LEMMA StepRefines ==
  ASSUME StoreInv, Next
  PROVE  History!Next
<1>1. ASSUME NEW update \in Updates, NEW nodes \in SUBSET Node,
             NEW edges \in SUBSET Edge, NEW owners \in SUBSET Path,
             Publish(update, nodes, edges, owners)
      PROVE  History!Next
  BY <1>1, PublishRefines DEF History!Next
<1>2. ASSUME NEW v \in versions, Rollback(v) PROVE History!Next
  BY <1>2, RollbackRefines DEF History!Next
<1>3. ASSUME NEW v \in versions, Prune(v) PROVE History!Next
  BY <1>3, PruneRefines DEF History!Next
<1> QED
  BY <1>1, <1>2, <1>3 DEF Next

(* An empty database is an empty history, and a step that leaves the       *)
(* tables alone leaves the history alone.                                  *)
LEMMA InitRefines == Init => History!Init
<1>1. Init => [v \in versions |-> GraphAt(v)] = [v \in {} |-> History!EmptyGraph]
  BY DEF Init
<1> QED
  BY <1>1 DEF History!Init

LEMMA StutterRefines ==
  UNCHANGED storeVars => UNCHANGED [v \in versions |-> GraphAt(v)]
  BY DEF storeVars, GraphAt, ContributionsAt

(* The interval tables implement the storage contract: whatever            *)
(* publications, rollbacks and prunings are applied to them, reading every *)
(* retained version back gives a history in which each step adds one       *)
(* complete version or discards one end.                                   *)
THEOREM StoreImplementsHistory == Spec => ImplementsHistory
<1>1. StoreInv /\ [Next]_storeVars => [History!Next]_[v \in versions |-> GraphAt(v)]
  BY StepRefines, StutterRefines
<1> QED
  BY <1>1, InitRefines, StoreInvariant, PTL DEF Spec, ImplementsHistory, History!Spec
=============================================================================
