---------------------- MODULE ContributionSessionProofs ----------------------
(***************************************************************************)
(* Proofs that contribution sessions and the other writers of a store      *)
(* together keep it sound: a transaction is invisible until it commits,    *)
(* and then adds exactly one version.  What the tables promise is proved   *)
(* in GraphStoreProofs; here it is shown that a session, through all its   *)
(* intermediate states and however it ends, hands RecordVersion tables     *)
(* that keep the promise.                                                  *)
(***************************************************************************)
EXTENDS ContributionSession, GraphStoreProofs

-----------------------------------------------------------------------------
(* The statements a session is made of. *)

(* Closing the records of some paths before version v, when none of them   *)
(* begins at v, keeps a sound history up to v.                             *)
LEMMA CloseSound ==
  ASSUME NEW table \in SUBSET Row, NEW lo \in Nat \ {0}, NEW v \in Nat \ {0}, NEW paths,
         Within(table, lo .. v, v), Disjoint(table),
         \A r \in table : r.path \in paths => r.from # v
  PROVE  LET closed == CloseContributionRecords(table, paths, v - 1)
         IN  /\ closed \in SUBSET Row
             /\ Within(closed, lo .. v, v)
             /\ Disjoint(closed)
<1> DEFINE Ended(r) == IF r.path \in paths /\ r.to = NULL THEN [r EXCEPT !.to = v - 1] ELSE r
<1>0. NULL \notin Nat
  BY StoreAssumption
<1>1. CloseContributionRecords(table, paths, v - 1) = {Ended(r) : r \in table}
  BY DEF CloseContributionRecords
<1>2. ASSUME NEW r \in table
      PROVE  /\ Ended(r) \in Row
             /\ Ended(r).path = r.path /\ Ended(r).from = r.from
             /\ r.from \in lo .. v
             /\ r.to # NULL => Ended(r).to = r.to
             /\ Ended(r).to # NULL =>
                  /\ Ended(r).to \in lo .. v
                  /\ r.from <= Ended(r).to
                  /\ Ended(r).to < v
  <2>1. r \in Row /\ r.from \in lo .. v
    BY DEF Within
  <2>2. r.to # NULL => r.to \in lo .. v /\ r.from <= r.to /\ r.to < v
    BY DEF Within
  <2> QED
    BY <1>0, <2>1, <2>2 DEF Row
<1>3. /\ {Ended(r) : r \in table} \in SUBSET Row
      /\ Within({Ended(r) : r \in table}, lo .. v, v)
  BY <1>2 DEF Within
<1> HIDE DEF Ended
<1>4. Disjoint({Ended(r) : r \in table})
  <2> SUFFICES ASSUME NEW r \in table, NEW s \in table,
                      Ended(r).path = Ended(s).path, Ended(r) # Ended(s)
               PROVE  \/ Ended(r).to # NULL /\ Ended(r).to < Ended(s).from
                      \/ Ended(s).to # NULL /\ Ended(s).to < Ended(r).from
    BY DEF Disjoint
  <2>1. r # s /\ r.path = s.path
    BY <1>2
  <2>2. \/ r.to # NULL /\ r.to < s.from
        \/ s.to # NULL /\ s.to < r.from
    BY <2>1 DEF Disjoint
  <2> QED
    BY <1>2, <2>2
<1> QED
  BY <1>1, <1>3, <1>4 DEF Ended

(* Every record after a closing stems from one with the same path and      *)
(* start; the closed paths have no open record left.                       *)
LEMMA CloseShape ==
  ASSUME NEW table \in SUBSET Row, NEW v \in Nat \ {0}, NEW paths,
         NEW r \in CloseContributionRecords(table, paths, v - 1)
  PROVE  /\ r.path \in paths => r.to # NULL
         /\ \E s \in table : /\ s.path = r.path /\ s.from = r.from
                             /\ r.to = NULL => s.to = NULL
<1>1. PICK s \in table : r = IF s.path \in paths /\ s.to = NULL
                             THEN [s EXCEPT !.to = v - 1] ELSE s
  BY DEF CloseContributionRecords
<1>2. s \in Row /\ NULL \notin Nat
  BY StoreAssumption
<1> QED
  BY <1>1, <1>2 DEF Row

(* It changes nothing of what an older version w shows. *)
LEMMA CloseKeepsOlder ==
  ASSUME NEW table \in SUBSET Row, NEW v \in Nat \ {0}, NEW w \in Nat, w < v, NEW paths
  PROVE  ContributionsAt(CloseContributionRecords(table, paths, v - 1), w)
           = ContributionsAt(table, w)
<1> DEFINE Ended(r) == IF r.path \in paths /\ r.to = NULL THEN [r EXCEPT !.to = v - 1] ELSE r
           closed == {Ended(r) : r \in table}
<1>0. NULL \notin Nat
  BY StoreAssumption
<1>1. CloseContributionRecords(table, paths, v - 1) = closed
  BY DEF CloseContributionRecords
<1>2. ASSUME NEW r \in table
      PROVE  /\ Ended(r).path = r.path /\ Ended(r).contribution = r.contribution
             /\ Visible(Ended(r), w) <=> Visible(r, w)
  BY <1>0 DEF Row, Visible
<1> HIDE DEF Ended
<1>3. ASSUME NEW p \in Path
      PROVE  {r.contribution : r \in {s \in closed : s.path = p /\ Visible(s, w)}}
           = {r.contribution : r \in {s \in table : s.path = p /\ Visible(s, w)}}
  BY <1>2
<1> QED
  BY <1>1, <1>3 DEF ContributionsAt

(* At v itself it removes the closed paths and nothing else. *)
LEMMA CloseShows ==
  ASSUME NEW table \in SUBSET Row, NEW lo \in Nat \ {0}, NEW v \in Nat \ {0}, NEW paths,
         Within(table, lo .. v, v), NEW p \in Path
  PROVE  LET closed == CloseContributionRecords(table, paths, v - 1)
         IN  /\ p \in paths => ContributionsAt(closed, v)[p] = {}
             /\ p \notin paths => ContributionsAt(closed, v)[p] = ContributionsAt(table, v)[p]
<1> DEFINE Ended(r) == IF r.path \in paths /\ r.to = NULL THEN [r EXCEPT !.to = v - 1] ELSE r
           closed == {Ended(r) : r \in table}
<1>0. NULL \notin Nat
  BY StoreAssumption
<1>1. CloseContributionRecords(table, paths, v - 1) = closed
  BY DEF CloseContributionRecords
<1>2. ASSUME NEW r \in table
      PROVE  /\ Ended(r).path = r.path
             /\ r.path \in paths => ~Visible(Ended(r), v)
             /\ r.path \notin paths => Ended(r) = r
  <2>1. r \in Row /\ (r.to # NULL => r.to \in lo .. v /\ r.to < v)
    BY DEF Within
  <2> QED
    BY <1>0, <2>1 DEF Row, Visible
<1> HIDE DEF Ended
<1>3. p \in paths => {s \in closed : s.path = p /\ Visible(s, v)} = {}
  BY <1>2
<1>4. p \notin paths => {s \in closed : s.path = p /\ Visible(s, v)}
                         = {s \in table : s.path = p /\ Visible(s, v)}
  BY <1>2
<1> QED
  BY <1>1, <1>3, <1>4 DEF ContributionsAt

(* A new record of a path without open records keeps the history sound,    *)
(* and is invisible to the older versions.                                 *)
LEMMA NewRecordSound ==
  ASSUME NEW table \in SUBSET Row, NEW lo \in Nat \ {0}, NEW v \in Nat \ {0}, lo <= v,
         Within(table, lo .. v, v), Disjoint(table),
         NEW p \in Path, NEW c \in Contribution,
         \A r \in table : r.path = p => r.to # NULL
  PROVE  LET added == table \cup {NewRecord(p, v, c)}
         IN  /\ added \in SUBSET Row
             /\ Within(added, lo .. v, v)
             /\ Disjoint(added)
<1> DEFINE n == NewRecord(p, v, c)
<1>0. NULL \notin Nat
  BY StoreAssumption
<1>1. n \in Row /\ n.path = p /\ n.from = v /\ n.to = NULL
  BY DEF NewRecord, Row
<1> HIDE DEF n
<1>2. Within(table \cup {n}, lo .. v, v)
  BY <1>1 DEF Within
<1>3. \A r \in table : r.path = p => r.to # NULL /\ r.to < v
  BY DEF Within
<1>4. Disjoint(table \cup {n})
  BY <1>1, <1>3 DEF Disjoint
<1> QED
  BY <1>1, <1>2, <1>4 DEF n

LEMMA NewRecordKeepsOlder ==
  ASSUME NEW table, NEW v \in Nat, NEW w \in Nat, w < v, NEW p, NEW c
  PROVE  ContributionsAt(table \cup {NewRecord(p, v, c)}, w) = ContributionsAt(table, w)
<1>1. ~Visible(NewRecord(p, v, c), w)
  BY DEF Visible, NewRecord
<1>2. \A q \in Path : {s \in table \cup {NewRecord(p, v, c)} : s.path = q /\ Visible(s, w)}
                    = {s \in table : s.path = q /\ Visible(s, w)}
  BY <1>1
<1> QED
  BY <1>2 DEF ContributionsAt
-----------------------------------------------------------------------------
(* The invariant. *)

(* The history a live transaction works on, with its pending version.      *)
LEMMA TransactionRun ==
  ASSUME StoreInv, SessionInv, tx.alive
  PROVE  /\ session.pending \in Nat \ {0} /\ session.pending <= MaxVersion
         /\ session.pending = CurrentVersion + 1
         /\ \E lo \in Nat \ {0} :
              /\ lo <= session.pending
              /\ versions = lo .. (session.pending - 1)
              /\ versions \cup {session.pending} = lo .. session.pending
              /\ session.pending - 1 - lo < Retained
<1>0. MaxVersion \in Nat /\ Retained \in Nat \ {0}
  BY StoreAssumption
<1>1. TypeOK /\ ContiguousVersions
  BY DEF StoreInv
<1>2. PICK lo \in Nat \ {0} : lo <= CurrentVersion + 1 /\ versions = lo .. CurrentVersion
  BY <1>1, VersionsAreRun
<1>3. CurrentVersion \in Nat
  BY <1>0, <1>1, VersionsAreRun
<1>4. session.pending = CurrentVersion + 1 /\ session.pending <= MaxVersion
  BY DEF SessionInv, SoundTransaction
<1>5. session.pending - 1 - lo < Retained
  BY <1>0, <1>2, <1>3, <1>4 DEF StoreInv, RetentionLimit
<1> QED
  BY <1>2, <1>3, <1>4, <1>5

(* The parts of the state a live transaction is made of. *)
LEMMA TransactionParts ==
  ASSUME SessionInv, tx.alive
  PROVE  /\ tx.rows \in SUBSET Row /\ session.batch \in SUBSET Row
         /\ tx.nodes \in SUBSET NodeRow /\ tx.edges \in SUBSET EdgeRow
         /\ tx.sources \in SUBSET SourceRow
         /\ Disjoint(tx.rows \cup session.batch)
         /\ Within(tx.rows \cup session.batch, versions \cup {session.pending}, session.pending)
  BY DEF SessionInv, SessionTypeOK, Session, Transaction, SoundTransaction

(* The tables a commit hands to RecordVersion: what the transaction wrote, *)
(* with the sources it did not stage closed.  They are a sound history up  *)
(* to the pending version, show the older versions as they were, and show  *)
(* exactly the staged sources at the pending one.                          *)
LEMMA CommitTables ==
  ASSUME StoreInv, SessionInv, tx.alive, NEW lo \in Nat \ {0}, lo <= session.pending,
         versions = lo .. (session.pending - 1),
         versions \cup {session.pending} = lo .. session.pending
  PROVE  LET table == tx.rows \cup session.batch
             closed == CloseMissingSources(table)
         IN  /\ closed \in SUBSET Row
             /\ Within(closed, lo .. session.pending, session.pending)
             /\ Disjoint(closed)
             /\ \A w \in versions : ContributionsAt(closed, w) = ContributionsAt(rows, w)
             /\ \A p \in Path : ContributionsAt(closed, session.pending)[p]
                  = IF p \in Staged THEN ContributionsAt(table, session.pending)[p] ELSE {}
<1> DEFINE table == tx.rows \cup session.batch
           v == session.pending
           closed == CloseMissingSources(table)
           paths == Path \ Staged
<1>0. v \in Nat \ {0}
  BY TransactionRun
<1>1. /\ table \in SUBSET Row /\ Disjoint(table)
      /\ Within(table, lo .. v, v)
  BY TransactionParts
<1>2. \A w \in versions : w \in Nat /\ w < v /\ ContributionsAt(table, w) = ContributionsAt(rows, w)
  <2>1. \A w \in versions : ContributionsAt(table, w) = ContributionsAt(rows, w)
    BY DEF SessionInv, TransactionKeepsHistory
  <2>2. \A w \in versions : w \in Nat /\ w < v
    BY <1>0
  <2> QED
    BY <2>1, <2>2
<1>3. Written \subseteq Staged
  BY DEF Written, Staged
<1>4. \A r \in table : r.from = v => r.path \in Staged
  BY <1>3 DEF SessionInv, SourcesMatchRows
<1>5. CASE session.missingSourcesClosed \/ session.pending = 1
  <2>1. closed = table
    BY <1>5 DEF CloseMissingSources
  <2>2. \A r \in table : r.to = NULL => r.path \in Staged
    <3>1. CASE session.missingSourcesClosed
      BY <3>1 DEF SessionInv, SourcesMatchRows
    <3>2. CASE session.pending = 1
      <4>1. \A r \in table : r.from = v
        BY <1>0, <1>1, <3>2 DEF Within
      <4> QED
        BY <1>4, <4>1
    <3> QED
      BY <1>5, <3>1, <3>2
  <2>3. \A r \in table : Visible(r, v) => r.to = NULL
    <3> SUFFICES ASSUME NEW r \in table, Visible(r, v), r.to # NULL PROVE FALSE
      OBVIOUS
    <3>1. r.to \in lo .. v /\ r.to < v
      BY <1>1 DEF Within
    <3> QED
      BY <1>0, <3>1 DEF Visible
  <2>4. ASSUME NEW p \in Path
        PROVE  ContributionsAt(table, v)[p]
                 = IF p \in Staged THEN ContributionsAt(table, v)[p] ELSE {}
    <3>1. p \notin Staged => {s \in table : s.path = p /\ Visible(s, v)} = {}
      BY <2>2, <2>3
    <3> QED
      BY <3>1 DEF ContributionsAt
  <2> QED
    BY <1>1, <1>2, <2>1, <2>4
<1>6. CASE ~(session.missingSourcesClosed \/ session.pending = 1)
  <2>1. closed = CloseContributionRecords(table, paths, v - 1)
    BY <1>6 DEF CloseMissingSources
  <2> HIDE DEF table, v, paths, closed
  <2>2. \A r \in table : r.path \in paths => r.from # v
    BY <1>4 DEF paths
  <2>3. closed \in SUBSET Row /\ Within(closed, lo .. v, v) /\ Disjoint(closed)
    BY <1>0, <1>1, <2>1, <2>2, CloseSound
  <2>4. \A w \in versions : ContributionsAt(closed, w) = ContributionsAt(rows, w)
    BY <1>0, <1>1, <1>2, <2>1, CloseKeepsOlder
  <2>5. \A p \in Path : ContributionsAt(closed, v)[p]
                         = IF p \in Staged THEN ContributionsAt(table, v)[p] ELSE {}
    <3>1. ASSUME NEW p \in Path
          PROVE  /\ p \in paths => ContributionsAt(closed, v)[p] = {}
                 /\ p \notin paths => ContributionsAt(closed, v)[p] = ContributionsAt(table, v)[p]
      BY <1>0, <1>1, <2>1, CloseShows
    <3> QED
      BY <3>1 DEF paths
  <2> QED
    BY <2>3, <2>4, <2>5 DEF table, v, closed
<1> QED
  BY <1>5, <1>6

(* Whatever version a commit publishes, the store stays sound, and the     *)
(* step adds one version to the abstract history.                          *)
LEMMA CommitSound ==
  ASSUME StoreInv, SessionInv, Commit
  PROVE  /\ StoreInv'
         /\ History!PublishSession
         /\ session.pending \in versions'
         /\ ContributionsAt(rows', session.pending)
              = ContributionsAt(CloseMissingSources(tx.rows \cup session.batch), session.pending)
<1>1. tx.alive
  BY DEF Commit
<1>2. PICK lo \in Nat \ {0} : /\ lo <= session.pending
                              /\ versions = lo .. (session.pending - 1)
                              /\ versions \cup {session.pending} = lo .. session.pending
                              /\ session.pending - 1 - lo < Retained
  BY <1>1, TransactionRun
<1>3. PICK v : v = session.pending
  OBVIOUS
<1>4. PICK closed : closed = CloseMissingSources(tx.rows \cup session.batch)
  OBVIOUS
<1>5. v \in Nat \ {0} /\ v <= MaxVersion /\ v = CurrentVersion + 1
  BY <1>1, <1>3, TransactionRun
<1>6. /\ closed \in SUBSET Row
      /\ Within(closed, lo .. v, v)
      /\ Disjoint(closed)
      /\ \A w \in versions : ContributionsAt(closed, w) = ContributionsAt(rows, w)
  BY <1>1, <1>2, <1>3, <1>4, CommitTables
<1>7. /\ tx.nodes \in SUBSET NodeRow
      /\ \A n \in tx.nodes : n.version \in lo .. v
      /\ \A n : n.version \in versions => (n \in tx.nodes <=> n \in workspaceNodes)
  <2>1. {n \in tx.nodes : n.version # v} = workspaceNodes
    BY <1>1, <1>3 DEF SessionInv, TransactionKeepsHistory
  <2>2. \A n \in workspaceNodes : n.version \in versions
    BY DEF StoreInv, WorkspaceFactsWithinHistory
  <2> QED
    BY <1>1, <1>2, <1>3, <1>5, <2>1, <2>2, TransactionParts
<1>8. /\ tx.edges \in SUBSET EdgeRow
      /\ \A e \in tx.edges : e.version \in lo .. v
      /\ \A e : e.version \in versions => (e \in tx.edges <=> e \in workspaceEdges)
  <2>1. {e \in tx.edges : e.version # v} = workspaceEdges
    BY <1>1, <1>3 DEF SessionInv, TransactionKeepsHistory
  <2>2. \A e \in workspaceEdges : e.version \in versions
    BY DEF StoreInv, WorkspaceFactsWithinHistory
  <2> QED
    BY <1>1, <1>2, <1>3, <1>5, <2>1, <2>2, TransactionParts
<1>9. RecordVersion(v, closed, tx.nodes, tx.edges)
  BY <1>3, <1>4 DEF Commit
<1>10. StoreInv'
  BY <1>2, <1>3, <1>5, <1>6, <1>7, <1>8, <1>9, RecordVersionSound
<1>11. /\ History!AddVersion
       /\ v \in versions'
       /\ ContributionsAt(rows', v) = ContributionsAt(closed, v)
  BY <1>5, <1>6, <1>7, <1>8, <1>9, RecordVersionRefines
<1>12. GraphAt(v)' \in History!Graph
  BY <1>10, GraphAtTyped DEF StoreInv
<1>13. [w \in versions |-> GraphAt(w)]'[v] = GraphAt(v)'
  BY <1>11
<1>14. GraphAt(v)'.contributions = ContributionsAt(closed, v)
  BY <1>11 DEF GraphAt, ContributionsAt
<1>15. ASSUME NEW p \in Path
       PROVE  \/ \E c \in Contribution : ContributionsAt(closed, v)[p] = {c}
              \/ ContributionsAt(closed, v)[p] = {}
  <2> DEFINE shown == {s \in closed : s.path = p /\ Visible(s, v)}
  <2>1. ContributionsAt(closed, v)[p] = {r.contribution : r \in shown}
    BY DEF ContributionsAt
  <2>2. \A r \in shown : r \in Row /\ r.contribution \in Contribution
    BY <1>6 DEF Row
  <2>3. \A r, s \in shown : r = s
    <3> SUFFICES ASSUME NEW r \in shown, NEW s \in shown, r # s PROVE FALSE
      OBVIOUS
    <3>1. \/ r.to # NULL /\ r.to < s.from
          \/ s.to # NULL /\ s.to < r.from
      BY <1>6 DEF Disjoint
    <3>2. r \in Row /\ s \in Row /\ NULL \notin Nat
      BY <2>2, StoreAssumption
    <3> QED
      BY <1>5, <3>1, <3>2 DEF Visible, Row
  <2> HIDE DEF shown
  <2> QED
    BY <2>1, <2>2, <2>3
<1>16. History!PublishSession
  BY <1>5, <1>11, <1>12, <1>13, <1>14, <1>15, MappedHistory
  DEF History!PublishSession, History!Replaced, History!Kept, History!Removed
<1> QED
  BY <1>3, <1>4, <1>10, <1>11, <1>16
(* Outside a transaction there is nothing to keep but the types and the    *)
(* empty temporary table.                                                  *)
LEMMA NoTransactionSound ==
  ASSUME TypeOK', session' \in Session, tx' \in Transaction, ~tx'.alive,
         sessionSources' = {}
  PROVE  SessionInv'
<1>1. SessionTypeOK'
  BY DEF SessionTypeOK
<1> QED
  BY <1>1 DEF SessionInv, SoundTransaction, TransactionKeepsHistory, SourcesMatchRows,
      NoStaleStagedSources

(* A session that ends with an error or a rollback, and a transaction lost *)
(* to a cancelled context.                                                 *)
LEMMA EndingSound ==
  ASSUME StoreInv, SessionInv, Fail \/ RollbackSession \/ ContextCancelled
  PROVE  SessionInv'
<1>1. Closed \in Session /\ NoTransaction \in Transaction /\ ~NoTransaction.alive
  BY DEF Closed, NewSession, Session, NoTransaction, Transaction
<1>2. TypeOK' /\ session' \in Session /\ tx' = NoTransaction /\ sessionSources' = {}
  BY <1>1 DEF Fail, RollbackSession, ContextCancelled, SessionInv, SessionTypeOK,
      NoStaleStagedSources, TypeOK, storeVars
<1> QED
  BY <1>1, <1>2, NoTransactionSound

(* A session begins with a copy of the store. *)
LEMMA BeginSound ==
  ASSUME StoreInv, SessionInv, BeginContributionSession
  PROVE  SessionInv'
<1>0. MaxVersion \in Nat /\ TypeOK /\ ContiguousVersions
  BY StoreAssumption DEF StoreInv
<1>1. PICK lo \in Nat \ {0} : lo <= CurrentVersion + 1 /\ versions = lo .. CurrentVersion
  BY <1>0, VersionsAreRun
<1>2. CurrentVersion \in Nat
  BY <1>0, VersionsAreRun
<1>3. /\ session' = NewSession(CurrentVersion + 1)
      /\ tx' = [alive |-> TRUE, rows |-> rows, nodes |-> workspaceNodes,
                edges |-> workspaceEdges, sources |-> {}]
      /\ versions' = versions /\ rows' = rows /\ workspaceNodes' = workspaceNodes
      /\ workspaceEdges' = workspaceEdges /\ sessionSources' = {}
      /\ CurrentVersion < MaxVersion
  BY DEF BeginContributionSession, storeVars, SessionInv, NoStaleStagedSources
<1>4. CurrentVersion' = CurrentVersion
  BY <1>3 DEF CurrentVersion
<1>5. /\ session'.open /\ session'.pending = CurrentVersion + 1 /\ session'.batch = {}
      /\ ~session'.sealed /\ ~session'.missingSourcesClosed
      /\ tx'.rows \cup session'.batch = rows
      /\ session' \in Session
  <2>1. (CurrentVersion + 1 > 0) = TRUE
    BY <1>2
  <2>2. session' = [open |-> TRUE, pending |-> CurrentVersion + 1, batch |-> {},
                    sealed |-> FALSE, missingSourcesClosed |-> FALSE,
                    factsWritten |-> FALSE, factsSealed |-> FALSE]
    BY <1>3, <2>1 DEF NewSession
  <2>3. CurrentVersion + 1 \in Nat
    BY <1>2
  <2>4. session' \in Session
    BY <2>2, <2>3 DEF Session
  <2>5. session'.open = TRUE /\ session'.sealed = FALSE /\ session'.missingSourcesClosed = FALSE
    BY <2>2
  <2>6. session'.pending = CurrentVersion + 1 /\ session'.batch = {}
    BY <2>2
  <2>7. tx'.rows = rows
    BY <1>3
  <2> QED
    BY <2>4, <2>5, <2>6, <2>7
<1>6. tx' \in Transaction
  BY <1>0, <1>3 DEF Transaction, TypeOK
<1>7. SessionTypeOK'
  BY <1>0, <1>3, <1>5, <1>6 DEF SessionTypeOK, TypeOK
<1>8. SoundTransaction'
  <2>1. Disjoint(rows) /\ Within(rows, versions, CurrentVersion)
    BY DEF StoreInv, DisjointIntervals, IntervalsWithinHistory
  <2>2. Within(rows, versions \cup {CurrentVersion + 1}, CurrentVersion + 1)
    BY <1>0, <1>1, <1>2, <2>1 DEF Within
  <2> QED
    BY <1>0, <1>2, <1>3, <1>4, <1>5, <2>1, <2>2 DEF SoundTransaction
<1>9. TransactionKeepsHistory'
  <2>1. /\ \A n \in workspaceNodes : n.version # CurrentVersion + 1
        /\ \A e \in workspaceEdges : e.version # CurrentVersion + 1
    BY <1>1, <1>2 DEF StoreInv, WorkspaceFactsWithinHistory
  <2> QED
    BY <1>3, <1>5, <2>1 DEF TransactionKeepsHistory
<1>10. SourcesMatchRows'
  <2>1. \A r \in rows : r.from # CurrentVersion + 1
    BY <1>1, <1>2 DEF StoreInv, IntervalsWithinHistory, Within
  <2> QED
    BY <1>3, <1>5, <2>1 DEF SourcesMatchRows
<1> QED
  BY <1>3, <1>7, <1>8, <1>9, <1>10 DEF SessionInv, NoStaleStagedSources
(* What an operation inside a transaction has to show for the invariant.   *)
LEMMA InsideSound ==
  ASSUME StoreInv, SessionInv, tx.alive, UNCHANGED <<storeVars, sessionSources>>,
         session' \in Session, tx' \in Transaction, tx'.alive,
         session'.open, session'.pending = session.pending,
         {n \in tx'.nodes : n.version # session.pending} = workspaceNodes,
         {e \in tx'.edges : e.version # session.pending} = workspaceEdges,
         NEW table, table = tx'.rows \cup session'.batch,
         Disjoint(table),
         Within(table, versions \cup {session.pending}, session.pending),
         \A v \in versions : ContributionsAt(table, v) = ContributionsAt(rows, v),
         SourcesMatchRows'
  PROVE  SessionInv'
<1>1. /\ versions' = versions /\ rows' = rows /\ workspaceNodes' = workspaceNodes
      /\ workspaceEdges' = workspaceEdges /\ sessionSources' = {}
  BY DEF storeVars, SessionInv, NoStaleStagedSources
<1>2. CurrentVersion' = CurrentVersion
  BY <1>1 DEF CurrentVersion
<1>3. SessionTypeOK'
  BY <1>1 DEF SessionTypeOK, SessionInv, TypeOK
<1>4. SoundTransaction'
  BY <1>1, <1>2 DEF SoundTransaction, SessionInv
<1>5. TransactionKeepsHistory'
  BY <1>1 DEF TransactionKeepsHistory
<1> QED
  BY <1>1, <1>3, <1>4, <1>5 DEF SessionInv, NoStaleStagedSources

(* Staging a source touches the temporary table only. *)
LEMMA StageSound ==
  ASSUME StoreInv, SessionInv, NEW p \in Path, StageSource(p)
  PROVE  SessionInv'
<1> DEFINE staged == [version |-> session.pending, path |-> p, written |-> FALSE]
<1>1. tx.alive /\ session.open /\ ~session.sealed /\ p \notin Staged /\ session' = session
      /\ UNCHANGED <<storeVars, sessionSources>>
  BY DEF StageSource
<1>2. session \in Session /\ tx \in Transaction
  BY DEF SessionInv, SessionTypeOK
<1>3. /\ tx'.alive /\ tx'.rows = tx.rows /\ tx'.nodes = tx.nodes /\ tx'.edges = tx.edges
      /\ tx'.sources = tx.sources \cup {staged}
      /\ tx' \in Transaction
  <2>1. staged \in SourceRow
    BY <1>2 DEF SourceRow, Session
  <2>2. tx' = [tx EXCEPT !.sources = tx.sources \cup {staged}]
    BY DEF StageSource
  <2> HIDE DEF staged
  <2> QED
    BY <1>1, <1>2, <2>1, <2>2 DEF Transaction
<1>4. staged.version = session.pending /\ staged.path = p
  OBVIOUS
<1> HIDE DEF staged
<1>5. \A s \in tx.sources : s.version = session.pending /\ s.path # p
  <2>1. \A s \in tx.sources : s.version = session.pending
    BY <1>1 DEF SessionInv, SourcesMatchRows
  <2> QED
    BY <1>1, <2>1 DEF Staged
<1>6. Written \subseteq Written'
  BY <1>1, <1>3 DEF Written
<1>7. SourcesMatchRows'
  <2>1. \A s \in tx'.sources : s.version = session'.pending
    BY <1>1, <1>3, <1>4, <1>5
  <2>2. \A s, t \in tx'.sources : s.path = t.path => s = t
    BY <1>1, <1>3, <1>4, <1>5 DEF SessionInv, SourcesMatchRows
  <2>3. \A r \in tx'.rows \cup session'.batch : r.from = session'.pending => r.path \in Written'
    BY <1>1, <1>3, <1>6 DEF SessionInv, SourcesMatchRows
  <2>4. /\ \A r \in session'.batch : r.from = session'.pending
        /\ ~session'.sealed /\ ~session'.missingSourcesClosed
    BY <1>1, <1>3 DEF SessionInv, SourcesMatchRows
  <2> QED
    BY <2>1, <2>2, <2>3, <2>4 DEF SourcesMatchRows
<1>8. /\ Disjoint(tx'.rows \cup session'.batch)
      /\ Within(tx'.rows \cup session'.batch, versions \cup {session.pending}, session.pending)
  BY <1>1, <1>3, TransactionParts
<1>9. /\ \A v \in versions : ContributionsAt(tx'.rows \cup session'.batch, v) = ContributionsAt(rows, v)
      /\ {n \in tx'.nodes : n.version # session.pending} = workspaceNodes
      /\ {e \in tx'.edges : e.version # session.pending} = workspaceEdges
  BY <1>1, <1>3 DEF SessionInv, TransactionKeepsHistory
<1> QED
  BY <1>1, <1>2, <1>3, <1>7, <1>8, <1>9, InsideSound

(* Writing a contribution closes the record of its source and puts the new *)
(* one in the batch or, with what was batched, in the table.               *)
LEMMA WriteSound ==
  ASSUME StoreInv, SessionInv, NEW p \in Path, NEW c \in Contribution, WriteContribution(p, c)
  PROVE  SessionInv'
<1>0. PICK v : v = session.pending
  OBVIOUS
<1> DEFINE row == NewRecord(p, v, c)
           staged == [version |-> v, path |-> p, written |-> FALSE]
           written == [version |-> v, path |-> p, written |-> TRUE]
           closed == IF v > 1 THEN CloseContributionRecords(tx.rows, {p}, v - 1) ELSE tx.rows
<1>1. tx.alive /\ session.open /\ ~session.sealed /\ staged \in tx.sources
      /\ UNCHANGED <<storeVars, sessionSources>>
  BY <1>0 DEF WriteContribution
<1>2. session \in Session /\ tx \in Transaction
  BY DEF SessionInv, SessionTypeOK
<1>3. PICK lo \in Nat \ {0} : /\ lo <= v
                              /\ versions = lo .. (v - 1)
                              /\ versions \cup {v} = lo .. v
  BY <1>0, <1>1, TransactionRun
<1>4. v \in Nat \ {0}
  BY <1>0, <1>1, TransactionRun
<1>5. /\ tx.rows \in SUBSET Row /\ session.batch \in SUBSET Row
      /\ Disjoint(tx.rows \cup session.batch)
      /\ Within(tx.rows \cup session.batch, lo .. v, v)
  BY <1>0, <1>1, <1>3, TransactionParts
<1>6. PICK flushed \in Flushes(row) :
         /\ tx' = [tx EXCEPT !.rows = closed \cup flushed,
                             !.sources = (tx.sources \ {staged}) \cup {written}]
         /\ session' = [session EXCEPT !.batch = (session.batch \cup {row}) \ flushed]
  BY <1>0 DEF WriteContribution
<1>7. flushed \subseteq session.batch \cup {row}
  BY DEF Flushes
<1>8. row \in Row /\ row.path = p /\ row.from = v
  BY <1>4 DEF NewRecord, Row
<1>9. \A r \in tx.rows \cup session.batch : r.path = p => r.from # v
  <2>1. p \notin Written
    BY <1>0, <1>1 DEF SessionInv, SourcesMatchRows, Written
  <2> QED
    BY <1>0, <1>1, <2>1 DEF SessionInv, SourcesMatchRows
<1>10. /\ closed \in SUBSET Row
       /\ \A r \in closed : \E s \in tx.rows : s.path = r.path /\ s.from = r.from
       /\ closed \cup session.batch = IF v > 1
            THEN CloseContributionRecords(tx.rows \cup session.batch, {p}, v - 1)
            ELSE tx.rows \cup session.batch
  <2>1. \A r \in session.batch : r.path # p
    BY <1>0, <1>1, <1>9 DEF SessionInv, SourcesMatchRows
  <2>2. v > 1 => CloseContributionRecords(tx.rows \cup session.batch, {p}, v - 1)
                   = closed \cup session.batch
    BY <2>1 DEF CloseContributionRecords
  <2>3. v > 1 => closed \in SUBSET Row
    BY <1>4, <1>5 DEF CloseContributionRecords, Row
  <2>4. v > 1 => \A r \in closed : \E s \in tx.rows : s.path = r.path /\ s.from = r.from
    BY <1>4, <1>5, CloseShape
  <2> QED
    BY <1>5, <2>2, <2>3, <2>4
<1> HIDE DEF closed
<1> DEFINE older == closed \cup session.batch
<1>11. /\ older \in SUBSET Row /\ Disjoint(older) /\ Within(older, lo .. v, v)
       /\ \A r \in older : r.path = p => r.to # NULL
       /\ \A w \in versions : ContributionsAt(older, w) = ContributionsAt(rows, w)
  <2>1. \A w \in versions : ContributionsAt(tx.rows \cup session.batch, w) = ContributionsAt(rows, w)
    BY <1>1 DEF SessionInv, TransactionKeepsHistory
  <2>2. \A w \in versions : w \in Nat /\ w < v
    BY <1>3, <1>4
  <2>3. CASE v > 1
    <3> DEFINE table == tx.rows \cup session.batch
    <3>1. older = CloseContributionRecords(table, {p}, v - 1) /\ table \in SUBSET Row
      BY <1>5, <1>10, <2>3
    <3> HIDE DEF older, table
    <3>2. /\ \A r \in table : r.path \in {p} => r.from # v
          /\ Disjoint(table) /\ Within(table, lo .. v, v)
      BY <1>5, <1>9 DEF table
    <3>3. older \in SUBSET Row /\ Disjoint(older) /\ Within(older, lo .. v, v)
      BY <1>4, <3>1, <3>2, CloseSound
    <3>4. \A r \in older : r.path = p => r.to # NULL
      BY <1>4, <3>1, CloseShape
    <3>5. \A w \in versions : ContributionsAt(older, w) = ContributionsAt(table, w)
      BY <1>4, <2>2, <3>1, CloseKeepsOlder
    <3> QED
      BY <2>1, <3>3, <3>4, <3>5 DEF table
  <2>4. CASE ~(v > 1)
    <3>1. older = tx.rows \cup session.batch
      BY <1>10, <2>4
    <3>2. \A r \in older : r.from = v
      BY <1>4, <1>5, <2>4, <3>1 DEF Within
    <3> QED
      BY <1>5, <1>9, <2>1, <3>1, <3>2
  <2> QED
    BY <2>3, <2>4
<1>12. /\ tx'.alive /\ tx'.rows = closed \cup flushed /\ tx'.nodes = tx.nodes
       /\ tx'.edges = tx.edges /\ tx'.sources = (tx.sources \ {staged}) \cup {written}
       /\ session'.batch = (session.batch \cup {row}) \ flushed
       /\ session'.open /\ session'.pending = v /\ ~session'.sealed
       /\ session'.missingSourcesClosed = session.missingSourcesClosed
       /\ tx' \in Transaction /\ session' \in Session
  <2>1. written \in SourceRow
    BY <1>4 DEF SourceRow
  <2>2. closed \cup flushed \in SUBSET Row /\ (session.batch \cup {row}) \ flushed \in SUBSET Row
    BY <1>5, <1>7, <1>8, <1>10
  <2>3. (tx.sources \ {staged}) \cup {written} \in SUBSET SourceRow
    BY <1>2, <2>1 DEF Transaction
  <2> HIDE DEF row, staged, written
  <2> QED
    BY <1>0, <1>1, <1>2, <1>6, <2>2, <2>3 DEF Transaction, Session
<1>13. tx'.rows \cup session'.batch = older \cup {row}
  BY <1>7, <1>12
<1> DEFINE table == older \cup {row}
<1>14. /\ table \in SUBSET Row /\ Within(table, lo .. v, v) /\ Disjoint(table)
       /\ \A w \in versions : ContributionsAt(table, w) = ContributionsAt(rows, w)
  <2>1. \A w \in versions : w \in Nat /\ w < v
    BY <1>3, <1>4
  <2> HIDE DEF older
  <2>2. table \in SUBSET Row /\ Within(table, lo .. v, v) /\ Disjoint(table)
    BY <1>3, <1>4, <1>11, NewRecordSound
  <2>3. \A w \in versions : ContributionsAt(table, w) = ContributionsAt(older, w)
    BY <1>4, <2>1, NewRecordKeepsOlder
  <2> HIDE DEF table
  <2> QED
    BY <1>11, <2>2, <2>3
<1>15. SourcesMatchRows'
  <2>1. /\ \A s \in tx.sources : s.version = v
        /\ \A s, t \in tx.sources : s.path = t.path => s = t
        /\ ~session.missingSourcesClosed
    BY <1>0, <1>1 DEF SessionInv, SourcesMatchRows
  <2>2. staged.path = p /\ written.path = p /\ written.version = v /\ written.written
    OBVIOUS
  <2>3. Written' = Written \cup {p}
    <3>1. Written = {s.path : s \in {t \in tx.sources : t.written}}
      BY <1>0, <2>1 DEF Written
    <3>2. Written' = {s.path : s \in {t \in tx'.sources : t.written}}
      BY <1>12, <2>1, <2>2 DEF Written
    <3>3. ~staged.written
      OBVIOUS
    <3> HIDE DEF staged, written
    <3> QED
      BY <1>12, <2>2, <3>1, <3>2, <3>3
  <2> HIDE DEF staged, written, row, older
  <2>4. /\ \A s \in tx'.sources : s.version = session'.pending
        /\ \A s, t \in tx'.sources : s.path = t.path => s = t
    BY <1>1, <1>12, <2>1, <2>2
  <2>5. \A r \in tx'.rows \cup session'.batch : r.from = session'.pending => r.path \in Written'
    BY <1>0, <1>1, <1>8, <1>10, <1>12, <1>13, <2>3 DEF SessionInv, SourcesMatchRows, older
  <2>6. \A r \in session'.batch : r.from = session'.pending
    BY <1>0, <1>1, <1>8, <1>12 DEF SessionInv, SourcesMatchRows
  <2> QED
    BY <1>12, <2>1, <2>4, <2>5, <2>6 DEF SourcesMatchRows
<1>16. /\ {n \in tx'.nodes : n.version # session.pending} = workspaceNodes
       /\ {e \in tx'.edges : e.version # session.pending} = workspaceEdges
  BY <1>1, <1>12 DEF SessionInv, TransactionKeepsHistory
<1> HIDE DEF row, older, staged, written
<1> QED
  BY <1>0, <1>1, <1>3, <1>12, <1>13, <1>14, <1>15, <1>16, InsideSound

(* Sealing moves the batch into the table; without a transaction there is  *)
(* no batch to move.                                                       *)
LEMMA SealSound ==
  ASSUME StoreInv, SessionInv, SealContributions
  PROVE  SessionInv'
<1>1. session \in Session /\ tx \in Transaction /\ TypeOK
  BY DEF SessionInv, SessionTypeOK
<1>2. /\ session.open /\ ~session.sealed /\ UNCHANGED <<storeVars, sessionSources>>
      /\ tx' = [tx EXCEPT !.rows = tx.rows \cup session.batch]
      /\ session' = [session EXCEPT !.batch = {}, !.sealed = TRUE]
  BY DEF SealContributions
<1>3. /\ tx' \in Transaction /\ tx'.alive = tx.alive /\ tx'.rows = tx.rows \cup session.batch
      /\ tx'.nodes = tx.nodes /\ tx'.edges = tx.edges /\ tx'.sources = tx.sources
  BY <1>1, <1>2 DEF Transaction, Session
<1>4. /\ session' \in Session /\ session'.open = session.open
      /\ session'.pending = session.pending /\ session'.batch = {}
      /\ session'.missingSourcesClosed = session.missingSourcesClosed
  BY <1>1, <1>2 DEF Session
<1>5. CASE ~tx.alive
  <2>1. TypeOK' /\ sessionSources' = {}
    BY <1>1, <1>2 DEF TypeOK, storeVars, SessionInv, NoStaleStagedSources
  <2> QED
    BY <1>3, <1>4, <1>5, <2>1, NoTransactionSound
<1>6. CASE tx.alive
  <2>1. tx'.rows \cup session'.batch = tx.rows \cup session.batch
    BY <1>3, <1>4
  <2>2. SourcesMatchRows'
    <3>1. Written' = Written
      BY <1>3, <1>4 DEF Written
    <3>2. ~session.missingSourcesClosed
      BY <1>2, <1>6 DEF SessionInv, SourcesMatchRows
    <3> QED
      BY <1>3, <1>4, <1>6, <2>1, <3>1, <3>2 DEF SessionInv, SourcesMatchRows
  <2>3. /\ Disjoint(tx'.rows \cup session'.batch)
        /\ Within(tx'.rows \cup session'.batch, versions \cup {session.pending}, session.pending)
    BY <1>6, <2>1, TransactionParts
  <2>4. /\ \A v \in versions : ContributionsAt(tx'.rows \cup session'.batch, v) = ContributionsAt(rows, v)
        /\ {n \in tx'.nodes : n.version # session.pending} = workspaceNodes
        /\ {e \in tx'.edges : e.version # session.pending} = workspaceEdges
    BY <1>3, <1>6, <2>1 DEF SessionInv, TransactionKeepsHistory
  <2> QED
    BY <1>2, <1>3, <1>4, <1>6, <2>2, <2>3, <2>4, InsideSound
<1> QED
  BY <1>5, <1>6

(* Replacing the dependencies of a written source changes the contribution *)
(* of a record of the pending version, and no interval.                    *)
LEMMA ReplaceDependenciesSound ==
  ASSUME StoreInv, SessionInv, NEW p \in Path, NEW d \in DependencySets,
         ReplaceContributionDependencies(p, d)
  PROVE  SessionInv'
<1>0. PICK v : v = session.pending
  OBVIOUS
<1> DEFINE Edited(r) == IF r.path = p /\ r.from = v
                        THEN [r EXCEPT !.contribution.dependencies = d] ELSE r
<1>1. session \in Session /\ tx \in Transaction
  BY DEF SessionInv, SessionTypeOK
<1>2. /\ session.open /\ session.sealed /\ tx.alive /\ session' = session
      /\ UNCHANGED <<storeVars, sessionSources>>
      /\ tx' = [tx EXCEPT !.rows = {Edited(r) : r \in tx.rows}]
  BY <1>0 DEF ReplaceContributionDependencies
<1>3. PICK lo \in Nat \ {0} : /\ versions = lo .. (v - 1)
                              /\ versions \cup {v} = lo .. v
  BY <1>0, <1>2, TransactionRun
<1>4. v \in Nat \ {0}
  BY <1>0, <1>2, TransactionRun
<1>5. /\ tx.rows \in SUBSET Row /\ session.batch = {}
      /\ tx.rows \cup session.batch = tx.rows
      /\ Disjoint(tx.rows) /\ Within(tx.rows, lo .. v, v)
      /\ \A w \in versions : ContributionsAt(tx.rows, w) = ContributionsAt(rows, w)
  <2>1. session.batch = {}
    BY <1>2 DEF SessionInv, SourcesMatchRows
  <2>2. tx.rows \cup session.batch = tx.rows
    BY <2>1
  <2>3. \A w \in versions : ContributionsAt(tx.rows, w) = ContributionsAt(rows, w)
    BY <1>2, <2>2 DEF SessionInv, TransactionKeepsHistory
  <2> QED
    BY <1>0, <1>2, <1>3, <2>1, <2>2, <2>3, TransactionParts
<1>6. ASSUME NEW r \in tx.rows
      PROVE  /\ Edited(r) \in Row /\ Edited(r).path = r.path
             /\ Edited(r).from = r.from /\ Edited(r).to = r.to
             /\ r.from # v => Edited(r) = r
  <2>1. r \in Row /\ r.contribution \in Contribution
    BY <1>5 DEF Row
  <2>2. [r.contribution EXCEPT !.dependencies = d] \in Contribution
    BY <2>1 DEF Contribution
  <2> QED
    BY <2>1, <2>2 DEF Row
<1> DEFINE edited == {Edited(r) : r \in tx.rows}
<1> HIDE DEF Edited
<1>7. edited \in SUBSET Row /\ Disjoint(edited) /\ Within(edited, lo .. v, v)
  <2>1. edited \in SUBSET Row /\ Within(edited, lo .. v, v)
    BY <1>5, <1>6 DEF Within
  <2>2. Disjoint(edited)
    <3> SUFFICES ASSUME NEW r \in tx.rows, NEW s \in tx.rows,
                        Edited(r).path = Edited(s).path, Edited(r) # Edited(s)
                 PROVE  \/ Edited(r).to # NULL /\ Edited(r).to < Edited(s).from
                        \/ Edited(s).to # NULL /\ Edited(s).to < Edited(r).from
      BY DEF Disjoint
    <3> QED
      BY <1>5, <1>6 DEF Disjoint
  <2> QED
    BY <2>1, <2>2
<1>8. \A w \in versions : ContributionsAt(edited, w) = ContributionsAt(rows, w)
  <2> SUFFICES ASSUME NEW w \in versions
               PROVE  ContributionsAt(edited, w) = ContributionsAt(tx.rows, w)
    BY <1>5
  <2>1. w \in Nat /\ w < v
    BY <1>3, <1>4
  <2>2. \A r \in tx.rows \cup edited : r.from = v => ~Visible(r, w)
    BY <1>4, <2>1 DEF Visible
  <2>3. \A q \in Path : {s \in edited : s.path = q /\ Visible(s, w)}
                      = {s \in tx.rows : s.path = q /\ Visible(s, w)}
    BY <1>6, <2>2
  <2> HIDE DEF edited
  <2> QED
    BY <2>3 DEF ContributionsAt
<1>9. /\ tx' \in Transaction /\ tx'.alive /\ tx'.rows = edited
      /\ tx'.nodes = tx.nodes /\ tx'.edges = tx.edges /\ tx'.sources = tx.sources
  <2> HIDE DEF edited
  <2> QED
    BY <1>1, <1>2, <1>7 DEF Transaction, edited
<1>10. tx'.rows \cup session'.batch = edited
  BY <1>2, <1>5, <1>9
<1>11. SourcesMatchRows'
  <2>1. Written' = Written /\ Staged' = Staged
    BY <1>2, <1>9 DEF Written, Staged
  <2>2. \A r \in edited : r.from = v => r.path \in Written
    BY <1>0, <1>2, <1>6 DEF SessionInv, SourcesMatchRows
  <2>3. session.missingSourcesClosed => \A r \in edited : r.to = NULL => r.path \in Staged
    BY <1>2, <1>6 DEF SessionInv, SourcesMatchRows
  <2> HIDE DEF edited
  <2> QED
    BY <1>0, <1>2, <1>5, <1>9, <1>10, <2>1, <2>2, <2>3 DEF SessionInv, SourcesMatchRows
<1>12. /\ {n \in tx'.nodes : n.version # session.pending} = workspaceNodes
       /\ {e \in tx'.edges : e.version # session.pending} = workspaceEdges
  BY <1>2, <1>9 DEF SessionInv, TransactionKeepsHistory
<1> HIDE DEF edited
<1> QED
  BY <1>0, <1>1, <1>2, <1>3, <1>7, <1>8, <1>9, <1>10, <1>11, <1>12, InsideSound, ZenonT(30)

(* Workspace facts belong to the pending version. *)
LEMMA WriteFactsSound ==
  ASSUME StoreInv, SessionInv, NEW nodes \in SUBSET Node, NEW edges \in SUBSET Edge,
         WriteWorkspaceFacts(nodes, edges)
  PROVE  SessionInv'
<1>0. PICK v : v = session.pending
  OBVIOUS
<1> DEFINE newNodes == {[version |-> v, node |-> n] : n \in nodes}
           newEdges == {[version |-> v, edge |-> e] : e \in edges}
<1>1. session \in Session /\ tx \in Transaction /\ TypeOK /\ v \in Nat
  BY <1>0 DEF SessionInv, SessionTypeOK, Session
<1>2. /\ session.open /\ session.sealed /\ UNCHANGED <<storeVars, sessionSources>>
      /\ tx' = [tx EXCEPT !.nodes = tx.nodes \cup newNodes, !.edges = tx.edges \cup newEdges]
      /\ session' = [session EXCEPT !.factsWritten = TRUE]
  BY <1>0 DEF WriteWorkspaceFacts
<1>3. /\ newNodes \in SUBSET NodeRow /\ \A n \in newNodes : n.version = v
      /\ newEdges \in SUBSET EdgeRow /\ \A e \in newEdges : e.version = v
  BY <1>1 DEF NodeRow, EdgeRow
<1> HIDE DEF newNodes, newEdges
<1>4. /\ tx' \in Transaction /\ tx'.alive = tx.alive /\ tx'.rows = tx.rows
      /\ tx'.nodes = tx.nodes \cup newNodes /\ tx'.edges = tx.edges \cup newEdges
      /\ tx'.sources = tx.sources
  BY <1>1, <1>2, <1>3 DEF Transaction
<1>5. /\ session' \in Session /\ session'.open = session.open
      /\ session'.pending = session.pending /\ session'.batch = session.batch
      /\ session'.sealed = session.sealed
      /\ session'.missingSourcesClosed = session.missingSourcesClosed
  BY <1>1, <1>2 DEF Session
<1>6. CASE ~tx.alive
  <2>1. TypeOK' /\ sessionSources' = {}
    BY <1>1, <1>2 DEF TypeOK, storeVars, SessionInv, NoStaleStagedSources
  <2> QED
    BY <1>4, <1>5, <1>6, <2>1, NoTransactionSound
<1>7. CASE tx.alive
  <2>1. SourcesMatchRows'
    <3>1. Written' = Written /\ Staged' = Staged
      BY <1>4, <1>5 DEF Written, Staged
    <3> QED
      BY <1>4, <1>5, <1>7, <3>1 DEF SessionInv, SourcesMatchRows
  <2>2. /\ Disjoint(tx'.rows \cup session'.batch)
        /\ Within(tx'.rows \cup session'.batch, versions \cup {session.pending}, session.pending)
    BY <1>4, <1>5, <1>7, TransactionParts
  <2>3. \A w \in versions : ContributionsAt(tx'.rows \cup session'.batch, w) = ContributionsAt(rows, w)
    BY <1>4, <1>5, <1>7 DEF SessionInv, TransactionKeepsHistory
  <2>4. /\ {n \in tx'.nodes : n.version # session.pending} = workspaceNodes
        /\ {e \in tx'.edges : e.version # session.pending} = workspaceEdges
    BY <1>0, <1>3, <1>4, <1>7 DEF SessionInv, TransactionKeepsHistory
  <2> QED
    BY <1>2, <1>4, <1>5, <1>7, <2>1, <2>2, <2>3, <2>4, InsideSound
<1> QED
  BY <1>6, <1>7

(* Sealing the facts closes the sources that were not staged. *)
LEMMA SealFactsSound ==
  ASSUME StoreInv, SessionInv, SealWorkspaceFacts
  PROVE  SessionInv'
<1>0. PICK v : v = session.pending
  OBVIOUS
<1>1. PICK closed : closed = CloseMissingSources(tx.rows)
  OBVIOUS
<1>2. session \in Session /\ tx \in Transaction
  BY DEF SessionInv, SessionTypeOK
<1>3. /\ session.open /\ session.sealed /\ tx.alive /\ UNCHANGED <<storeVars, sessionSources>>
      /\ tx' = [tx EXCEPT !.rows = closed]
      /\ session' = [session EXCEPT !.missingSourcesClosed = TRUE, !.factsSealed = TRUE]
  BY <1>1 DEF SealWorkspaceFacts
<1>4. PICK lo \in Nat \ {0} : /\ lo <= v
                              /\ versions = lo .. (v - 1)
                              /\ versions \cup {v} = lo .. v
  BY <1>0, <1>3, TransactionRun
<1>5. session.batch = {} /\ tx.rows \cup session.batch = tx.rows
  BY <1>3 DEF SessionInv, SourcesMatchRows
<1>6. /\ closed \in SUBSET Row
      /\ Within(closed, lo .. v, v)
      /\ Disjoint(closed)
      /\ \A w \in versions : ContributionsAt(closed, w) = ContributionsAt(rows, w)
  BY <1>0, <1>1, <1>3, <1>4, <1>5, CommitTables
<1>7. /\ tx' \in Transaction /\ tx'.alive /\ tx'.rows = closed
      /\ tx'.nodes = tx.nodes /\ tx'.edges = tx.edges /\ tx'.sources = tx.sources
  BY <1>2, <1>3, <1>6 DEF Transaction
<1>8. /\ session' \in Session /\ session'.open /\ session'.pending = v
      /\ session'.batch = {} /\ session'.sealed
  BY <1>0, <1>2, <1>3, <1>5 DEF Session
<1>9. tx'.rows \cup session'.batch = closed
  BY <1>7, <1>8
<1>10. \A r \in closed : /\ r.from = v => r.path \in Written
                         /\ r.to = NULL => r.path \in Staged
  <2>1. v \in Nat \ {0}
    BY <1>0, <1>3, TransactionRun
  <2>2. tx.rows \in SUBSET Row /\ Within(tx.rows, lo .. v, v)
    BY <1>0, <1>3, <1>4, <1>5, TransactionParts
  <2>3. \A r \in tx.rows : r.from = v => r.path \in Written
    BY <1>0, <1>3 DEF SessionInv, SourcesMatchRows
  <2>4. Written \subseteq Staged
    BY DEF Written, Staged
  <2>5. CASE session.missingSourcesClosed
    BY <1>1, <1>3, <2>3, <2>5 DEF CloseMissingSources, SessionInv, SourcesMatchRows
  <2>6. CASE v = 1
    <3>1. \A r \in tx.rows : r.from = v
      BY <2>1, <2>2, <2>6 DEF Within
    <3> QED
      BY <1>0, <1>1, <2>3, <2>4, <2>6, <3>1 DEF CloseMissingSources
  <2>7. CASE ~session.missingSourcesClosed /\ v # 1
    <3>1. closed = CloseContributionRecords(tx.rows, Path \ Staged, v - 1)
      BY <1>0, <1>1, <2>7 DEF CloseMissingSources
    <3> SUFFICES ASSUME NEW r \in closed
                 PROVE  /\ r.from = v => r.path \in Written
                        /\ r.to = NULL => r.path \in Staged
      OBVIOUS
    <3>2. /\ r.path \in Path \ Staged => r.to # NULL
          /\ \E s \in tx.rows : s.path = r.path /\ s.from = r.from
      BY <2>1, <2>2, <3>1, CloseShape
    <3>3. r.path \in Path
      BY <1>6 DEF Row
    <3> QED
      BY <2>3, <3>2, <3>3
  <2> QED
    BY <2>5, <2>6, <2>7
<1>11. SourcesMatchRows'
  <2>1. Written' = Written /\ Staged' = Staged
    BY <1>0, <1>7, <1>8 DEF Written, Staged
  <2> QED
    BY <1>0, <1>3, <1>7, <1>8, <1>9, <1>10, <2>1 DEF SessionInv, SourcesMatchRows
<1>12. /\ {n \in tx'.nodes : n.version # session.pending} = workspaceNodes
       /\ {e \in tx'.edges : e.version # session.pending} = workspaceEdges
  BY <1>3, <1>7 DEF SessionInv, TransactionKeepsHistory
<1> QED
  BY <1>0, <1>3, <1>4, <1>6, <1>7, <1>8, <1>9, <1>11, <1>12, InsideSound, ZenonT(30)

(* A commit empties the temporary table with the session. *)
LEMMA CommitEndsSession ==
  ASSUME StoreInv, SessionInv, Commit
  PROVE  SessionInv'
<1>1. Closed \in Session /\ NoTransaction \in Transaction /\ ~NoTransaction.alive
  BY DEF Closed, NewSession, Session, NoTransaction, Transaction
<1>2. session' = Closed /\ tx' = NoTransaction /\ tx.alive
      /\ sessionSources' = {s \in tx.sources : s.version # session.pending}
  BY DEF Commit
<1>3. sessionSources' = {}
  BY <1>2 DEF SessionInv, SourcesMatchRows
<1>4. TypeOK'
  BY CommitSound DEF StoreInv
<1> QED
  BY <1>1, <1>2, <1>3, <1>4, NoTransactionSound

(* Every step of a session or of another writer keeps both invariants.     *)
LEMMA SessionNextSound == StoreInv /\ SessionInv /\ [SessionNext]_vars => StoreInv' /\ SessionInv'
<1> SUFFICES ASSUME StoreInv, SessionInv, [SessionNext]_vars PROVE StoreInv' /\ SessionInv'
  OBVIOUS
<1>1. UNCHANGED storeVars => StoreInv'
  BY NextSound
<1>2. CASE UNCHANGED vars
  <2>1. /\ UNCHANGED storeVars /\ session' = session /\ tx' = tx
        /\ sessionSources' = sessionSources
    BY <1>2 DEF vars, sessionVars
  <2> QED
    BY <1>1, <2>1 DEF storeVars, SessionInv, SessionTypeOK, TypeOK, SoundTransaction,
        TransactionKeepsHistory, SourcesMatchRows, NoStaleStagedSources, CurrentVersion,
        Written, Staged
<1>3. CASE BeginContributionSession
  BY <1>1, <1>3, BeginSound DEF BeginContributionSession
<1>4. CASE Fail \/ RollbackSession \/ ContextCancelled
  BY <1>1, <1>4, EndingSound DEF Fail, RollbackSession, ContextCancelled
<1>5. ASSUME NEW p \in Path, StageSource(p) PROVE StoreInv' /\ SessionInv'
  BY <1>1, <1>5, StageSound DEF StageSource
<1>6. ASSUME NEW p \in Path, NEW c \in Contribution, WriteContribution(p, c)
      PROVE  StoreInv' /\ SessionInv'
  BY <1>1, <1>6, WriteSound DEF WriteContribution
<1>7. CASE SealContributions
  BY <1>1, <1>7, SealSound DEF SealContributions
<1>8. ASSUME NEW p \in Path, NEW d \in DependencySets, ReplaceContributionDependencies(p, d)
      PROVE  StoreInv' /\ SessionInv'
  BY <1>1, <1>8, ReplaceDependenciesSound DEF ReplaceContributionDependencies
<1>9. ASSUME NEW nodes \in SUBSET Node, NEW edges \in SUBSET Edge,
             WriteWorkspaceFacts(nodes, edges)
      PROVE  StoreInv' /\ SessionInv'
  BY <1>1, <1>9, WriteFactsSound DEF WriteWorkspaceFacts
<1>10. CASE SealWorkspaceFacts
  BY <1>1, <1>10, SealFactsSound DEF SealWorkspaceFacts
<1>11. CASE Commit
  BY <1>11, CommitSound, CommitEndsSession
<1>12. CASE StoreOperation
  <2>1. ~tx.alive /\ Next /\ session' = session /\ tx' = tx /\ sessionSources' = sessionSources
    BY <1>12 DEF StoreOperation, sessionVars
  <2>2. StoreInv' /\ TypeOK'
    BY <2>1, NextSound DEF StoreInv
  <2>3. session' \in Session /\ tx' \in Transaction /\ ~tx'.alive /\ sessionSources' = {}
    BY <2>1 DEF SessionInv, SessionTypeOK, NoStaleStagedSources
  <2> QED
    BY <2>2, <2>3, NoTransactionSound
<1> QED
  BY <1>2, <1>3, <1>4, <1>5, <1>6, <1>7, <1>8, <1>9, <1>10, <1>11, <1>12 DEF SessionNext
(* The initial state: an empty database and no session. *)
LEMMA SessionInitSound == SessionInit => StoreInv /\ SessionInv
<1> SUFFICES ASSUME SessionInit PROVE StoreInv /\ SessionInv
  OBVIOUS
<1>1. StoreInv /\ TypeOK
  BY InitSound DEF SessionInit, StoreInv
<1>2. Closed \in Session /\ NoTransaction \in Transaction /\ ~NoTransaction.alive
  BY DEF Closed, NewSession, Session, NoTransaction, Transaction
<1>3. session = Closed /\ tx = NoTransaction /\ sessionSources = {}
  BY DEF SessionInit
<1>4. SessionTypeOK
  BY <1>1, <1>2, <1>3 DEF SessionTypeOK
<1> QED
  BY <1>1, <1>2, <1>3, <1>4 DEF SessionInv, SoundTransaction, TransactionKeepsHistory,
      SourcesMatchRows, NoStaleStagedSources

(* Sessions and other writers, interleaved in any way and ended in any     *)
(* way, keep the tables sound and keep every transaction sound: it works   *)
(* on the version after the newest one, shows the published versions as    *)
(* they are, and leaves no staged sources behind.                          *)
THEOREM SessionInvariant == SessionSpec => []SessionInv
<1>1. SessionSpec => [](StoreInv /\ SessionInv)
  BY SessionInitSound, SessionNextSound, PTL DEF SessionSpec
<1> QED
  BY <1>1, PTL

(* With sessions, too, the tables of the store stay sound. *)
THEOREM SessionStoreInvariant == SessionSpec => []StoreInv
<1>1. SessionSpec => [](StoreInv /\ SessionInv)
  BY SessionInitSound, SessionNextSound, PTL DEF SessionSpec
<1> QED
  BY <1>1, PTL
-----------------------------------------------------------------------------
(* What the store promises its readers still holds with sessions. *)

(* A step of the system changes the tables by a commit or by an operation  *)
(* of the store, or not at all.                                            *)
LEMMA SessionStepKinds ==
  ASSUME [SessionNext]_vars
  PROVE  Commit \/ Next \/ UNCHANGED storeVars
  BY DEF SessionNext, BeginContributionSession, Fail, RollbackSession, ContextCancelled,
     StageSource, WriteContribution, SealContributions, ReplaceContributionDependencies,
     WriteWorkspaceFacts, SealWorkspaceFacts, StoreOperation, vars

(* The tables with sessions implement the storage contract: a commit is    *)
(* the publication of a session, and nothing a session does before it, nor *)
(* the way it fails, is visible in the history.                            *)
THEOREM SessionImplementsHistory == SessionSpec => ImplementsHistory
<1>1. SessionInit => History!Init
  BY InitRefines DEF SessionInit
<1>2. StoreInv /\ SessionInv /\ [SessionNext]_vars
        => [History!Next]_[v \in versions |-> GraphAt(v)]
  <2> SUFFICES ASSUME StoreInv, SessionInv, [SessionNext]_vars
               PROVE  History!Next \/ UNCHANGED [v \in versions |-> GraphAt(v)]
    OBVIOUS
  <2>1. CASE Commit
    BY <2>1, CommitSound DEF History!Next
  <2>2. CASE Next
    BY <2>2, StepRefines
  <2>3. CASE UNCHANGED storeVars
    BY <2>3, StutterRefines
  <2> QED
    BY <2>1, <2>2, <2>3, SessionStepKinds
<1> QED
  BY <1>1, <1>2, SessionInvariant, SessionStoreInvariant, PTL
  DEF SessionSpec, ImplementsHistory, History!Spec

(* No session changes what a reader of a published version sees, not even  *)
(* the commit that records the next one.                                   *)
THEOREM SessionVersionsImmutable == SessionSpec => SnapshotsImmutable
<1>1. ASSUME StoreInv, SessionInv, Commit, NEW w \in versions \cap versions'
      PROVE  GraphAt(w)' = GraphAt(w)
  <2>1. History!AddVersion /\ session.pending = CurrentVersion + 1
    BY <1>1, CommitSound, TransactionRun DEF History!PublishSession, Commit
  <2>2. w # CurrentVersion + 1
    <3>1. TypeOK /\ ContiguousVersions
      BY <1>1 DEF StoreInv
    <3>2. PICK lo \in Nat \ {0} : versions = lo .. CurrentVersion
      BY <3>1, VersionsAreRun
    <3>3. CurrentVersion \in Nat
      BY <3>1, VersionsAreRun, StoreAssumption
    <3> QED
      BY <3>2, <3>3
  <2> DEFINE G == [v \in versions |-> GraphAt(v)]
  <2>3. (DOMAIN G)' = versions'
    OBVIOUS
  <2>4. G'[w] = G[w]
    BY <1>1, <2>1, <2>2, <2>3, MappedHistory DEF History!AddVersion
  <2> QED
    BY <1>1, <2>4
<1>2. StoreInv /\ SessionInv /\ [SessionNext]_vars
        => [\A v \in versions \cap versions' : GraphAt(v)' = GraphAt(v)]_storeVars
  BY <1>1, StepKeepsGraphs, SessionStepKinds
<1> QED
  BY <1>2, SessionInvariant, SessionStoreInvariant, PTL DEF SessionSpec, SnapshotsImmutable

(* Nor does a commit bring back a version number that was reported as      *)
(* pruned.                                                                 *)
THEOREM SessionPrunedForever == SessionSpec => PrunedVersionsStayPruned
<1>1. ASSUME StoreInv, SessionInv, Commit, NEW v \in 1 .. MaxVersion,
             OpenSnapshot(v) = "pruned"
      PROVE  OpenSnapshot(v)' = "pruned"
  <2>0. MaxVersion \in Nat /\ Retained \in Nat \ {0} /\ tx.alive
    BY <1>1, StoreAssumption DEF Commit
  <2>1. PICK lo \in Nat \ {0} : versions = lo .. CurrentVersion
                                /\ (versions # {} => EarliestVersion = lo)
    BY <1>1, VersionsAreRun DEF StoreInv
  <2>2. CurrentVersion \in Nat /\ session.pending = CurrentVersion + 1
    BY <1>1, <2>0, VersionsAreRun, TransactionRun DEF StoreInv
  <2>3. v \in Nat \ {0} /\ versions # {} /\ v < lo
    BY <1>1, <2>0, <2>1 DEF OpenSnapshot
  <2>4. versions' \subseteq versions \cup {session.pending} /\ session.pending \in versions'
    BY <1>1, CommitSound DEF Commit, RecordVersion
  <2>5. ContiguousVersions' /\ versions' # {}
    BY <1>1, <2>4, CommitSound DEF StoreInv
  <2>6. PICK from \in 1 .. MaxVersion, to \in 1 .. MaxVersion :
           from <= to /\ versions' = from .. to
    BY <2>5 DEF ContiguousVersions
  <2>7. EarliestVersion' = from
    BY <2>0, <2>6, EndsOfRun DEF EarliestVersion
  <2>8. v < from /\ v \notin versions'
    BY <2>0, <2>1, <2>2, <2>3, <2>4, <2>6
  <2> QED
    BY <2>3, <2>5, <2>7, <2>8 DEF OpenSnapshot
<1>2. ASSUME UNCHANGED storeVars, NEW v
      PROVE  OpenSnapshot(v)' = OpenSnapshot(v)
  BY <1>2 DEF storeVars, OpenSnapshot, EarliestVersion
<1>3. StoreInv /\ SessionInv /\ [SessionNext]_vars
        => [\A v \in 1 .. MaxVersion :
              OpenSnapshot(v) = "pruned" => OpenSnapshot(v)' = "pruned"]_storeVars
  BY <1>1, <1>2, StepKeepsPruned, SessionStepKinds
<1> QED
  BY <1>3, SessionInvariant, SessionStoreInvariant, PTL DEF SessionSpec, PrunedVersionsStayPruned-----------------------------------------------------------------------------
(* What the resolvers read is what is published. *)

(* The facts of one source as the resolvers read them, row by row. *)
FactsRead(table, staged, v, p) ==
  {r.contribution.facts : r \in {s \in table : s.path = p /\ p \in staged /\ Visible(s, v)}}

(* They are the facts of what the snapshot shows of it, if it is staged.   *)
LEMMA FactsThroughSnapshot ==
  ASSUME NEW table, NEW staged, NEW v, NEW p \in Path
  PROVE  FactsRead(table, staged, v, p)
           = IF p \in staged THEN {c.facts : c \in ContributionsAt(table, v)[p]} ELSE {}
<1>1. CASE p \in staged
  <2>1. ContributionsAt(table, v)[p]
          = {r.contribution : r \in {s \in table : s.path = p /\ p \in staged /\ Visible(s, v)}}
    BY <1>1 DEF ContributionsAt
  <2> QED
    BY <1>1, <2>1 DEF FactsRead
<1>2. CASE p \notin staged
  BY <1>2 DEF FactsRead
<1> QED
  BY <1>1, <1>2

(* The steps of a sealed session: each keeps the facts, ends the           *)
(* transaction without a trace, or publishes exactly these facts.          *)
LEMMA SealedStep ==
  ASSUME StoreInv, SessionInv, [SessionNext]_vars, tx.alive, session.sealed
  PROVE  \/ tx'.alive /\ ResolverFacts' = ResolverFacts
         \/ ~tx'.alive /\ UNCHANGED storeVars
         \/ /\ session.pending \in versions'
            /\ ResolverFacts = [p \in Path |->
                 {c.facts : c \in ContributionsAt(rows', session.pending)[p]}]
<1>1. session \in Session /\ tx \in Transaction /\ session.open /\ session.batch = {}
      /\ tx.rows \cup session.batch = tx.rows
  BY DEF SessionInv, SessionTypeOK, SoundTransaction, SourcesMatchRows
<1>2. PICK lo \in Nat \ {0} : /\ lo <= session.pending
                              /\ versions = lo .. (session.pending - 1)
                              /\ versions \cup {session.pending} = lo .. session.pending
  BY TransactionRun
<1>3. ASSUME tx'.alive, tx'.rows = tx.rows, tx'.sources = tx.sources,
             session'.pending = session.pending
      PROVE  tx'.alive /\ ResolverFacts' = ResolverFacts
  BY <1>3 DEF ResolverFacts, Staged
<1>4. CASE UNCHANGED vars
  BY <1>3, <1>4 DEF vars, sessionVars
<1>5. CASE Fail \/ RollbackSession \/ ContextCancelled
  BY <1>5 DEF Fail, RollbackSession, ContextCancelled, NoTransaction
<1>6. ASSUME NEW p \in Path, NEW d \in DependencySets, ReplaceContributionDependencies(p, d)
      PROVE  tx'.alive /\ ResolverFacts' = ResolverFacts
  <2>0. PICK v : v = session.pending
    OBVIOUS
  <2> DEFINE Edited(r) == IF r.path = p /\ r.from = v
                          THEN [r EXCEPT !.contribution.dependencies = d] ELSE r
  <2>1. session' = session /\ tx' = [tx EXCEPT !.rows = {Edited(r) : r \in tx.rows}]
    BY <1>6, <2>0 DEF ReplaceContributionDependencies
  <2>2. tx'.alive /\ tx'.rows = {Edited(r) : r \in tx.rows} /\ tx'.sources = tx.sources
    BY <1>1, <2>1 DEF Transaction
  <2>3. ASSUME NEW r \in tx.rows
        PROVE  /\ Edited(r).path = r.path
               /\ Edited(r).contribution.facts = r.contribution.facts
               /\ Visible(Edited(r), v) <=> Visible(r, v)
    <3>1. r \in Row /\ r.contribution \in Contribution
      BY <1>1 DEF Transaction, Row
    <3> QED
      BY <3>1 DEF Row, Contribution, Visible
  <2> HIDE DEF Edited
  <2>4. Staged' = Staged
    BY <2>1, <2>2 DEF Staged
  <2>5. ASSUME NEW q \in Path
        PROVE  {r.contribution.facts : r \in {s \in tx'.rows :
                                  s.path = q /\ q \in Staged /\ Visible(s, v)}}
             = {r.contribution.facts : r \in {s \in tx.rows :
                                  s.path = q /\ q \in Staged /\ Visible(s, v)}}
    BY <2>2, <2>3
  <2>6. ResolverFacts' = [q \in Path |-> {r.contribution.facts :
            r \in {s \in tx'.rows : s.path = q /\ q \in Staged /\ Visible(s, v)}}]
    BY <2>0, <2>1, <2>4 DEF ResolverFacts
  <2>7. ResolverFacts = [q \in Path |-> {r.contribution.facts :
            r \in {s \in tx.rows : s.path = q /\ q \in Staged /\ Visible(s, v)}}]
    BY <2>0 DEF ResolverFacts
  <2> QED
    BY <2>2, <2>5, <2>6, <2>7
<1>7. ASSUME NEW nodes \in SUBSET Node, NEW edges \in SUBSET Edge,
             WriteWorkspaceFacts(nodes, edges)
      PROVE  tx'.alive /\ ResolverFacts' = ResolverFacts
  BY <1>1, <1>3, <1>7 DEF WriteWorkspaceFacts, Transaction, Session
<1>8. CASE SealWorkspaceFacts
  <2>1. PICK closed : closed = CloseMissingSources(tx.rows)
    OBVIOUS
  <2>2. tx'.alive /\ tx'.rows = closed /\ tx'.sources = tx.sources
    BY <1>1, <1>8, <2>1 DEF SealWorkspaceFacts, Transaction
  <2>3. session'.pending = session.pending
    BY <1>1, <1>8 DEF SealWorkspaceFacts, Session
  <2>4. Staged' = Staged
    BY <2>2, <2>3 DEF Staged
  <2>5. \A q \in Path : ContributionsAt(closed, session.pending)[q]
          = IF q \in Staged THEN ContributionsAt(tx.rows, session.pending)[q] ELSE {}
    BY <1>1, <1>2, <2>1, CommitTables
  <2>6. ASSUME NEW q \in Path
        PROVE  FactsRead(closed, Staged, session.pending, q)
                 = FactsRead(tx.rows, Staged, session.pending, q)
    <3>1. CASE q \in Staged
      <4>1. PICK shown : shown = ContributionsAt(closed, session.pending)[q]
        OBVIOUS
      <4>2. shown = ContributionsAt(tx.rows, session.pending)[q]
        BY <2>5, <3>1, <4>1
      <4>3. FactsRead(closed, Staged, session.pending, q) = {c.facts : c \in shown}
        BY <3>1, <4>1, FactsThroughSnapshot
      <4>4. FactsRead(tx.rows, Staged, session.pending, q) = {c.facts : c \in shown}
        BY <3>1, <4>2, FactsThroughSnapshot
      <4> QED
        BY <4>3, <4>4
    <3>2. CASE q \notin Staged
      BY <3>2, FactsThroughSnapshot
    <3> QED
      BY <3>1, <3>2
  <2>7. ResolverFacts' = [q \in Path |-> FactsRead(closed, Staged, session.pending, q)]
    BY <2>2, <2>3, <2>4 DEF ResolverFacts, FactsRead
  <2>8. ResolverFacts = [q \in Path |-> FactsRead(tx.rows, Staged, session.pending, q)]
    BY DEF ResolverFacts, FactsRead
  <2> QED
    BY <2>2, <2>6, <2>7, <2>8
<1>9. CASE Commit
  <2>1. PICK closed : closed = CloseMissingSources(tx.rows)
    OBVIOUS
  <2>2. /\ session.pending \in versions'
        /\ ContributionsAt(rows', session.pending) = ContributionsAt(closed, session.pending)
    BY <1>1, <1>9, <2>1, CommitSound
  <2>3. \A q \in Path : ContributionsAt(closed, session.pending)[q]
          = IF q \in Staged THEN ContributionsAt(tx.rows, session.pending)[q] ELSE {}
    BY <1>1, <1>2, <2>1, CommitTables
  <2>4. ASSUME NEW q \in Path
        PROVE  FactsRead(tx.rows, Staged, session.pending, q)
                 = {c.facts : c \in ContributionsAt(rows', session.pending)[q]}
    <3>1. CASE q \in Staged
      BY <2>2, <2>3, <3>1, FactsThroughSnapshot
    <3>2. CASE q \notin Staged
      <4>1. ContributionsAt(rows', session.pending)[q] = {}
        BY <2>2, <2>3, <3>2
      <4> QED
        BY <3>2, <4>1, FactsThroughSnapshot
    <3> QED
      BY <3>1, <3>2
  <2>5. ResolverFacts = [q \in Path |-> FactsRead(tx.rows, Staged, session.pending, q)]
    BY DEF ResolverFacts, FactsRead
  <2> QED
    BY <2>2, <2>4, <2>5
<1> QED
  BY <1>1, <1>4, <1>5, <1>6, <1>7, <1>8, <1>9
  DEF SessionNext, BeginContributionSession, StageSource, WriteContribution,
      SealContributions, StoreOperation

(* What workspace resolution reads of a sealed session is what is          *)
(* published, to the fact: nothing that happens between sealing and        *)
(* committing changes it, and a session that does not commit leaves no     *)
(* trace.                                                                  *)
THEOREM ResolversReadPublishedFacts == SessionSpec => ResolversReadWhatIsPublished
<1>1. StoreInv /\ SessionInv /\ [SessionNext]_vars
        => [tx.alive /\ session.sealed =>
              \/ tx'.alive /\ ResolverFacts' = ResolverFacts
              \/ ~tx'.alive /\ UNCHANGED storeVars
              \/ /\ session.pending \in versions'
                 /\ ResolverFacts = [p \in Path |->
                      {c.facts : c \in ContributionsAt(rows', session.pending)[p]}]]_vars
  BY SealedStep
<1> QED
  BY <1>1, SessionInvariant, SessionStoreInvariant, PTL
  DEF SessionSpec, ResolversReadWhatIsPublished
=============================================================================
