------------------------- MODULE ContributionSession -------------------------
(***************************************************************************)
(* Contribution sessions of storage/sqlite/sqlite.go: one long write       *)
(* transaction in which an indexer stages the sources of a workspace,      *)
(* writes their contributions through a row batch, lets the resolvers read *)
(* the result, adds workspace facts and commits one graph version.         *)
(*                                                                         *)
(* tx is what the transaction sees, session the Go object.  The two can    *)
(* part: cancelling the context given to BeginContributionSession makes    *)
(* database/sql roll the transaction back behind an object that is still   *)
(* open.  While the transaction lives it holds SQLite's write lock, so the *)
(* operations of GraphStore wait (or fail as busy, which changes nothing). *)
(***************************************************************************)
EXTENDS GraphStore

VARIABLES
  session,         \* contributionSession
  tx,              \* its SQLite transaction: the tables as seen inside it
  sessionSources   \* contribution_session_sources, as last committed

sessionVars == <<session, tx, sessionSources>>

vars == <<storeVars, sessionVars>>

SourceRow == [version : Nat, path : Path, written : BOOLEAN]

Session == [open : BOOLEAN, pending : Nat, batch : SUBSET Row,
            sealed : BOOLEAN, missingSourcesClosed : BOOLEAN,
            factsWritten : BOOLEAN, factsSealed : BOOLEAN]

Transaction == [alive : BOOLEAN, rows : SUBSET Row, nodes : SUBSET NodeRow,
                edges : SUBSET EdgeRow, sources : SUBSET SourceRow]

(* The batch is part of the Go object, not of the transaction. *)
NewSession(v) == [open |-> v > 0, pending |-> v, batch |-> {},
                  sealed |-> FALSE, missingSourcesClosed |-> FALSE,
                  factsWritten |-> FALSE, factsSealed |-> FALSE]

Closed == NewSession(0)

NoTransaction == [alive |-> FALSE, rows |-> {}, nodes |-> {}, edges |-> {}, sources |-> {}]

SessionTypeOK ==
  /\ TypeOK
  /\ session \in Session
  /\ tx \in Transaction
  /\ sessionSources \subseteq SourceRow
-----------------------------------------------------------------------------
Staged == {s.path : s \in {t \in tx.sources : t.version = session.pending}}

Written == {s.path : s \in {t \in tx.sources : t.version = session.pending /\ t.written}}

(* What the resolver reads of a sealed session return for a source:        *)
(* records visible at the pending version, joined with the staged sources. *)
ResolverFacts ==
  [p \in Path |-> {r.contribution.facts :
     r \in {s \in tx.rows : s.path = p /\ p \in Staged /\ Visible(s, session.pending)}}]

(* A plausible bug: a source that was staged but not written is dropped.   *)
CloseMissingSources_Unwritten(table) ==
  IF session.missingSourcesClosed \/ session.pending = 1
  THEN table
  ELSE CloseContributionRecords(table, Path \ Written, session.pending - 1)

CloseMissingSources(table) ==
  IF session.missingSourcesClosed \/ session.pending = 1
  THEN table
  ELSE CloseContributionRecords(table, Path \ Staged, session.pending - 1)
-----------------------------------------------------------------------------
SessionInit ==
  /\ Init
  /\ session = Closed
  /\ tx = NoTransaction
  /\ sessionSources = {}

BeginContributionSession ==
  /\ ~session.open
  /\ CurrentVersion < MaxVersion
  /\ session' = NewSession(CurrentVersion + 1)
  /\ tx' = [alive |-> TRUE, rows |-> rows, nodes |-> workspaceNodes,
            edges |-> workspaceEdges, sources |-> sessionSources]
  /\ UNCHANGED <<storeVars, sessionSources>>

(* Any operation that meets an error (a source staged twice, written twice *)
(* or never staged, a cancelled context, a full database, a pruning        *)
(* boundary that is gone, a transaction that is gone) ends the session.    *)
Fail ==
  /\ session.open
  /\ session' = Closed
  /\ tx' = NoTransaction
  /\ UNCHANGED <<storeVars, sessionSources>>

(* The caller's Rollback. *)
RollbackSession ==
  /\ session.open
  /\ session' = Closed
  /\ tx' = NoTransaction
  /\ UNCHANGED <<storeVars, sessionSources>>

(* database/sql rolls back when the context of BeginTx is cancelled. *)
ContextCancelled ==
  /\ tx.alive
  /\ tx' = NoTransaction
  /\ UNCHANGED <<storeVars, session, sessionSources>>

(* publicationBatch.add: a row, byte or source limit (left open here) may  *)
(* flush the batch before or after a row is added to it.                   *)
Flushes(row) == {{}, session.batch, session.batch \cup {row}}

StageSource(p) ==
  /\ session.open /\ ~session.sealed
  /\ tx.alive
  /\ p \notin Staged
  /\ tx' = [tx EXCEPT !.sources =
              @ \cup {[version |-> session.pending, path |-> p, written |-> FALSE]}]
  /\ UNCHANGED <<storeVars, session, sessionSources>>

(* The record of p is closed at once; the new one waits in the batch.      *)
WriteContribution(p, c) ==
  LET v == session.pending
      row == NewRecord(p, v, c)
      staged == [version |-> v, path |-> p, written |-> FALSE]
      written == [version |-> v, path |-> p, written |-> TRUE]
  IN
  /\ session.open /\ ~session.sealed
  /\ tx.alive
  /\ staged \in tx.sources
  /\ \E flushed \in Flushes(row) :
       /\ tx' = [tx EXCEPT
            !.rows = IF v > 1 THEN CloseContributionRecords(@, {p}, v - 1) \cup flushed
                              ELSE @ \cup flushed,
            !.sources = (@ \ {staged}) \cup {written}]
       /\ session' = [session EXCEPT !.batch = (@ \cup {row}) \ flushed]
  /\ UNCHANGED <<storeVars, sessionSources>>

(* An empty batch needs no statement, so sealing notices a lost            *)
(* transaction only when there is something to flush.                      *)
SealContributions ==
  /\ session.open /\ ~session.sealed
  /\ session.batch # {} => tx.alive
  /\ tx' = [tx EXCEPT !.rows = @ \cup session.batch]
  /\ session' = [session EXCEPT !.batch = {}, !.sealed = TRUE]
  /\ UNCHANGED <<storeVars, sessionSources>>

ReplaceContributionDependencies(p, dependencies) ==
  /\ session.open /\ session.sealed
  /\ tx.alive
  /\ p \in Written
  /\ tx' = [tx EXCEPT !.rows =
       {IF r.path = p /\ r.from = session.pending
        THEN [r EXCEPT !.contribution.dependencies = dependencies] ELSE r : r \in @}]
  /\ UNCHANGED <<storeVars, session, sessionSources>>

WriteWorkspaceFacts(nodes, edges) ==
  /\ session.open /\ session.sealed /\ ~session.factsSealed
  /\ nodes # {} \/ edges # {} => tx.alive
  /\ tx' = [tx EXCEPT
       !.nodes = @ \cup {[version |-> session.pending, node |-> n] : n \in nodes},
       !.edges = @ \cup {[version |-> session.pending, edge |-> e] : e \in edges}]
  /\ session' = [session EXCEPT !.factsWritten = TRUE]
  /\ UNCHANGED <<storeVars, sessionSources>>

SealWorkspaceFacts ==
  /\ session.open /\ session.sealed
  /\ tx.alive
  /\ tx' = [tx EXCEPT !.rows = CloseMissingSources(@)]
  /\ session' = [session EXCEPT !.missingSourcesClosed = TRUE, !.factsSealed = TRUE]
  /\ UNCHANGED <<storeVars, sessionSources>>

(* A plausible bug: the staged sources are left in the temporary table.    *)
Commit_KeepsSources ==
  /\ session.open
  /\ session.factsWritten => session.factsSealed
  /\ tx.alive
  /\ RecordVersion(session.pending, CloseMissingSources(tx.rows \cup session.batch),
                   tx.nodes, tx.edges)
  /\ sessionSources' = tx.sources
  /\ session' = Closed
  /\ tx' = NoTransaction

(* Commit does not require sealed contributions: it flushes and closes the *)
(* missing sources itself, records the version, applies retention and      *)
(* empties the staged sources of its version.                              *)
Commit ==
  /\ session.open
  /\ session.factsWritten => session.factsSealed
  /\ tx.alive
  /\ RecordVersion(session.pending, CloseMissingSources(tx.rows \cup session.batch),
                   tx.nodes, tx.edges)
  /\ sessionSources' = {s \in tx.sources : s.version # session.pending}
  /\ session' = Closed
  /\ tx' = NoTransaction

(* A plausible bug: a deferred transaction, which takes no lock at first.  *)
StoreOperation_NoLock ==
  /\ Next
  /\ UNCHANGED sessionVars

(* Publish, Rollback and Prune need the write lock. *)
StoreOperation ==
  /\ ~tx.alive
  /\ Next
  /\ UNCHANGED sessionVars

SessionNext ==
  \/ BeginContributionSession
  \/ Fail
  \/ RollbackSession
  \/ ContextCancelled
  \/ \E p \in Path : StageSource(p)
  \/ \E p \in Path, c \in Contribution : WriteContribution(p, c)
  \/ SealContributions
  \/ \E p \in Path, d \in DependencySets : ReplaceContributionDependencies(p, d)
  \/ \E nodes \in SUBSET Node, edges \in SUBSET Edge : WriteWorkspaceFacts(nodes, edges)
  \/ SealWorkspaceFacts
  \/ Commit
  \/ StoreOperation

SessionSpec == SessionInit /\ [][SessionNext]_vars
-----------------------------------------------------------------------------
(* Invariants *)

(* A live transaction works on the version after the newest one: nothing   *)
(* was published behind its back, even while a cancelled session is still  *)
(* held open.  Its tables, together with the rows that are still batched,  *)
(* form a sound history up to the pending version.                         *)
SoundTransaction ==
  tx.alive =>
    LET table == tx.rows \cup session.batch IN
    /\ session.open /\ session.pending = CurrentVersion + 1
    /\ session.pending <= MaxVersion
    /\ Disjoint(table)
    /\ Within(table, versions \cup {session.pending}, session.pending)

(* A transaction adds to the published versions and never touches them:    *)
(* through its tables, at every moment, they read as other readers see     *)
(* them.                                                                   *)
TransactionKeepsHistory ==
  tx.alive =>
    /\ \A v \in versions :
         ContributionsAt(tx.rows \cup session.batch, v) = ContributionsAt(rows, v)
    /\ {n \in tx.nodes : n.version # session.pending} = workspaceNodes
    /\ {e \in tx.edges : e.version # session.pending} = workspaceEdges

(* The temporary table and the rows agree: a source is staged once, a row  *)
(* of the pending version belongs to a source that is marked as written,   *)
(* nothing is batched once contributions are sealed, and once the missing  *)
(* sources are closed only staged sources have an open row.                *)
SourcesMatchRows ==
  tx.alive =>
    /\ \A s \in tx.sources : s.version = session.pending
    /\ \A s, t \in tx.sources : s.path = t.path => s = t
    /\ \A r \in tx.rows \cup session.batch : r.from = session.pending => r.path \in Written
    /\ \A r \in session.batch : r.from = session.pending
    /\ session.sealed => session.batch = {}
    /\ session.missingSourcesClosed =>
         session.sealed /\ \A r \in tx.rows : r.to = NULL => r.path \in Staged

(* Staged sources do not survive their session: a later session, also one  *)
(* that is given the same version number after a rollback, starts with     *)
(* none.                                                                   *)
NoStaleStagedSources == sessionSources = {}

(* What holds between any two steps of sessions and other writers.         *)
SessionInv ==
  /\ SessionTypeOK
  /\ SoundTransaction
  /\ TransactionKeepsHistory
  /\ SourcesMatchRows
  /\ NoStaleStagedSources
-----------------------------------------------------------------------------
(* Action properties *)

(* Whatever happens after sealing, the resolvers keep reading the same     *)
(* facts, and if the session commits, these are exactly the facts of the   *)
(* published version: no edge is resolved against something else.          *)
ResolversReadWhatIsPublished ==
  [][tx.alive /\ session.sealed =>
       \/ tx'.alive /\ ResolverFacts' = ResolverFacts
       \/ ~tx'.alive /\ UNCHANGED storeVars
       \/ /\ session.pending \in versions'
          /\ ResolverFacts = [p \in Path |->
               {c.facts : c \in ContributionsAt(rows', session.pending)[p]}]]_vars
=============================================================================
