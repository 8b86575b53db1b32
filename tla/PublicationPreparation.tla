----------------------- MODULE PublicationPreparation -----------------------
(***************************************************************************)
(* How Store.publish of storage/sqlite/sqlite.go writes one graph version, *)
(* which GraphStore takes as the single step Publish.                      *)
(*                                                                         *)
(* prepareContributions starts a feeder, some workers and a closer.  The   *)
(* feeder takes a token from the channel released for every contribution   *)
(* it hands out, so that at most Window contributions are between it and   *)
(* the writer.  storePreparedPublication receives the prepared             *)
(* contributions in any order, keeps the early ones in pending, writes     *)
(* them in the order of the update and gives a token back for each.        *)
(*                                                                         *)
(* The context of the goroutines ends with the caller's context or when    *)
(* the writer calls cancel.  prepareContribution has an error result it    *)
(* never uses, so the workers' branch for it is left out.                  *)
(***************************************************************************)
EXTENDS GraphStore, Sequences

CONSTANTS
  Requests,     \* what publish is called with
  MaxWorkers,   \* maximumPublicationWorkers, or the processors if fewer
  QueueDepth    \* publicationQueueDepth

ASSUME PreparationAssumption ==
  /\ MaxWorkers \in Nat \ {0}
  /\ QueueDepth \in Nat \ {0}

(* encodeContributions refuses an update with two contributions of a path  *)
(* (sqlite.go:3259) before anything is started.                            *)
ASSUME RequestAssumption ==
  \A r \in Requests :
    /\ r.contributions \in Seq([path : Path, contribution : Contribution])
    /\ \A i, j \in DOMAIN r.contributions :
         r.contributions[i].path = r.contributions[j].path => i = j
    /\ r.nodes \subseteq Node /\ r.edges \subseteq Edge /\ r.owners \subseteq Path

VARIABLES
  pc,            \* the caller: idle, collecting results, or writing
  request,       \* the request that is being published
  tx,            \* the tables as seen inside the transaction
  batch,         \* publicationBatch: rows not yet inserted
  pending,       \* prepared contributions that came before their turn
  nextIndex,     \* the contribution whose turn it is
  failure,       \* preparationErr
  callerDone,    \* the caller's context is done
  canceled,      \* cancel was called
  released,      \* how many tokens are in the channel of that name
  feeder,        \* the goroutine that hands out the indexes
  worker,        \* the goroutines that prepare contributions
  results,       \* the channel of prepared contributions
  resultsClosed

writerVars == <<pc, request, tx, batch, pending, nextIndex, failure>>
contextVars == <<callerDone, canceled>>
channelVars == <<released, feeder, worker, results, resultsClosed>>
vars == <<storeVars, writerVars, contextVars, channelVars>>

N == Len(request.contributions)

Workers == IF N < MaxWorkers THEN N ELSE MaxWorkers
Capacity == QueueDepth * Workers
Window == Workers + Capacity

Worker == 1 .. MaxWorkers

(* The context's error in the results channel. *)
Err == 0

EmptyRequest == [contributions |-> <<>>, nodes |-> {}, edges |-> {}, owners |-> {}]

NoTransaction == [rows |-> {}, nodes |-> {}, edges |-> {}]

(* The contributions that wait for their turn fit in the window. *)
PreparationTypeOK ==
  /\ TypeOK
  /\ pc \in {"idle", "collecting", "writing"}
  /\ request \in Requests \cup {EmptyRequest}
  /\ tx \in [rows : SUBSET Row, nodes : SUBSET NodeRow, edges : SUBSET EdgeRow]
  /\ batch \subseteq Row
  /\ pending \subseteq nextIndex .. nextIndex + Window - 1
  /\ nextIndex \in 1 .. N + 1
  /\ failure \in {"none", "canceled", "storage"}
  /\ callerDone \in BOOLEAN /\ canceled \in BOOLEAN
  /\ released \in 0 .. Window
  /\ feeder \in [at : {"token", "send", "done"}, index : 1 .. N + 1]
  /\ worker \in [Worker -> [at : {"idle", "holding", "refused", "prepared", "done"},
                            index : 0 .. N]]
  /\ results \in Seq(Err .. N) /\ Len(results) <= Capacity
  /\ resultsClosed \in BOOLEAN
-----------------------------------------------------------------------------
Done == callerDone \/ canceled

Idle == [at |-> "idle", index |-> 0]
Ended == [at |-> "done", index |-> 0]

PreparationInit ==
  /\ Init
  /\ pc = "idle" /\ request = EmptyRequest
  /\ tx = NoTransaction /\ batch = {}
  /\ pending = {} /\ nextIndex = 1 /\ failure = "none"
  /\ callerDone = FALSE /\ canceled = FALSE
  /\ released = 0
  /\ feeder = [at |-> "done", index |-> 1]
  /\ worker = [w \in Worker |-> Ended]
  /\ results = <<>> /\ resultsClosed = TRUE

Version == CurrentVersion + 1

(* The transaction begins, workspace facts are retained and stored, the    *)
(* channel of tokens is filled and the goroutines start.  An update        *)
(* without contributions starts none.  A feeder left over from the last    *)
(* call shares nothing with this one; it has ended by now.                 *)
Begin(r) ==
  LET n == Len(r.contributions)
      count == IF n < MaxWorkers THEN n ELSE MaxWorkers
  IN
  /\ pc = "idle" /\ feeder.at = "done"
  /\ Version <= MaxVersion
  /\ pc' = "collecting"
  /\ request' = r
  /\ tx' = [rows |-> rows,
            nodes |-> workspaceNodes \cup {[version |-> Version, node |-> m] : m \in r.nodes},
            edges |-> workspaceEdges \cup RetainWorkspaceFacts(Version, r.owners)
                        \cup {[version |-> Version, edge |-> e] : e \in r.edges}]
  /\ batch' = {} /\ pending' = {} /\ nextIndex' = 1 /\ failure' = "none"
  /\ callerDone' = FALSE /\ canceled' = FALSE
  /\ released' = count + QueueDepth * count
  /\ feeder' = [at |-> IF n = 0 THEN "done" ELSE "token", index |-> 1]
  /\ worker' = [w \in Worker |-> IF w <= count THEN Idle ELSE Ended]
  /\ results' = <<>> /\ resultsClosed' = (n = 0)
  /\ UNCHANGED storeVars

CallerCancels ==
  /\ pc # "idle" /\ ~callerDone
  /\ callerDone' = TRUE
  /\ UNCHANGED <<storeVars, writerVars, canceled, channelVars>>
-----------------------------------------------------------------------------
(* The feeder. *)

(* A plausible bug: no back-pressure, the tokens are ignored.              *)
TakeToken_Unlimited ==
  /\ feeder.at = "token"
  /\ feeder' = [feeder EXCEPT !.at = "send"]
  /\ UNCHANGED <<storeVars, writerVars, contextVars, released, worker, results, resultsClosed>>

TakeToken ==
  /\ feeder.at = "token" /\ released > 0
  /\ released' = released - 1
  /\ feeder' = [feeder EXCEPT !.at = "send"]
  /\ UNCHANGED <<storeVars, writerVars, contextVars, worker, results, resultsClosed>>

(* A plausible bug: the last contribution is never handed out.             *)
AfterSending_OffByOne(index) ==
  [at |-> IF index + 1 >= N THEN "done" ELSE "token", index |-> index + 1]

AfterSending(index) ==
  [at |-> IF index = N THEN "done" ELSE "token", index |-> index + 1]

(* The channel of jobs has no buffer: a worker that waits takes the index. *)
HandOver(w) ==
  /\ feeder.at = "send" /\ worker[w].at = "idle"
  /\ worker' = [worker EXCEPT ![w] = [at |-> "holding", index |-> feeder.index]]
  /\ feeder' = AfterSending(feeder.index)
  /\ UNCHANGED <<storeVars, writerVars, contextVars, released, results, resultsClosed>>

(* A plausible bug: the feeder waits for a worker or a token only.         *)
FeederStops_Never == FALSE

(* Both selects of the feeder give up when the context is done. *)
FeederStops ==
  /\ feeder.at # "done" /\ Done
  /\ feeder' = [feeder EXCEPT !.at = "done"]
  /\ UNCHANGED <<storeVars, writerVars, contextVars, released, worker, results, resultsClosed>>
-----------------------------------------------------------------------------
(* A worker. *)

WorkerMoves(w, from, to) ==
  /\ worker[w].at = from
  /\ worker' = [worker EXCEPT ![w] = IF to \in {"idle", "done"} THEN [at |-> to, index |-> 0]
                                     ELSE [@ EXCEPT !.at = to]]
  /\ UNCHANGED <<storeVars, writerVars, contextVars, released, feeder, resultsClosed>>

(* jobs is closed when the feeder returns. *)
NoMoreJobs(w) ==
  /\ feeder.at = "done"
  /\ WorkerMoves(w, "idle", "done")
  /\ UNCHANGED results

Prepare(w) ==
  /\ WorkerMoves(w, "holding", IF Done THEN "refused" ELSE "prepared")
  /\ UNCHANGED results

Send(result) ==
  /\ Len(results) < Capacity
  /\ results' = Append(results, result)

SendError(w) == WorkerMoves(w, "refused", "done") /\ Send(Err)

SendPrepared(w) == WorkerMoves(w, "prepared", "idle") /\ Send(worker[w].index)

(* Either select may also notice that the context is done, and return. *)
GiveUp(w) ==
  /\ Done
  /\ \E from \in {"refused", "prepared"} : WorkerMoves(w, from, "done")
  /\ UNCHANGED results

WorkerStep(w) ==
  HandOver(w) \/ NoMoreJobs(w) \/ Prepare(w) \/ SendError(w) \/ SendPrepared(w) \/ GiveUp(w)

CloseResults ==
  /\ ~resultsClosed
  /\ \A w \in Worker : worker[w].at = "done"
  /\ resultsClosed' = TRUE
  /\ UNCHANGED <<storeVars, writerVars, contextVars, released, feeder, worker, results>>
-----------------------------------------------------------------------------
(* The caller: storePreparedPublication. *)

(* An error cancels the others; after an error results are only drained.   *)
(* A later error replaces the one that was kept.                           *)
Receive ==
  LET result == Head(results) IN
  /\ pc = "collecting" /\ results # <<>>
  /\ results' = Tail(results)
  /\ \/ /\ result = Err
        /\ failure' = "canceled" /\ canceled' = TRUE
        /\ UNCHANGED <<pc, pending>>
     \/ /\ result # Err /\ failure # "none"
        /\ UNCHANGED <<pc, pending, failure, canceled>>
     \/ /\ result # Err /\ failure = "none"
        /\ pending' = pending \cup {result}
        /\ pc' = "writing"
        /\ UNCHANGED <<failure, canceled>>
  /\ UNCHANGED <<storeVars, request, tx, batch, nextIndex, callerDone,
                 released, feeder, worker, resultsClosed>>

NextContribution == request.contributions[nextIndex]

NextRow == NewRecord(NextContribution.path, Version, NextContribution.contribution)

(* batch.add: the old record is closed at once, the new one joins the      *)
(* batch, which is inserted when a table has enough rows (left open).  No  *)
(* statement succeeds once the caller's context is done.                   *)
Added(flush) ==
  /\ Version > 1 \/ flush => ~callerDone
  /\ LET closed == IF Version > 1
                   THEN CloseContributionRecords(tx.rows, {NextContribution.path}, Version - 1)
                   ELSE tx.rows
     IN IF flush THEN /\ tx' = [tx EXCEPT !.rows = closed \cup batch \cup {NextRow}]
                      /\ batch' = {}
                 ELSE /\ tx' = [tx EXCEPT !.rows = closed]
                      /\ batch' = batch \cup {NextRow}

(* A plausible bug: the token is not given back.                           *)
WriteNext_KeepsToken(flush) ==
  /\ pc = "writing" /\ nextIndex \in pending
  /\ Added(flush)
  /\ pending' = pending \ {nextIndex}
  /\ nextIndex' = nextIndex + 1
  /\ UNCHANGED <<storeVars, pc, request, failure, contextVars, channelVars>>

(* A contribution whose turn it is is written and its token given back;    *)
(* the send would block on a full channel.                                 *)
WriteNext(flush) ==
  /\ pc = "writing" /\ nextIndex \in pending
  /\ released < Window
  /\ Added(flush)
  /\ pending' = pending \ {nextIndex}
  /\ nextIndex' = nextIndex + 1
  /\ released' = released + 1
  /\ UNCHANGED <<storeVars, pc, request, failure, contextVars, feeder, worker, results,
                 resultsClosed>>

WriteFails ==
  /\ pc = "writing" /\ nextIndex \in pending
  /\ pending' = pending \ {nextIndex}
  /\ failure' = "storage" /\ canceled' = TRUE
  /\ pc' = "collecting"
  /\ UNCHANGED <<storeVars, request, tx, batch, nextIndex, callerDone, channelVars>>

NoneReady ==
  /\ pc = "writing" /\ nextIndex \notin pending
  /\ pc' = "collecting"
  /\ UNCHANGED <<storeVars, request, tx, batch, pending, nextIndex, failure, contextVars,
                 channelVars>>

Collected == pc = "collecting" /\ resultsClosed /\ results = <<>>

(* publish returns; its deferred calls end the transaction and the context *)
(* of the goroutines.                                                      *)
Return ==
  /\ pc' = "idle"
  /\ request' = EmptyRequest
  /\ tx' = NoTransaction /\ batch' = {} /\ pending' = {} /\ nextIndex' = 1 /\ failure' = "none"
  /\ canceled' = TRUE
  /\ callerDone' = FALSE
  /\ released' = 0
  /\ feeder' = [feeder EXCEPT !.index = 1]
  /\ UNCHANGED <<worker, results, resultsClosed>>

(* A plausible bug: the rows that are still in the batch are forgotten.    *)
Commit_NoFlush ==
  /\ Collected /\ failure = "none" /\ ~callerDone /\ nextIndex = N + 1
  /\ RecordVersion(Version, tx.rows, tx.nodes, tx.edges)
  /\ Return

(* The rest of the batch is inserted, the version recorded and retention   *)
(* applied, if nothing went wrong and all contributions were written.      *)
Commit ==
  /\ Collected /\ failure = "none" /\ ~callerDone /\ nextIndex = N + 1
  /\ RecordVersion(Version, tx.rows \cup batch, tx.nodes, tx.edges)
  /\ Return

(* An error was kept, the caller gave up, contributions are missing, or    *)
(* one of the last statements fails: nothing is published.                 *)
PublicationFails ==
  /\ Collected
  /\ Return
  /\ UNCHANGED storeVars

Write == \E flush \in BOOLEAN : WriteNext(flush)

PreparationNext ==
  \/ \E r \in Requests : Begin(r)
  \/ CallerCancels
  \/ TakeToken \/ FeederStops
  \/ \E w \in Worker : WorkerStep(w)
  \/ CloseResults
  \/ Receive \/ Write \/ WriteFails \/ NoneReady
  \/ Commit \/ PublicationFails

(* Every goroutine that can run does run; statements end.                  *)
PreparationSpec ==
  /\ PreparationInit /\ [][PreparationNext]_vars
  /\ WF_vars(TakeToken \/ FeederStops)
  /\ \A w \in Worker : WF_vars(WorkerStep(w))
  /\ WF_vars(CloseResults)
  /\ WF_vars(Receive \/ Write \/ WriteFails \/ NoneReady \/ Commit \/ PublicationFails)
-----------------------------------------------------------------------------
(* Properties *)

Dispatched == (feeder.index - 1) + (IF feeder.at = "send" THEN 1 ELSE 0)

(* The goroutines do nothing out of turn: a worker holds an index exactly  *)
(* while it has work, refuses it only once the context is done, and the    *)
(* results are closed when all workers have left, which is before publish  *)
(* returns.                                                                *)
WorkersInPlace ==
  /\ \A w \in Worker : worker[w].index = 0 <=> worker[w].at \in {"idle", "done"}
  /\ \A w \in Worker : worker[w].at = "refused" => Done
  /\ resultsClosed => \A w \in Worker : worker[w].at = "done"
  /\ pc = "idle" => resultsClosed /\ results = <<>>

(* The feeder ends after the last index and a worker after the feeder,     *)
(* unless the context is done.                                             *)
FeederInPlace ==
  pc # "idle" =>
    /\ feeder.at # "done" => feeder.index <= N
    /\ ~Done /\ feeder.at = "done" => feeder.index = N + 1
    /\ ~Done => \A w \in 1 .. Workers : worker[w].at = "done" => feeder.at = "done"

(* Only a failure cancels, and the writer leaves its loop on a failure or  *)
(* when the next contribution has not come.                                *)
FailuresCancel ==
  /\ failure # "none" => canceled
  /\ pc # "idle" /\ canceled => failure # "none"
  /\ pc = "collecting" /\ failure = "none" => nextIndex \notin pending

(* Indexes handed out and not written yet. *)
InFlight == nextIndex .. feeder.index - 1

(* No index is in two places: with two workers, twice in the results, or   *)
(* in pending and elsewhere; and none of them was written before.          *)
HandedOutOnce ==
  /\ nextIndex <= feeder.index
  /\ pending \subseteq InFlight
  /\ \A w \in Worker : worker[w].index # 0 =>
       /\ worker[w].index \in InFlight \ pending
       /\ \A x \in Worker : worker[x].index = worker[w].index => x = w
  /\ \A k \in DOMAIN results : results[k] # Err =>
       /\ results[k] \in InFlight \ pending
       /\ \A w \in Worker : worker[w].index # results[k]
       /\ \A l \in DOMAIN results : results[l] = results[k] => l = k

(* A token is lost with a contribution that a failure keeps from being     *)
(* written, but none is ever made.                                         *)
TokensBounded ==
  pc # "idle" => released + (Dispatched - (nextIndex - 1)) <= Window

WrittenPaths == {request.contributions[i].path : i \in 1 .. nextIndex - 1}

(* The transaction has written the first nextIndex - 1 contributions, some *)
(* of which are still in the batch, and the workspace facts.               *)
TransactionInOrder ==
  pc # "idle" =>
    /\ request \in Requests /\ Version <= MaxVersion
    /\ tx.rows \cup batch =
         CloseContributionRecords(rows, WrittenPaths, Version - 1)
           \cup {NewRecord(request.contributions[i].path, Version,
                           request.contributions[i].contribution) : i \in 1 .. nextIndex - 1}
    /\ \A r \in batch : r.path \in WrittenPaths
    /\ tx.nodes = workspaceNodes \cup {[version |-> Version, node |-> m] : m \in request.nodes}
    /\ tx.edges = workspaceEdges \cup RetainWorkspaceFacts(Version, request.owners)
                    \cup {[version |-> Version, edge |-> e] : e \in request.edges}

(* storePreparedPublication: while nothing has failed, every contribution  *)
(* the feeder took a token for and that is not written holds exactly that  *)
(* token, so that giving it back never blocks the writer, and is still     *)
(* with a worker, in the results or waiting for its turn.                  *)
WindowHolds ==
  pc # "idle" /\ ~Done =>
    /\ released + (Dispatched - (nextIndex - 1)) = Window
    /\ \A i \in nextIndex .. feeder.index - 1 :
         \/ i \in pending
         \/ \E k \in DOMAIN results : results[k] = i
         \/ \E w \in Worker : worker[w].index = i

(* The check "received %d of %d contributions" (sqlite.go:1123) never      *)
(* fires: if the results end without an error all contributions are        *)
(* written; and when publish has returned no worker is left.               *)
CollectionIsComplete ==
  /\ Collected /\ failure = "none" /\ ~callerDone => nextIndex = N + 1 /\ pending = {}
  /\ pc = "idle" => \A w \in Worker : worker[w].at = "done"

(* The inductive invariant of a publication: the store is sound, the       *)
(* goroutines account for every index and token, and the transaction has   *)
(* written the beginning of the request.                                   *)
PreparationInv ==
  /\ PreparationTypeOK
  /\ StoreInv
  /\ WorkersInPlace
  /\ FeederInPlace
  /\ FailuresCancel
  /\ HandedOutOnce
  /\ TokensBounded
  /\ WindowHolds
  /\ TransactionInOrder

Update(r) ==
  [p \in {c.path : c \in {r.contributions[i] : i \in DOMAIN r.contributions}} |->
     (CHOOSE c \in {r.contributions[i] : i \in DOMAIN r.contributions} : c.path = p).contribution]

(* Whatever the order in which the workers finish, whenever the batch is   *)
(* flushed and whoever fails or cancels, the store changes in one step     *)
(* only, and that step publishes the request (GraphStore's Publish).       *)
PublishesExactlyTheRequest ==
  [][Publish(Update(request), request.nodes, request.edges, request.owners)]_storeVars

(* publish returns and its goroutines end, although every one of them      *)
(* waits for another on a bounded channel.                                 *)
PublicationReturns ==
  pc # "idle" ~> pc = "idle" /\ feeder.at = "done"
=============================================================================
