---------------------------- MODULE IndexPipeline ----------------------------
(***************************************************************************)
(* The initial index pipeline of index/initial_pipeline.go.                *)
(*                                                                         *)
(* One producer goroutine discovers sources, stages each in the session    *)
(* and sends it to the jobs channel; a pool of workers extracts them and   *)
(* sends results; the caller's goroutine consumes the results, writes the  *)
(* contributions to the session and finally returns a verdict.  A fourth   *)
(* goroutine closes the results channel when every worker has returned.    *)
(* The first failure anywhere cancels the run.                             *)
(*                                                                         *)
(* Of the contribution session only what the pipeline can observe is here: *)
(* whether it is open, which sources are staged and which are written.     *)
(***************************************************************************)
EXTENDS Naturals, Sequences, FiniteSetsExt

CONSTANTS
  Worker,         \* extraction workers, GOMAXPROCS of them
  MaxSources,     \* bound on the number of sources discovered
  QueueCapacity,  \* initialContributionQueueCapacity, of both channels
  AllowEmpty      \* whether the workspace has a snapshot already

ASSUME PipelineAssumption ==
  /\ MaxSources \in Nat
  /\ QueueCapacity \in Nat \ {0}
  /\ AllowEmpty \in BOOLEAN
  /\ Worker # {}

VARIABLES
  extracts,         \* per discovered source: whether its extraction succeeds
  callerCancelled,  \* the caller's context is done
  runCancelled,     \* run.cancel was called
  sessionOpen, staged, written,
  producer, emitted, producerError,
  jobs, jobsClosed,
  worker,
  results, resultsClosed,
  initError, extractionError, writeError,
  verdict

vars == <<extracts, callerCancelled, runCancelled, sessionOpen, staged, written,
          producer, emitted, producerError, jobs, jobsClosed, worker,
          results, resultsClosed, initError, extractionError, writeError, verdict>>

sessionVars == <<sessionOpen, staged, written>>
producerVars == <<producer, emitted, producerError>>
consumerVars == <<initError, extractionError, writeError, verdict>>

N == Len(extracts)
Index == 1 .. MaxSources

(* A result of source index i, or of a worker that could not start (0). *)
Result == [index : 0 .. MaxSources, ok : BOOLEAN]

(* run.ctx is derived from the caller's context. *)
Cancelled == runCancelled \/ callerCancelled

TypeOK ==
  /\ extracts \in UNION {[1 .. n -> BOOLEAN] : n \in 0 .. MaxSources}
  /\ callerCancelled \in BOOLEAN /\ runCancelled \in BOOLEAN
  /\ sessionOpen \in BOOLEAN
  /\ staged \subseteq Index /\ written \subseteq Index
  /\ producer \in {"emitting", "sending", "done"}
  /\ emitted \in 0 .. MaxSources
  /\ producerError \in {"none", "canceled", "closed", "discovery", "stage"}
  /\ jobs \in Seq(Index) /\ Len(jobs) <= QueueCapacity
  /\ results \in Seq(Result) /\ Len(results) <= QueueCapacity
  /\ jobsClosed \in BOOLEAN /\ resultsClosed \in BOOLEAN
  /\ worker \in [Worker -> [at : {"starting", "idle", "extracting", "sending", "done"},
                            result : Result]]
  /\ initError \in BOOLEAN /\ writeError \in BOOLEAN
  /\ extractionError \in 0 .. MaxSources
  /\ verdict \in {"running", "extracted", "committed", "canceled", "closed", "discovery",
                  "stage", "init", "extraction", "write", "empty", "commit"}
-----------------------------------------------------------------------------
Nothing == [index |-> 0, ok |-> FALSE]

Init ==
  /\ extracts \in UNION {[1 .. n -> BOOLEAN] : n \in 0 .. MaxSources}
  /\ callerCancelled = FALSE /\ runCancelled = FALSE
  /\ sessionOpen = TRUE /\ staged = {} /\ written = {}
  /\ producer = "emitting" /\ emitted = 0 /\ producerError = "none"
  /\ jobs = <<>> /\ jobsClosed = FALSE
  /\ worker = [w \in Worker |-> [at |-> "starting", result |-> Nothing]]
  /\ results = <<>> /\ resultsClosed = FALSE
  /\ initError = FALSE /\ extractionError = 0 /\ writeError = FALSE
  /\ verdict = "running"

(* The caller gives up while the pipeline runs. *)
CallerCancels ==
  /\ verdict \in {"running", "extracted"}
  /\ ~callerCancelled
  /\ callerCancelled' = TRUE
  /\ UNCHANGED <<extracts, runCancelled, sessionVars, producerVars, jobs, jobsClosed,
                 worker, results, resultsClosed, consumerVars>>
-----------------------------------------------------------------------------
(* The producer goroutine. *)

(* The stream returned: its error is kept, the run is cancelled if there   *)
(* is one, and the jobs channel is closed on the way out.                  *)
ProducerReturns(error) ==
  /\ producer' = "done"
  /\ producerError' = error
  /\ runCancelled' = (runCancelled \/ error # "none")
  /\ jobsClosed' = TRUE
  /\ UNCHANGED <<extracts, callerCancelled, staged, written, emitted, jobs,
                 worker, results, resultsClosed, consumerVars>>

StageNext ==
  /\ producer = "emitting" /\ emitted < N
  /\ sessionOpen /\ ~Cancelled
  /\ staged' = staged \cup {emitted + 1}
  /\ emitted' = emitted + 1
  /\ producer' = "sending"
  /\ UNCHANGED <<extracts, callerCancelled, runCancelled, sessionOpen, written,
                 producerError, jobs, jobsClosed, worker, results, resultsClosed,
                 consumerVars>>

(* StageSource fails: the closed check comes before the statement runs     *)
(* with the run's context, and a failing statement closes the session.     *)
StageFails ==
  /\ producer = "emitting" /\ emitted < N
  /\ sessionOpen' = FALSE
  /\ \E error \in {"closed", "canceled", "stage"} :
       /\ (error = "closed") <=> ~sessionOpen
       /\ (error = "canceled") <=> sessionOpen /\ Cancelled
       /\ ProducerReturns(error)

(* The walk or the loop over the sources fails or notices cancellation. *)
DiscoveryFails ==
  /\ producer = "emitting"
  /\ UNCHANGED sessionOpen
  /\ \E error \in {"canceled", "discovery"} :
       /\ error = "canceled" => Cancelled
       /\ ProducerReturns(error)

(* A plausible bug: an unbounded job queue.                                *)
SendJob_Unbounded ==
  /\ producer = "sending"
  /\ jobs' = Append(jobs, emitted)
  /\ producer' = "emitting"
  /\ UNCHANGED <<extracts, callerCancelled, runCancelled, sessionVars, emitted,
                 producerError, jobsClosed, worker, results, resultsClosed, consumerVars>>

(* A plausible bug: sending without watching run.ctx.Done().               *)
SendCancelled_Never == FALSE

(* select between the jobs channel and run.ctx.Done(). *)
SendJob ==
  /\ producer = "sending"
  /\ Len(jobs) < QueueCapacity
  /\ jobs' = Append(jobs, emitted)
  /\ producer' = "emitting"
  /\ UNCHANGED <<extracts, callerCancelled, runCancelled, sessionVars, emitted,
                 producerError, jobsClosed, worker, results, resultsClosed, consumerVars>>

SendCancelled ==
  /\ producer = "sending" /\ Cancelled
  /\ UNCHANGED sessionOpen
  /\ ProducerReturns("canceled")

DiscoveryEnds ==
  /\ producer = "emitting" /\ emitted = N
  /\ UNCHANGED sessionOpen
  /\ ProducerReturns("none")

Producer == StageNext \/ StageFails \/ SendJob \/ SendCancelled \/ DiscoveryEnds
-----------------------------------------------------------------------------
(* The extraction workers. *)

WorkerMoves(w, at, result) ==
  /\ worker' = [worker EXCEPT ![w] = [at |-> at, result |-> result]]
  /\ UNCHANGED <<extracts, callerCancelled, sessionVars, producerVars, jobsClosed,
                 resultsClosed, consumerVars>>

StartWorker(w) ==
  /\ worker[w].at = "starting"
  /\ WorkerMoves(w, "idle", Nothing)
  /\ UNCHANGED <<runCancelled, jobs, results>>

(* The TypeScript worker cannot be created. *)
StartWorkerFails(w) ==
  /\ worker[w].at = "starting"
  /\ runCancelled' = TRUE
  /\ WorkerMoves(w, "sending", Nothing)
  /\ UNCHANGED <<jobs, results>>

TakeJob(w) ==
  /\ worker[w].at = "idle" /\ jobs # <<>>
  /\ jobs' = Tail(jobs)
  /\ WorkerMoves(w, "extracting", [index |-> Head(jobs), ok |-> extracts[Head(jobs)]])
  /\ UNCHANGED <<runCancelled, results>>

NoMoreJobs(w) ==
  /\ worker[w].at = "idle" /\ jobs = <<>> /\ jobsClosed
  /\ WorkerMoves(w, "done", Nothing)
  /\ UNCHANGED <<runCancelled, jobs, results>>

(* A failed extraction cancels the run before its result is sent. *)
Extract(w) ==
  /\ worker[w].at = "extracting"
  /\ runCancelled' = (runCancelled \/ ~worker[w].result.ok)
  /\ WorkerMoves(w, "sending", worker[w].result)
  /\ UNCHANGED <<jobs, results>>

(* The worker sends whatever happened to the run, and stops if it failed. *)
SendResult(w) ==
  /\ worker[w].at = "sending"
  /\ Len(results) < QueueCapacity
  /\ results' = Append(results, worker[w].result)
  /\ WorkerMoves(w, IF worker[w].result.ok THEN "idle" ELSE "done", Nothing)
  /\ UNCHANGED <<runCancelled, jobs>>

WorkerStep(w) ==
  \/ StartWorker(w) \/ StartWorkerFails(w) \/ TakeJob(w)
  \/ NoMoreJobs(w) \/ Extract(w) \/ SendResult(w)

CloseExtractionResults ==
  /\ ~resultsClosed
  /\ \A w \in Worker : worker[w].at = "done"
  /\ resultsClosed' = TRUE
  /\ UNCHANGED <<extracts, callerCancelled, runCancelled, sessionVars, producerVars, jobs,
                 jobsClosed, worker, results, consumerVars>>
-----------------------------------------------------------------------------
(* The consumer: the goroutine that called Run. *)

Failed == initError \/ writeError \/ extractionError # 0

Receive(result) ==
  /\ verdict = "running"
  /\ results # <<>> /\ result = Head(results)
  /\ results' = Tail(results)
  /\ UNCHANGED <<extracts, callerCancelled, staged, producerVars, jobs, jobsClosed,
                 worker, resultsClosed, verdict>>

(* A plausible bug: the failure that arrives first is kept.                *)
KeptError_First(index) ==
  IF extractionError = 0 THEN index ELSE extractionError

(* The failing source with the lowest index is kept. *)
KeptError(index) ==
  IF extractionError = 0 \/ index < extractionError THEN index ELSE extractionError

ReceiveFailure ==
  \E result \in Result :
    /\ Receive(result)
    /\ ~result.ok
    /\ IF result.index = 0
       THEN initError' = TRUE /\ UNCHANGED extractionError
       ELSE extractionError' = KeptError(result.index) /\ UNCHANGED initError
    /\ runCancelled' = TRUE
    /\ UNCHANGED <<sessionOpen, written, writeError>>

(* After a failure the remaining contributions are drained. *)
DrainContribution ==
  \E result \in Result :
    /\ Receive(result)
    /\ result.ok /\ Failed
    /\ UNCHANGED <<runCancelled, sessionOpen, written, initError, extractionError, writeError>>

WriteContribution ==
  \E result \in Result :
    /\ Receive(result)
    /\ result.ok /\ ~Failed
    /\ sessionOpen /\ ~callerCancelled
    /\ written' = written \cup {result.index}
    /\ UNCHANGED <<runCancelled, sessionOpen, initError, extractionError, writeError>>

(* The session is closed, the caller cancelled, or the statement fails;    *)
(* either way the session is closed afterwards.                            *)
WriteContributionFails ==
  \E result \in Result :
    /\ Receive(result)
    /\ result.ok /\ ~Failed
    /\ writeError' = TRUE
    /\ sessionOpen' = FALSE
    /\ runCancelled' = TRUE
    /\ UNCHANGED <<written, initError, extractionError>>

(* A plausible bug: the producer's error is never looked at.               *)
Verdict_IgnoresProducer ==
  CASE callerCancelled -> "canceled"
    [] ~callerCancelled /\ initError -> "init"
    [] ~callerCancelled /\ ~initError /\ extractionError # 0 -> "extraction"
    [] ~callerCancelled /\ ~initError /\ extractionError = 0 /\ writeError -> "write"
    [] ~callerCancelled /\ ~Failed -> "extracted"

(* The results channel is closed and drained: the order in which the       *)
(* recorded errors are reported.                                           *)
Verdict ==
  CASE callerCancelled -> "canceled"
    [] ~callerCancelled /\ producerError \notin {"none", "canceled"} -> producerError
    [] ~callerCancelled /\ producerError \in {"none", "canceled"} ->
         CASE initError -> "init"
           [] ~initError /\ extractionError # 0 -> "extraction"
           [] ~initError /\ extractionError = 0 /\ writeError -> "write"
           [] ~Failed /\ N = 0 /\ ~AllowEmpty -> "empty"
           [] ~Failed /\ ~(N = 0 /\ ~AllowEmpty) -> "extracted"

(* extractAndWriteContributions cancels the run as it returns, and Run     *)
(* rolls the session back unless it goes on to commit it.                  *)
ReachVerdict ==
  /\ verdict = "running"
  /\ results = <<>> /\ resultsClosed
  /\ verdict' = Verdict
  /\ sessionOpen' = (sessionOpen /\ Verdict = "extracted")
  /\ runCancelled' = TRUE
  /\ UNCHANGED <<extracts, callerCancelled, staged, written, producerVars, jobs, jobsClosed,
                 worker, results, resultsClosed, initError, extractionError, writeError>>

(* Seal, resolve, seal facts, commit: one write transaction, so all of it  *)
(* or nothing.  A cancelled caller or any failing statement ends in a      *)
(* rollback; the session is over in both cases.                            *)
Finish(outcome) ==
  /\ verdict = "extracted"
  /\ outcome = "committed" => sessionOpen /\ ~callerCancelled
  /\ verdict' = outcome
  /\ sessionOpen' = FALSE
  /\ UNCHANGED <<extracts, callerCancelled, runCancelled, staged, written, producerVars, jobs,
                 jobsClosed, worker, results, resultsClosed, initError, extractionError,
                 writeError>>

Consumer ==
  \/ ReceiveFailure \/ DrainContribution \/ WriteContribution \/ WriteContributionFails
  \/ ReachVerdict \/ Finish("committed") \/ Finish("commit")
-----------------------------------------------------------------------------
Over == /\ verdict \notin {"running", "extracted"}
        /\ producer = "done"
        /\ \A w \in Worker : worker[w].at = "done"

Next ==
  \/ CallerCancels
  \/ Producer
  \/ DiscoveryFails
  \/ \E w \in Worker : WorkerStep(w)
  \/ CloseExtractionResults
  \/ Consumer

(* Every goroutine that can run does run; extraction and statements end.   *)
Spec ==
  /\ Init /\ [][Next]_vars
  /\ WF_vars(Producer)
  /\ \A w \in Worker : WF_vars(WorkerStep(w))
  /\ WF_vars(CloseExtractionResults)
  /\ WF_vars(Consumer)
-----------------------------------------------------------------------------
(* The bookkeeping the properties rest on. *)

(* A worker has the result of source i, or the results channel holds it.   *)
Busy(w) == worker[w].at \in {"extracting", "sending"}
Outstanding(i) ==
  \/ \E w \in Worker : Busy(w) /\ worker[w].result.index = i
  \/ \E k \in 1 .. Len(results) : results[k].index = i

(* A failure on its way to the consumer, or already there. *)
FailureInFlight ==
  \/ Failed
  \/ \E w \in Worker : worker[w].at = "sending" /\ ~worker[w].result.ok
  \/ \E k \in 1 .. Len(results) : ~results[k].ok

(* A result is that of a source, as its extraction went, or a failed start. *)
Sound(result) ==
  IF result.index = 0 THEN ~result.ok
  ELSE result.index \in 1 .. N /\ result.ok = extracts[result.index]

ResultsAreSound ==
  /\ \A w \in Worker : Busy(w) => Sound(worker[w].result)
  /\ \A w \in Worker : worker[w].at = "extracting" => worker[w].result.index # 0
  /\ \A k \in 1 .. Len(results) : Sound(results[k])
  /\ extractionError # 0 => extractionError \in 1 .. N /\ ~extracts[extractionError]

ProducerInOrder ==
  /\ emitted <= N /\ staged = 1 .. emitted
  /\ producer = "sending" => emitted # 0
  /\ producer = "done" <=> jobsClosed
  /\ producer # "done" => producerError = "none"
  /\ producer = "done" /\ producerError = "none" => emitted = N

(* The workers have taken the first t sources and the channel holds the    *)
(* next ones, up to those the producer has not sent.  Of those taken,      *)
(* whatever is not outstanding was written or came after a failure, and a  *)
(* failed one left an extraction error at or before it.                    *)
TakenUpTo(t) ==
  /\ \A k \in 1 .. Len(jobs) : jobs[k] = t + k
  /\ producer = "emitting" => t + Len(jobs) = emitted
  /\ producer = "sending" => t + Len(jobs) + 1 = emitted
  /\ producer = "done" => t + Len(jobs) <= emitted
  /\ producer = "done" /\ producerError = "none" => t + Len(jobs) = emitted
  /\ written \subseteq 1 .. t /\ extractionError <= t
  /\ \A w \in Worker : Busy(w) => worker[w].result.index <= t
  /\ \A k \in 1 .. Len(results) : results[k].index <= t
  /\ \A i \in 1 .. t :
       \/ Outstanding(i)
       \/ extracts[i] /\ (i \in written \/ Failed)
       \/ ~extracts[i] /\ extractionError # 0 /\ extractionError <= i

JobsTakenInOrder == \E t \in 0 .. MaxSources : TakenUpTo(t)

(* Nothing stops early without a reason the consumer learns of: the run is *)
(* cancelled by a failure, by the producer's error or by the verdict, the  *)
(* producer gives up for the caller or a failure, and a worker returns at  *)
(* the end of the jobs or after a failure.                                 *)
StopsHaveACause ==
  /\ runCancelled /\ verdict = "running" => FailureInFlight \/ producerError # "none"
  /\ producerError = "canceled" => callerCancelled \/ FailureInFlight
  /\ \A w \in Worker :
       worker[w].at = "done" => FailureInFlight \/ (jobs = <<>> /\ jobsClosed)

ClosedInOrder ==
  /\ resultsClosed => \A w \in Worker : worker[w].at = "done"
  /\ verdict # "running" => resultsClosed /\ results = <<>>
-----------------------------------------------------------------------------
(* Properties *)

Failing == {i \in 1 .. N : ~extracts[i]}

(* deterministic_error_test.go:25: whatever the workers' speed, an         *)
(* extraction error names the first source that cannot be extracted.       *)
EarliestFailureReported ==
  verdict = "extraction" => extractionError = Min(Failing)

(* What Run seals and commits holds every discovered source: all were      *)
(* staged and written, discovery ended without error and no extraction     *)
(* failed, even though the run's cancellation makes the producer stop      *)
(* quietly; and no goroutine is left that could still touch the session.   *)
CommittedIsComplete ==
  verdict \in {"extracted", "committed"} =>
    /\ staged = 1 .. N /\ written = staged
    /\ Failing = {}
    /\ producerError = "none"
    /\ producer = "done" /\ jobs = <<>> /\ \A w \in Worker : worker[w].at = "done"

(* The inductive invariant of the pipeline: what the goroutines hold       *)
(* between them accounts for every source, in the order of discovery, and  *)
(* every early stop for its cause.                                         *)
PipelineInv ==
  /\ TypeOK
  /\ ResultsAreSound
  /\ ProducerInOrder
  /\ JobsTakenInOrder
  /\ StopsHaveACause
  /\ ClosedInOrder
  /\ CommittedIsComplete
  /\ EarliestFailureReported

(* Run returns and every goroutine it started ends, with channels of any   *)
(* capacity and whoever fails or cancels first.                            *)
PipelineTerminates == <>Over

(* deterministic_error_test.go:103 (extraction failure takes precedence    *)
(* over contribution write failure), when nothing but an extraction and a  *)
(* write has failed.                                                       *)
ExtractionFailureTakesPrecedence ==
  ~callerCancelled /\ ~initError /\ producerError \notin {"discovery", "stage"} =>
    (verdict # "running" /\ extractionError # 0 => verdict = "extraction")
=============================================================================
