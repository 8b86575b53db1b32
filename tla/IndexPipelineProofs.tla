------------------------- MODULE IndexPipelineProofs -------------------------
(***************************************************************************)
(* The initial index pipeline reports the earliest extraction failure and  *)
(* commits nothing but the whole workspace, for every number of sources    *)
(* and workers and every channel capacity.                                 *)
(***************************************************************************)
EXTENDS IndexPipeline, TLAPS

WorkerState == {"starting", "idle", "extracting", "sending", "done"}
ErrorName == {"none", "canceled", "closed", "discovery", "stage"}
-----------------------------------------------------------------------------
(* What the type invariant says of the discovered sources, in the form the *)
(* proofs use.                                                             *)
LEMMA SourcesTyped ==
  ASSUME TypeOK
  PROVE  /\ N \in Nat /\ N <= MaxSources
         /\ extracts \in [1 .. N -> BOOLEAN]
<1>1. PICK n \in 0 .. MaxSources : extracts \in [1 .. n -> BOOLEAN]
  BY DEF TypeOK
<1>2. n \in Nat /\ n <= MaxSources
  BY <1>1, PipelineAssumption
<1>3. Len(extracts) = n
  BY <1>1, <1>2
<1> QED BY <1>1, <1>2, <1>3 DEF N

(* The initial states satisfy the invariant: no source was emitted yet.    *)
LEMMA PipelineInit == Init => PipelineInv
<1> SUFFICES ASSUME Init PROVE PipelineInv
  OBVIOUS
<1> USE PipelineAssumption
<1>1. TypeOK
  <2>1. Nothing.index = 0 /\ Nothing \in Result
    BY DEF Nothing, Result
  <2>2. worker \in [Worker -> [at : {"starting", "idle", "extracting", "sending", "done"},
                              result : Result]]
    BY <2>1 DEF Init
  <2>3. jobs \in Seq(Index) /\ results \in Seq(Result) /\ Len(jobs) = 0 /\ Len(results) = 0
    BY DEF Init
  <2>4. /\ staged \subseteq Index /\ written \subseteq Index
        /\ emitted \in 0 .. MaxSources /\ extractionError \in 0 .. MaxSources
        /\ Len(jobs) <= QueueCapacity /\ Len(results) <= QueueCapacity
    BY <2>3 DEF Init
  <2> QED BY <2>2, <2>3, <2>4, Zenon DEF Init, TypeOK
<1>2. ResultsAreSound /\ ClosedInOrder /\ StopsHaveACause
  BY DEF Init, ResultsAreSound, ClosedInOrder, StopsHaveACause, Busy
<1>3. ProducerInOrder
  BY <1>1, SourcesTyped DEF Init, ProducerInOrder
<1>4. TakenUpTo(0)
  BY DEF Init, TakenUpTo, Busy
<1>5. JobsTakenInOrder
  BY <1>4 DEF JobsTakenInOrder
<1>6. CommittedIsComplete /\ EarliestFailureReported
  BY DEF Init, CommittedIsComplete, EarliestFailureReported
<1> QED BY <1>1, <1>2, <1>3, <1>5, <1>6 DEF PipelineInv
-----------------------------------------------------------------------------
(* The caller's cancellation adds a cause and changes nothing else.        *)
LEMMA CallerCancelsKeeps == PipelineInv /\ CallerCancels => PipelineInv'
<1> SUFFICES ASSUME PipelineInv, CallerCancels PROVE PipelineInv'
  OBVIOUS
<1> USE DEF CallerCancels, sessionVars, producerVars, consumerVars
<1>1. TypeOK'
  BY DEF PipelineInv, TypeOK
<1>2. ResultsAreSound' /\ ProducerInOrder' /\ ClosedInOrder'
  BY DEF PipelineInv, ResultsAreSound, ProducerInOrder, ClosedInOrder, Busy, Sound, N
<1>3. JobsTakenInOrder'
  <2>1. PICK t \in 0 .. MaxSources : TakenUpTo(t)
    BY DEF PipelineInv, JobsTakenInOrder
  <2>2. TakenUpTo(t)'
    BY <2>1 DEF TakenUpTo, Busy, Outstanding, Failed
  <2> QED BY <2>2 DEF JobsTakenInOrder
<1>4. StopsHaveACause'
  BY DEF PipelineInv, StopsHaveACause, FailureInFlight, Failed
<1>5. CommittedIsComplete' /\ EarliestFailureReported'
  BY DEF PipelineInv, CommittedIsComplete, EarliestFailureReported, Failing, N
<1> QED BY <1>1, <1>2, <1>3, <1>4, <1>5 DEF PipelineInv
-----------------------------------------------------------------------------
(* Staging the next source: it is emitted and not yet sent.                *)
LEMMA StageNextKeeps == PipelineInv /\ StageNext => PipelineInv'
<1> SUFFICES ASSUME PipelineInv, StageNext PROVE PipelineInv'
  OBVIOUS
<1> USE PipelineAssumption DEF StageNext, sessionVars, producerVars, consumerVars
<1>0. N \in Nat /\ N <= MaxSources /\ emitted \in Nat
  BY SourcesTyped DEF PipelineInv, TypeOK
<1>1. TypeOK'
  <2>1. emitted + 1 \in Index
    BY <1>0 DEF Index
  <2>2. emitted' \in 0 .. MaxSources /\ staged' \subseteq Index
    BY <2>1 DEF PipelineInv, TypeOK, Index
  <2> QED BY <2>2 DEF PipelineInv, TypeOK
<1>2. ResultsAreSound' /\ ClosedInOrder'
  BY DEF PipelineInv, ResultsAreSound, ClosedInOrder, Busy, Sound, N
<1>3. ProducerInOrder'
  <2>1. N' = N
    BY DEF N
  <2>2. staged' = 1 .. emitted'
    BY <1>0 DEF PipelineInv, ProducerInOrder
  <2> QED BY <1>0, <2>1, <2>2 DEF PipelineInv, ProducerInOrder
<1>4. JobsTakenInOrder'
  <2>1. PICK t \in 0 .. MaxSources : TakenUpTo(t)
    BY DEF PipelineInv, JobsTakenInOrder
  <2>2. TakenUpTo(t)'
    BY <1>0, <2>1 DEF TakenUpTo, Busy, Outstanding, Failed
  <2> QED BY <2>2 DEF JobsTakenInOrder
<1>5. StopsHaveACause'
  BY DEF PipelineInv, StopsHaveACause, FailureInFlight, Failed
<1>6. CommittedIsComplete' /\ EarliestFailureReported'
  BY DEF PipelineInv, CommittedIsComplete, EarliestFailureReported, Failing, N
<1> QED BY <1>1, <1>2, <1>3, <1>4, <1>5, <1>6 DEF PipelineInv

(* Sending the emitted source: the channel holds one more of the run of    *)
(* consecutive indexes.                                                    *)
LEMMA SendJobKeeps == PipelineInv /\ SendJob => PipelineInv'
<1> SUFFICES ASSUME PipelineInv, SendJob PROVE PipelineInv'
  OBVIOUS
<1> USE PipelineAssumption DEF SendJob, sessionVars, producerVars, consumerVars
<1>0. N \in Nat /\ N <= MaxSources /\ emitted \in Index /\ jobs \in Seq(Index)
  BY SourcesTyped DEF PipelineInv, TypeOK, ProducerInOrder, Index
<1>a. jobs' \in Seq(Index) /\ Len(jobs') = Len(jobs) + 1
  BY <1>0
<1>1. TypeOK'
  BY <1>0, <1>a DEF PipelineInv, TypeOK
<1>2. ResultsAreSound' /\ ClosedInOrder'
  BY DEF PipelineInv, ResultsAreSound, ClosedInOrder, Busy, Sound, N
<1>3. ProducerInOrder'
  BY <1>0 DEF PipelineInv, ProducerInOrder, TypeOK, N
<1>4. JobsTakenInOrder'
  <2>1. PICK t \in 0 .. MaxSources : TakenUpTo(t)
    BY DEF PipelineInv, JobsTakenInOrder
  <2>a. t \in Nat /\ Len(jobs) \in Nat /\ emitted \in Nat
    BY <1>0, <2>1 DEF Index
  <2>b. t + Len(jobs) + 1 = emitted
    BY <2>1 DEF TakenUpTo
  <2>2. ASSUME NEW k \in 1 .. Len(jobs') PROVE jobs'[k] = t + k
    <3>1. CASE k = Len(jobs) + 1
      BY <1>0, <2>a, <2>b, <3>1
    <3>2. CASE k \in 1 .. Len(jobs)
      BY <1>0, <2>1, <3>2 DEF TakenUpTo
    <3> QED BY <1>a, <2>a, <3>1, <3>2
  <2>3. TakenUpTo(t)'
    BY <1>a, <2>1, <2>a, <2>b, <2>2 DEF TakenUpTo, Busy, Outstanding, Failed
  <2> QED BY <2>3 DEF JobsTakenInOrder
<1>5. StopsHaveACause'
  <2>1. ~jobsClosed
    BY DEF PipelineInv, ProducerInOrder
  <2> QED BY <2>1 DEF PipelineInv, StopsHaveACause, FailureInFlight, Failed
<1>6. CommittedIsComplete' /\ EarliestFailureReported'
  BY DEF PipelineInv, CommittedIsComplete, EarliestFailureReported, Failing, N
<1> QED BY <1>1, <1>2, <1>3, <1>4, <1>5, <1>6 DEF PipelineInv

(* The producer returns.  It may call its error a cancellation only when   *)
(* the caller cancelled or the run did, and the run did for a failure: if  *)
(* there is a verdict while the producer still runs, every worker returned *)
(* before the jobs ended.                                                  *)
LEMMA ProducerReturnsKeeps ==
  ASSUME PipelineInv, producer # "done",
         NEW error \in ErrorName, ProducerReturns(error), sessionOpen' \in BOOLEAN,
         error = "canceled" => Cancelled,
         error = "none" => producer = "emitting" /\ emitted = N
  PROVE  PipelineInv'
<1> USE PipelineAssumption DEF ProducerReturns, consumerVars
<1>0. N \in Nat /\ N <= MaxSources /\ emitted \in Nat /\ jobs \in Seq(Index)
  BY SourcesTyped DEF PipelineInv, TypeOK
<1>1. TypeOK'
  BY DEF PipelineInv, TypeOK, ErrorName
<1>2. ResultsAreSound' /\ ClosedInOrder'
  BY DEF PipelineInv, ResultsAreSound, ClosedInOrder, Busy, Sound, N
<1>3. ProducerInOrder'
  BY <1>0 DEF PipelineInv, ProducerInOrder, N
<1>4. JobsTakenInOrder'
  <2>1. PICK t \in 0 .. MaxSources : TakenUpTo(t)
    BY DEF PipelineInv, JobsTakenInOrder
  <2>2. producer \in {"emitting", "sending"}
    BY DEF PipelineInv, TypeOK
  <2>3. TakenUpTo(t)'
    BY <1>0, <2>1, <2>2 DEF TakenUpTo, Busy, Outstanding, Failed
  <2> QED BY <2>3 DEF JobsTakenInOrder
<1>5. StopsHaveACause'
  <2>1. producerError = "none" /\ ~jobsClosed
    BY DEF PipelineInv, ProducerInOrder
  <2>2. FailureInFlight' <=> FailureInFlight
    BY DEF FailureInFlight, Failed
  <2>3. verdict # "running" => FailureInFlight
    BY <2>1 DEF PipelineInv, StopsHaveACause, ClosedInOrder
  <2>4. runCancelled => FailureInFlight
    BY <2>1, <2>3 DEF PipelineInv, StopsHaveACause
  <2> QED BY <2>1, <2>2, <2>3, <2>4 DEF PipelineInv, StopsHaveACause, Cancelled
<1>6. CommittedIsComplete' /\ EarliestFailureReported'
  BY DEF PipelineInv, CommittedIsComplete, EarliestFailureReported, Failing, N
<1> QED BY <1>1, <1>2, <1>3, <1>4, <1>5, <1>6 DEF PipelineInv

(* The four ways the producer returns.                                     *)
LEMMA ProducerKeeps ==
  PipelineInv /\ (StageFails \/ SendCancelled \/ DiscoveryEnds \/ DiscoveryFails)
    => PipelineInv'
<1> SUFFICES ASSUME PipelineInv,
                    StageFails \/ SendCancelled \/ DiscoveryEnds \/ DiscoveryFails
             PROVE  PipelineInv'
  OBVIOUS
<1>0. sessionOpen \in BOOLEAN
  BY DEF PipelineInv, TypeOK
<1>1. CASE StageFails
  <2>1. PICK error \in {"closed", "canceled", "stage"} :
          (error = "canceled" => Cancelled) /\ ProducerReturns(error)
    BY <1>1 DEF StageFails
  <2> QED BY <1>1, <2>1, ProducerReturnsKeeps DEF StageFails, ErrorName
<1>2. CASE SendCancelled
  BY <1>0, <1>2, ProducerReturnsKeeps DEF SendCancelled, ErrorName
<1>3. CASE DiscoveryEnds
  BY <1>0, <1>3, ProducerReturnsKeeps DEF DiscoveryEnds, ErrorName
<1>4. CASE DiscoveryFails
  <2>1. PICK error \in {"canceled", "discovery"} :
          (error = "canceled" => Cancelled) /\ ProducerReturns(error)
    BY <1>4 DEF DiscoveryFails
  <2> QED BY <1>0, <1>4, <2>1, ProducerReturnsKeeps DEF DiscoveryFails, ErrorName
<1> QED BY <1>1, <1>2, <1>3, <1>4
-----------------------------------------------------------------------------
(* What a move of one worker must establish: it keeps results sound, the   *)
(* sources accounted for and every failure in flight, and it ends only     *)
(* with the jobs or on a failure.                                          *)
LEMMA WorkerMoveKeeps ==
  ASSUME PipelineInv, NEW w \in Worker, NEW at \in WorkerState, NEW result \in Result,
         worker[w].at # "done", WorkerMoves(w, at, result),
         runCancelled' \in BOOLEAN, runCancelled' => runCancelled \/ FailureInFlight',
         jobs' \in Seq(Index), Len(jobs') <= QueueCapacity, jobs = <<>> => jobs' = <<>>,
         results' \in Seq(Result), Len(results') <= QueueCapacity,
         at \in {"extracting", "sending"} => Sound(result),
         at = "extracting" => result.index # 0,
         \A k \in 1 .. Len(results') : Sound(results'[k]),
         NEW t \in 0 .. MaxSources, TakenUpTo(t)',
         FailureInFlight => FailureInFlight',
         at = "done" => FailureInFlight' \/ (jobs' = <<>> /\ jobsClosed)
  PROVE  PipelineInv'
<1> USE PipelineAssumption DEF WorkerMoves, sessionVars, producerVars, consumerVars
<1>0. worker \in [Worker -> [at : WorkerState, result : Result]]
  BY DEF PipelineInv, TypeOK, WorkerState
<1>1. /\ worker'[w].at = at /\ worker'[w].result = result
      /\ \A u \in Worker \ {w} : worker'[u] = worker[u]
  BY <1>0
<1>2. TypeOK'
  <2>1. worker' \in [Worker -> [at : WorkerState, result : Result]]
    BY <1>0
  <2> QED BY <2>1 DEF PipelineInv, TypeOK, WorkerState
<1>3. verdict = "running" /\ ~resultsClosed
  BY DEF PipelineInv, ClosedInOrder
<1>4. ClosedInOrder' /\ CommittedIsComplete' /\ EarliestFailureReported'
  BY <1>3 DEF ClosedInOrder, CommittedIsComplete, EarliestFailureReported
<1>5. ProducerInOrder'
  BY DEF PipelineInv, ProducerInOrder, N
<1>6. JobsTakenInOrder'
  BY DEF JobsTakenInOrder
<1>7. ResultsAreSound'
  <2>1. \A r : Sound(r)' <=> Sound(r)
    BY DEF Sound, N
  <2>2. (\A u \in Worker : Busy(u) => Sound(worker[u].result))'
    BY <1>1, <2>1 DEF PipelineInv, ResultsAreSound, Busy
  <2>3. (\A u \in Worker : worker[u].at = "extracting" => worker[u].result.index # 0)'
    BY <1>1 DEF PipelineInv, ResultsAreSound
  <2>4. (\A k \in 1 .. Len(results) : Sound(results[k]))'
    BY <2>1
  <2>5. (extractionError # 0 => extractionError \in 1 .. N /\ ~extracts[extractionError])'
    BY DEF PipelineInv, ResultsAreSound, N
  <2> QED BY <2>2, <2>3, <2>4, <2>5 DEF ResultsAreSound
<1>8. StopsHaveACause'
  <2>1. (\A u \in Worker : worker[u].at = "done" =>
                            FailureInFlight \/ (jobs = <<>> /\ jobsClosed))'
    BY <1>1 DEF PipelineInv, StopsHaveACause
  <2> QED BY <1>3, <2>1 DEF PipelineInv, StopsHaveACause
<1> QED BY <1>2, <1>4, <1>5, <1>6, <1>7, <1>8 DEF PipelineInv

(* What every worker move leaves of the workers and of the accounting.     *)
LEMMA WorkerMoved ==
  ASSUME TypeOK, NEW w \in Worker, NEW at, NEW result, WorkerMoves(w, at, result)
  PROVE  /\ worker'[w].at = at /\ worker'[w].result = result
         /\ \A u \in Worker : u # w => worker'[u] = worker[u]
         /\ UNCHANGED <<extracts, jobsClosed, written, producer, producerError, emitted,
                        Failed, extractionError>>
  BY DEF TypeOK, WorkerMoves, sessionVars, producerVars, consumerVars, Failed

(* A worker that was not busy starts, fails to start or ends: whatever was *)
(* outstanding still is.                                                   *)
LEMMA IdleMoveTaken ==
  ASSUME PipelineInv, NEW w \in Worker, NEW at \in {"idle", "sending", "done"},
         worker[w].at \in {"starting", "idle"}, WorkerMoves(w, at, Nothing),
         UNCHANGED <<jobs, results>>,
         NEW t \in 0 .. MaxSources, TakenUpTo(t)
  PROVE  TakenUpTo(t)' /\ (FailureInFlight => FailureInFlight')
<1> USE PipelineAssumption
<1>1. TypeOK
  BY DEF PipelineInv
<1>2. /\ worker'[w].at = at /\ worker'[w].result = Nothing
      /\ \A u \in Worker : u # w => worker'[u] = worker[u]
      /\ UNCHANGED <<extracts, jobsClosed, written, producer, producerError, emitted,
                     Failed, extractionError>>
  BY <1>1, WorkerMoved
<1>3. ASSUME NEW i, Outstanding(i) PROVE Outstanding(i)'
  BY <1>2, <1>3 DEF Outstanding, Busy
<1>4. FailureInFlight => FailureInFlight'
  BY <1>2 DEF FailureInFlight
<1>5. (\A u \in Worker : Busy(u) => worker[u].result.index <= t)'
  BY <1>2 DEF TakenUpTo, Busy, Nothing
<1>6. (\A i \in 1 .. t : \/ Outstanding(i)
                         \/ extracts[i] /\ (i \in written \/ Failed)
                         \/ ~extracts[i] /\ extractionError # 0 /\ extractionError <= i)'
  BY <1>2, <1>3 DEF TakenUpTo
<1> QED BY <1>2, <1>4, <1>5, <1>6 DEF TakenUpTo

(* A worker starts, or cannot, or finds no more jobs.                      *)
LEMMA IdleMovesKeep ==
  ASSUME PipelineInv, NEW w \in Worker,
         StartWorker(w) \/ StartWorkerFails(w) \/ NoMoreJobs(w)
  PROVE  PipelineInv'
<1> USE PipelineAssumption
<1>0. PICK t \in 0 .. MaxSources : TakenUpTo(t)
  BY DEF PipelineInv, JobsTakenInOrder
<1>1. /\ TypeOK /\ runCancelled \in BOOLEAN
      /\ jobs \in Seq(Index) /\ Len(jobs) <= QueueCapacity
      /\ results \in Seq(Result) /\ Len(results) <= QueueCapacity
  BY DEF PipelineInv, TypeOK
<1>2. Nothing \in Result /\ Nothing.index = 0 /\ ~Nothing.ok
  BY DEF Nothing, Result
<1>3. Sound(Nothing) /\ \A k \in 1 .. Len(results) : Sound(results[k])
  BY <1>2 DEF PipelineInv, ResultsAreSound, Sound
<1>4. CASE StartWorker(w)
  <2>1. TakenUpTo(t)' /\ (FailureInFlight => FailureInFlight')
    BY <1>0, <1>4, IdleMoveTaken DEF StartWorker
  <2> QED BY <1>1, <1>2, <1>3, <1>4, <2>1, WorkerMoveKeeps DEF StartWorker, WorkerState
<1>5. CASE StartWorkerFails(w)
  <2>1. TakenUpTo(t)' /\ (FailureInFlight => FailureInFlight')
    BY <1>0, <1>5, IdleMoveTaken DEF StartWorkerFails
  <2>2. FailureInFlight'
    BY <1>1, <1>2, <1>5, WorkerMoved DEF StartWorkerFails, FailureInFlight
  <2> QED BY <1>1, <1>2, <1>3, <1>5, <2>1, <2>2, WorkerMoveKeeps
          DEF StartWorkerFails, WorkerState
<1>6. CASE NoMoreJobs(w)
  <2>1. TakenUpTo(t)' /\ (FailureInFlight => FailureInFlight')
    BY <1>0, <1>6, IdleMoveTaken DEF NoMoreJobs
  <2> QED BY <1>1, <1>2, <1>3, <1>6, <2>1, WorkerMoveKeeps DEF NoMoreJobs, WorkerState
<1> QED BY <1>4, <1>5, <1>6

(* The worker takes the next source in the order of discovery.             *)
LEMMA TakeJobKeeps ==
  ASSUME PipelineInv, NEW w \in Worker, TakeJob(w)
  PROVE  PipelineInv'
<1> USE PipelineAssumption
<1>0. PICK t \in 0 .. MaxSources : TakenUpTo(t)
  BY DEF PipelineInv, JobsTakenInOrder
<1>1. /\ TypeOK /\ runCancelled \in BOOLEAN /\ emitted \in Nat
      /\ jobs \in Seq(Index) /\ Len(jobs) <= QueueCapacity
      /\ results \in Seq(Result) /\ Len(results) <= QueueCapacity
      /\ N \in Nat /\ N <= MaxSources /\ extracts \in [1 .. N -> BOOLEAN]
      /\ emitted <= N /\ t \in Nat
  BY SourcesTyped DEF PipelineInv, TypeOK, ProducerInOrder
<1>2. /\ Len(jobs) \in Nat /\ Len(jobs) # 0 /\ jobs[1] = t + 1 /\ Head(jobs) = t + 1
      /\ t + Len(jobs) <= emitted
  <2>1. jobs # <<>>
    BY DEF TakeJob
  <2>2. Len(jobs) \in Nat /\ Len(jobs) # 0 /\ Head(jobs) = jobs[1]
    BY <1>1, <2>1
  <2>3. producer \in {"emitting", "sending", "done"}
    BY <1>1 DEF TypeOK
  <2> QED BY <1>0, <1>1, <2>2, <2>3 DEF TakenUpTo
<1>3. PICK result : result = [index |-> Head(jobs), ok |-> extracts[Head(jobs)]]
  OBVIOUS
<1>4. t + 1 \in 1 .. N /\ t + 1 \in 0 .. MaxSources
  BY <1>1, <1>2
<1>5. result \in Result /\ result.index = t + 1 /\ result.ok = extracts[t + 1]
  BY <1>1, <1>2, <1>3, <1>4 DEF Result
<1>6. Sound(result)
  BY <1>1, <1>4, <1>5 DEF Sound
<1>7. /\ jobs' \in Seq(Index) /\ Len(jobs') = Len(jobs) - 1
      /\ \A k \in 1 .. Len(jobs') : jobs'[k] = jobs[k + 1]
  BY <1>1, <1>2 DEF TakeJob
<1>8. /\ worker'[w].at = "extracting" /\ worker'[w].result = result
      /\ \A u \in Worker : u # w => worker'[u] = worker[u]
      /\ UNCHANGED <<extracts, jobsClosed, written, producer, producerError, emitted,
                     Failed, extractionError>>
  BY <1>1, <1>3, WorkerMoved DEF TakeJob
<1>9. results' = results /\ worker[w].at = "idle" /\ WorkerMoves(w, "extracting", result)
      /\ runCancelled' = runCancelled
  BY <1>3 DEF TakeJob
<1>10. TakenUpTo(t + 1)'
  <2>1. ASSUME NEW i, Outstanding(i) PROVE Outstanding(i)'
    BY <1>8, <1>9, <2>1 DEF Outstanding, Busy
  <2>2. Outstanding(t + 1)'
    BY <1>5, <1>8 DEF Outstanding, Busy
  <2>3. (\A k \in 1 .. Len(jobs) : jobs[k] = (t + 1) + k)'
    BY <1>0, <1>1, <1>2, <1>7 DEF TakenUpTo
  <2>4. /\ (producer = "emitting" => t + 1 + Len(jobs) = emitted)'
        /\ (producer = "sending" => t + 1 + Len(jobs) + 1 = emitted)'
        /\ (producer = "done" => t + 1 + Len(jobs) <= emitted)'
        /\ (producer = "done" /\ producerError = "none" => t + 1 + Len(jobs) = emitted)'
    <3>1. /\ producer = "emitting" => t + Len(jobs) = emitted
          /\ producer = "sending" => t + Len(jobs) + 1 = emitted
          /\ producer = "done" => t + Len(jobs) <= emitted
          /\ producer = "done" /\ producerError = "none" => t + Len(jobs) = emitted
      BY <1>0 DEF TakenUpTo
    <3>2. t + 1 + Len(jobs') = t + Len(jobs)
      BY <1>1, <1>2, <1>7
    <3> QED BY <1>8, <3>1, <3>2
  <2>5. (written \subseteq 1 .. (t + 1) /\ extractionError <= t + 1)'
    BY <1>0, <1>1, <1>8 DEF TakenUpTo, TypeOK
  <2>6. (\A u \in Worker : Busy(u) => worker[u].result.index <= t + 1)'
    <3>1. \A u \in Worker : worker[u].result.index \in Nat
      BY <1>1 DEF TypeOK, Result
    <3>2. \A u \in Worker : Busy(u) => worker[u].result.index <= t + 1
      BY <1>0, <1>1, <3>1 DEF TakenUpTo
    <3> QED BY <1>1, <1>5, <1>8, <3>2 DEF Busy
  <2>7. (\A k \in 1 .. Len(results) : results[k].index <= t + 1)'
    <3>1. \A k \in 1 .. Len(results) : results[k].index \in Nat
      <4>1. \A r \in Result : r.index \in Nat
        BY DEF Result
      <4> QED BY <1>1, <4>1
    <3> QED BY <1>0, <1>1, <1>9, <3>1 DEF TakenUpTo
  <2>8. ASSUME NEW i \in 1 .. (t + 1)
        PROVE  (\/ Outstanding(i)
                \/ extracts[i] /\ (i \in written \/ Failed)
                \/ ~extracts[i] /\ extractionError # 0 /\ extractionError <= i)'
    <3>1. CASE i = t + 1
      BY <2>2, <3>1
    <3>2. CASE i \in 1 .. t
      BY <1>0, <1>8, <2>1, <3>2 DEF TakenUpTo
    <3> QED BY <1>1, <3>1, <3>2
  <2> QED BY <2>3, <2>4, <2>5, <2>6, <2>7, <2>8 DEF TakenUpTo
<1>11. FailureInFlight => FailureInFlight'
  BY <1>8, <1>9 DEF FailureInFlight
<1>12. /\ \A k \in 1 .. Len(results) : Sound(results[k])
       /\ Len(jobs') <= QueueCapacity /\ jobs # <<>>
  BY <1>1, <1>2, <1>7 DEF PipelineInv, ResultsAreSound
<1> QED BY <1>1, <1>4, <1>5, <1>6, <1>7, <1>9, <1>10, <1>11, <1>12, WorkerMoveKeeps
        DEF WorkerState

(* The extraction ends: the worker still has the same result, and a failed *)
(* one is in flight from the moment the run is cancelled for it.           *)
LEMMA ExtractKeeps ==
  ASSUME PipelineInv, NEW w \in Worker, Extract(w)
  PROVE  PipelineInv'
<1> USE PipelineAssumption
<1>0. PICK t \in 0 .. MaxSources : TakenUpTo(t)
  BY DEF PipelineInv, JobsTakenInOrder
<1>1. /\ TypeOK /\ runCancelled \in BOOLEAN
      /\ jobs \in Seq(Index) /\ Len(jobs) <= QueueCapacity
      /\ results \in Seq(Result) /\ Len(results) <= QueueCapacity
  BY DEF PipelineInv, TypeOK
<1>2. PICK result : result = worker[w].result
  OBVIOUS
<1>3. result \in Result /\ Sound(result) /\ worker[w].at = "extracting"
  BY <1>1, <1>2 DEF Extract, TypeOK, PipelineInv, ResultsAreSound, Busy
<1>4. WorkerMoves(w, "sending", result) /\ UNCHANGED <<jobs, results>>
  BY <1>2 DEF Extract
<1>5. /\ worker'[w].at = "sending" /\ worker'[w].result = result
      /\ \A u \in Worker : u # w => worker'[u] = worker[u]
      /\ UNCHANGED <<extracts, jobsClosed, written, producer, producerError, emitted,
                     Failed, extractionError>>
  BY <1>1, <1>4, WorkerMoved
<1>6. TakenUpTo(t)'
  <2>1. ASSUME NEW i, Outstanding(i) PROVE Outstanding(i)'
    BY <1>2, <1>3, <1>4, <1>5, <2>1 DEF Outstanding, Busy
  <2>2. (\A u \in Worker : Busy(u) => worker[u].result.index <= t)'
    BY <1>0, <1>2, <1>3, <1>5 DEF TakenUpTo, Busy
  <2>3. (\A i \in 1 .. t : \/ Outstanding(i)
                           \/ extracts[i] /\ (i \in written \/ Failed)
                           \/ ~extracts[i] /\ extractionError # 0 /\ extractionError <= i)'
    BY <1>0, <1>5, <2>1 DEF TakenUpTo
  <2> QED BY <1>0, <1>4, <1>5, <2>2, <2>3 DEF TakenUpTo
<1>7. FailureInFlight => FailureInFlight'
  BY <1>3, <1>4, <1>5 DEF FailureInFlight
<1>8. runCancelled' \in BOOLEAN /\ (runCancelled' => runCancelled \/ FailureInFlight')
  BY <1>1, <1>2, <1>5 DEF Extract, FailureInFlight
<1>9. \A k \in 1 .. Len(results) : Sound(results[k])
  BY DEF PipelineInv, ResultsAreSound
<1> QED BY <1>1, <1>3, <1>4, <1>6, <1>7, <1>8, <1>9, WorkerMoveKeeps DEF WorkerState

(* The result goes from the worker to the channel.                         *)
LEMMA SendResultKeeps ==
  ASSUME PipelineInv, NEW w \in Worker, SendResult(w)
  PROVE  PipelineInv'
<1> USE PipelineAssumption
<1>0. PICK t \in 0 .. MaxSources : TakenUpTo(t)
  BY DEF PipelineInv, JobsTakenInOrder
<1>1. /\ TypeOK /\ runCancelled \in BOOLEAN
      /\ jobs \in Seq(Index) /\ Len(jobs) <= QueueCapacity
      /\ results \in Seq(Result) /\ Len(results) <= QueueCapacity
  BY DEF PipelineInv, TypeOK
<1>2. PICK result : result = worker[w].result
  OBVIOUS
<1>3. PICK at : at = IF result.ok THEN "idle" ELSE "done"
  OBVIOUS
<1>4. /\ result \in Result /\ Sound(result) /\ worker[w].at = "sending"
      /\ at \in {"idle", "done"} /\ (at = "done" => ~result.ok)
  BY <1>1, <1>2, <1>3 DEF SendResult, TypeOK, PipelineInv, ResultsAreSound, Busy
<1>5. /\ WorkerMoves(w, at, Nothing) /\ jobs' = jobs /\ results' = Append(results, result)
      /\ runCancelled' = runCancelled /\ Len(results) < QueueCapacity
  BY <1>2, <1>3 DEF SendResult
<1>6. /\ worker'[w].at = at
      /\ \A u \in Worker : u # w => worker'[u] = worker[u]
      /\ UNCHANGED <<extracts, jobsClosed, written, producer, producerError, emitted,
                     Failed, extractionError>>
  BY <1>1, <1>5, WorkerMoved
<1>7. /\ results' \in Seq(Result) /\ Len(results') = Len(results) + 1
      /\ Len(results) \in Nat /\ results'[Len(results) + 1] = result
      /\ \A k \in 1 .. Len(results) : results'[k] = results[k] /\ k \in 1 .. Len(results')
      /\ \A k \in 1 .. Len(results') : k \in 1 .. Len(results) \/ k = Len(results) + 1
      /\ Len(results) + 1 \in 1 .. Len(results')
  BY <1>1, <1>4, <1>5
<1>8. TakenUpTo(t)'
  <2>1. ASSUME NEW i, Outstanding(i) PROVE Outstanding(i)'
    <3>1. CASE \E k \in 1 .. Len(results) : results[k].index = i
      BY <1>7, <3>1 DEF Outstanding
    <3>2. CASE \E u \in Worker : Busy(u) /\ worker[u].result.index = i
      <4>1. PICK u \in Worker : Busy(u) /\ worker[u].result.index = i
        BY <3>2
      <4>2. CASE u = w
        BY <1>2, <1>7, <4>1, <4>2 DEF Outstanding
      <4>3. CASE u # w
        BY <1>6, <4>1, <4>3 DEF Outstanding, Busy
      <4> QED BY <4>2, <4>3
    <3> QED BY <2>1, <3>1, <3>2 DEF Outstanding
  <2>2. (\A u \in Worker : Busy(u) => worker[u].result.index <= t)'
    BY <1>0, <1>4, <1>6 DEF TakenUpTo, Busy
  <2>3. (\A i \in 1 .. t : \/ Outstanding(i)
                           \/ extracts[i] /\ (i \in written \/ Failed)
                           \/ ~extracts[i] /\ extractionError # 0 /\ extractionError <= i)'
    BY <1>0, <1>6, <2>1 DEF TakenUpTo
  <2>4. result.index <= t
    BY <1>0, <1>2, <1>4 DEF TakenUpTo, Busy
  <2>5. (\A k \in 1 .. Len(results) : results[k].index <= t)'
    BY <1>0, <1>7, <2>4 DEF TakenUpTo
  <2> QED BY <1>0, <1>5, <1>6, <2>2, <2>3, <2>5 DEF TakenUpTo
<1>9. ~result.ok => FailureInFlight'
  BY <1>7 DEF FailureInFlight
<1>10. FailureInFlight => FailureInFlight'
  <2>1. CASE Failed
    BY <1>6, <2>1 DEF FailureInFlight
  <2>2. CASE \E k \in 1 .. Len(results) : ~results[k].ok
    BY <1>7, <2>2 DEF FailureInFlight
  <2>3. CASE \E u \in Worker : worker[u].at = "sending" /\ ~worker[u].result.ok
    BY <1>2, <1>6, <1>9, <2>3 DEF FailureInFlight
  <2> QED BY <2>1, <2>2, <2>3 DEF FailureInFlight
<1>11. \A k \in 1 .. Len(results') : Sound(results'[k])
  BY <1>4, <1>7 DEF PipelineInv, ResultsAreSound
<1>12. Len(results') <= QueueCapacity /\ Nothing \in Result
  BY <1>5, <1>7 DEF Nothing, Result
<1> QED BY <1>1, <1>4, <1>5, <1>7, <1>8, <1>9, <1>10, <1>11, <1>12, WorkerMoveKeeps
        DEF WorkerState

LEMMA WorkerStepKeeps ==
  ASSUME PipelineInv, NEW w \in Worker, WorkerStep(w)
  PROVE  PipelineInv'
BY IdleMovesKeep, TakeJobKeeps, ExtractKeeps, SendResultKeeps DEF WorkerStep

(* The results channel closes once every worker has returned.              *)
LEMMA CloseKeeps == PipelineInv /\ CloseExtractionResults => PipelineInv'
<1> SUFFICES ASSUME PipelineInv, CloseExtractionResults PROVE PipelineInv'
  OBVIOUS
<1> USE DEF CloseExtractionResults, sessionVars, producerVars, consumerVars
<1>1. TypeOK'
  BY DEF PipelineInv, TypeOK
<1>2. ResultsAreSound' /\ ProducerInOrder' /\ ClosedInOrder'
  BY DEF PipelineInv, ResultsAreSound, ProducerInOrder, ClosedInOrder, Busy, Sound, N
<1>3. JobsTakenInOrder'
  <2>1. PICK t \in 0 .. MaxSources : TakenUpTo(t)
    BY DEF PipelineInv, JobsTakenInOrder
  <2>2. TakenUpTo(t)'
    BY <2>1 DEF TakenUpTo, Busy, Outstanding, Failed
  <2> QED BY <2>2 DEF JobsTakenInOrder
<1>4. StopsHaveACause'
  BY DEF PipelineInv, StopsHaveACause, FailureInFlight, Failed
<1>5. CommittedIsComplete' /\ EarliestFailureReported'
  BY DEF PipelineInv, CommittedIsComplete, EarliestFailureReported, Failing, N
<1> QED BY <1>1, <1>2, <1>3, <1>4, <1>5 DEF PipelineInv
-----------------------------------------------------------------------------
(* The receipt of a result leaves the workers, the producer and the jobs   *)
(* alone, and shortens the channel by its head.                            *)
LEMMA Received ==
  ASSUME PipelineInv, NEW result \in Result, Receive(result)
  PROVE  /\ Sound(result) /\ verdict = "running"
         /\ results' \in Seq(Result) /\ Len(results') <= QueueCapacity
         /\ \A k \in 1 .. Len(results') : k + 1 \in 1 .. Len(results)
                                          /\ results'[k] = results[k + 1]
         /\ \A k \in 1 .. Len(results) : \/ results[k] = result
                                         \/ \E j \in 1 .. Len(results') : results'[j] = results[k]
         /\ \A t \in 0 .. MaxSources : TakenUpTo(t) => result.index <= t
<1> USE PipelineAssumption
<1>1. /\ results \in Seq(Result) /\ Len(results) <= QueueCapacity /\ results # <<>>
      /\ result = Head(results) /\ results' = Tail(results) /\ verdict = "running"
  BY DEF PipelineInv, TypeOK, Receive
<1>2. /\ Len(results) \in Nat /\ Len(results) # 0 /\ result = results[1]
      /\ results' \in Seq(Result) /\ Len(results') = Len(results) - 1
      /\ \A k \in 1 .. Len(results') : results'[k] = results[k + 1]
  BY <1>1
<1>3. \A k \in 1 .. Len(results') : k + 1 \in 1 .. Len(results)
  BY <1>2
<1>4. ASSUME NEW k \in 1 .. Len(results)
      PROVE  results[k] = result \/ \E j \in 1 .. Len(results') : results'[j] = results[k]
  <2>1. CASE k = 1
    BY <1>2, <2>1
  <2>2. CASE k # 1
    <3>1. k - 1 \in 1 .. Len(results') /\ (k - 1) + 1 = k
      BY <1>2, <2>2
    <3> QED BY <1>2, <3>1
  <2> QED BY <2>1, <2>2
<1>5. Sound(result)
  BY <1>2 DEF PipelineInv, ResultsAreSound
<1>6. \A t \in 0 .. MaxSources : TakenUpTo(t) => result.index <= t
  BY <1>2 DEF TakenUpTo
<1> QED BY <1>1, <1>2, <1>3, <1>4, <1>5, <1>6

(* What the handling of a received result must establish.                  *)
LEMMA ReceiveKeeps ==
  ASSUME PipelineInv, NEW result \in Result, Receive(result),
         sessionOpen' \in BOOLEAN, runCancelled' \in BOOLEAN,
         initError' \in BOOLEAN, writeError' \in BOOLEAN,
         written' \in {written, written \cup {result.index}},
         extractionError' \in {extractionError, result.index},
         extractionError # 0 => extractionError' # 0 /\ extractionError' <= extractionError,
         extractionError' # extractionError => ~result.ok /\ result.index # 0,
         written' # written => result.index # 0,
         Failed => Failed', ~result.ok => Failed',
         result.ok => Failed' \/ result.index \in written',
         ~result.ok /\ result.index # 0 =>
            extractionError' # 0 /\ extractionError' <= result.index,
         runCancelled' => runCancelled \/ Failed'
  PROVE  PipelineInv'
<1> USE PipelineAssumption
<1>0. PICK t \in 0 .. MaxSources : TakenUpTo(t)
  BY DEF PipelineInv, JobsTakenInOrder
<1>1. /\ Sound(result) /\ verdict = "running"
      /\ results' \in Seq(Result) /\ Len(results') <= QueueCapacity
      /\ \A k \in 1 .. Len(results') : k + 1 \in 1 .. Len(results)
                                       /\ results'[k] = results[k + 1]
      /\ \A k \in 1 .. Len(results) : \/ results[k] = result
                                      \/ \E j \in 1 .. Len(results') : results'[j] = results[k]
      /\ result.index <= t
  BY <1>0, Received
<1>2. /\ UNCHANGED <<extracts, callerCancelled, staged, jobs, jobsClosed, worker, resultsClosed>>
      /\ UNCHANGED <<verdict, producer, emitted, producerError>>
  BY DEF Receive, producerVars
<1>3. /\ TypeOK /\ result.index \in 0 .. MaxSources /\ extractionError \in 0 .. MaxSources
      /\ written \subseteq Index /\ t \in Nat
  BY <1>0 DEF PipelineInv, TypeOK, Result
<1>4. N' = N /\ \A r : Sound(r)' <=> Sound(r)
  BY <1>2 DEF N, Sound
<1>5. written' \subseteq Index /\ extractionError' \in 0 .. MaxSources
  BY <1>3 DEF Index
<1>6. TypeOK'
  BY <1>1, <1>2, <1>3, <1>5 DEF TypeOK
<1>7. ClosedInOrder' /\ CommittedIsComplete' /\ EarliestFailureReported'
  BY <1>1, <1>2 DEF PipelineInv, ClosedInOrder, CommittedIsComplete, EarliestFailureReported
<1>8. ProducerInOrder'
  BY <1>2, <1>4 DEF PipelineInv, ProducerInOrder
<1>9. ResultsAreSound'
  <2>1. (\A w \in Worker : Busy(w) => Sound(worker[w].result))'
    BY <1>2, <1>4 DEF PipelineInv, ResultsAreSound, Busy
  <2>2. (\A w \in Worker : worker[w].at = "extracting" => worker[w].result.index # 0)'
    BY <1>2 DEF PipelineInv, ResultsAreSound
  <2>3. (\A k \in 1 .. Len(results) : Sound(results[k]))'
    BY <1>1, <1>4 DEF PipelineInv, ResultsAreSound
  <2>4. (extractionError # 0 => extractionError \in 1 .. N /\ ~extracts[extractionError])'
    BY <1>1, <1>2, <1>4 DEF PipelineInv, ResultsAreSound, Sound
  <2> QED BY <2>1, <2>2, <2>3, <2>4 DEF ResultsAreSound
<1>10. FailureInFlight => FailureInFlight'
  <2>1. CASE Failed
    BY <2>1 DEF FailureInFlight
  <2>2. CASE \E k \in 1 .. Len(results) : ~results[k].ok
    BY <1>1, <2>2 DEF FailureInFlight
  <2>3. CASE \E u \in Worker : worker[u].at = "sending" /\ ~worker[u].result.ok
    BY <1>2, <2>3 DEF FailureInFlight
  <2> QED BY <2>1, <2>2, <2>3 DEF FailureInFlight
<1>11. StopsHaveACause'
  BY <1>2, <1>10 DEF PipelineInv, StopsHaveACause, FailureInFlight
<1>12. JobsTakenInOrder'
  <2>1. (/\ \A k \in 1 .. Len(jobs) : jobs[k] = t + k
         /\ producer = "emitting" => t + Len(jobs) = emitted
         /\ producer = "sending" => t + Len(jobs) + 1 = emitted
         /\ producer = "done" => t + Len(jobs) <= emitted
         /\ producer = "done" /\ producerError = "none" => t + Len(jobs) = emitted)'
    BY <1>0, <1>2 DEF TakenUpTo
  <2>2. written' \subseteq 1 .. t /\ extractionError' <= t
    BY <1>0, <1>1, <1>3 DEF TakenUpTo
  <2>3. (\A w \in Worker : Busy(w) => worker[w].result.index <= t)'
    BY <1>0, <1>2 DEF TakenUpTo, Busy
  <2>4. (\A k \in 1 .. Len(results) : results[k].index <= t)'
    BY <1>0, <1>1 DEF TakenUpTo
  <2>5. ASSUME NEW i \in 1 .. t
        PROVE  (\/ Outstanding(i)
                \/ extracts[i] /\ (i \in written \/ Failed)
                \/ ~extracts[i] /\ extractionError # 0 /\ extractionError <= i)'
    <3>1. CASE Outstanding(i) /\ i # result.index
      <4>1. CASE \E w \in Worker : Busy(w) /\ worker[w].result.index = i
        BY <1>2, <4>1 DEF Outstanding, Busy
      <4>2. CASE \E k \in 1 .. Len(results) : results[k].index = i
        <5>1. \E k \in 1 .. Len(results') : results'[k].index = i
          BY <1>1, <3>1, <4>2
        <5> QED BY <5>1 DEF Outstanding
      <4> QED BY <3>1, <4>1, <4>2 DEF Outstanding
    <3>2. CASE i = result.index
      BY <1>1, <1>2, <3>2 DEF Sound
    <3>3. CASE extracts[i] /\ (i \in written \/ Failed)
      BY <1>2, <3>3
    <3>4. CASE ~extracts[i] /\ extractionError # 0 /\ extractionError <= i
      BY <1>2, <1>3, <1>5, <3>4
    <3> QED BY <1>0, <3>1, <3>2, <3>3, <3>4 DEF TakenUpTo
  <2>6. TakenUpTo(t)'
    BY <2>1, <2>2, <2>3, <2>4, <2>5 DEF TakenUpTo
  <2> QED BY <2>6 DEF JobsTakenInOrder
<1> QED BY <1>6, <1>7, <1>8, <1>9, <1>11, <1>12 DEF PipelineInv

(* The four things the consumer does with a result.                        *)
LEMMA ConsumerReceives ==
  ASSUME PipelineInv,
         ReceiveFailure \/ DrainContribution \/ WriteContribution \/ WriteContributionFails
  PROVE  PipelineInv'
<1> USE PipelineAssumption
<1>1. /\ sessionOpen \in BOOLEAN /\ runCancelled \in BOOLEAN
      /\ initError \in BOOLEAN /\ writeError \in BOOLEAN /\ extractionError \in Nat
  BY DEF PipelineInv, TypeOK
<1>2. \A r \in Result : r.index \in Nat
  BY DEF Result
<1>3. CASE ReceiveFailure
  <2>1. PICK result \in Result :
          /\ Receive(result) /\ ~result.ok
          /\ result.index = 0 => initError' = TRUE /\ UNCHANGED extractionError
          /\ result.index # 0 => extractionError' = KeptError(result.index) /\ UNCHANGED initError
          /\ runCancelled' = TRUE
          /\ UNCHANGED <<sessionOpen, written, writeError>>
    BY <1>3 DEF ReceiveFailure
  <2>2. /\ extractionError' \in {extractionError, result.index}
        /\ extractionError # 0 => extractionError' # 0 /\ extractionError' <= extractionError
        /\ extractionError' # extractionError => result.index # 0
        /\ result.index # 0 => extractionError' # 0 /\ extractionError' <= result.index
    BY <1>1, <1>2, <2>1 DEF KeptError
  <2>3. Failed' /\ initError' \in BOOLEAN
    BY <1>1, <2>1, <2>2 DEF Failed
  <2> QED BY <1>1, <2>1, <2>2, <2>3, ReceiveKeeps
<1>4. CASE DrainContribution
  <2>1. PICK result \in Result :
          /\ Receive(result) /\ result.ok /\ Failed
          /\ UNCHANGED <<runCancelled, sessionOpen, written, initError, extractionError,
                         writeError>>
    BY <1>4 DEF DrainContribution
  <2>2. Failed'
    BY <2>1 DEF Failed
  <2> QED BY <1>1, <2>1, <2>2, ReceiveKeeps
<1>5. CASE WriteContribution
  <2>1. PICK result \in Result :
          /\ Receive(result) /\ result.ok /\ ~Failed
          /\ written' = written \cup {result.index}
          /\ UNCHANGED <<runCancelled, sessionOpen, initError, extractionError, writeError>>
    BY <1>5 DEF WriteContribution
  <2>2. result.index # 0
    BY <2>1, Received DEF Sound
  <2>3. result.index \in written'
    BY <2>1
  <2> QED BY <1>1, <2>1, <2>2, <2>3, ReceiveKeeps
<1>6. CASE WriteContributionFails
  <2>1. PICK result \in Result :
          /\ Receive(result) /\ result.ok /\ ~Failed
          /\ writeError' = TRUE /\ sessionOpen' = FALSE /\ runCancelled' = TRUE
          /\ UNCHANGED <<written, initError, extractionError>>
    BY <1>6 DEF WriteContributionFails
  <2>2. Failed'
    BY <2>1 DEF Failed
  <2>3. sessionOpen' \in BOOLEAN /\ writeError' \in BOOLEAN /\ runCancelled' \in BOOLEAN
    BY <2>1, Zenon
  <2>4. /\ extractionError' = extractionError /\ extractionError' <= extractionError
        /\ initError' \in BOOLEAN /\ written' = written
    BY <1>1, <2>1
  <2> QED BY <2>1, <2>2, <2>3, <2>4, ReceiveKeeps
<1> QED BY <1>3, <1>4, <1>5, <1>6
-----------------------------------------------------------------------------
(* At the end every worker has returned and the channel is empty.  Without *)
(* a recorded failure the workers found the jobs at their end, and the     *)
(* producer did not give up unless the caller cancelled: every source was  *)
(* emitted, taken and written.                                             *)
LEMMA CompleteAtTheEnd ==
  ASSUME PipelineInv, results = <<>>, resultsClosed, ~Failed, ~callerCancelled,
         producerError \in {"none", "canceled"}
  PROVE  /\ staged = 1 .. N /\ written = staged
         /\ Failing = {}
         /\ producerError = "none"
         /\ producer = "done" /\ jobs = <<>> /\ \A w \in Worker : worker[w].at = "done"
<1> USE PipelineAssumption
<1>1. \A w \in Worker : worker[w].at = "done"
  BY DEF PipelineInv, ClosedInOrder
<1>2. ~FailureInFlight
  BY <1>1 DEF FailureInFlight
<1>3. producerError = "none"
  BY <1>2 DEF PipelineInv, StopsHaveACause
<1>4. jobs = <<>> /\ jobsClosed
  BY <1>1, <1>2 DEF PipelineInv, StopsHaveACause
<1>5. producer = "done" /\ emitted = N /\ staged = 1 .. N
  BY <1>3, <1>4 DEF PipelineInv, ProducerInOrder
<1>6. PICK t \in 0 .. MaxSources : TakenUpTo(t)
  BY DEF PipelineInv, JobsTakenInOrder
<1>7. t = N
  BY <1>3, <1>4, <1>5, <1>6 DEF TakenUpTo
<1>8. \A i : ~Outstanding(i)
  BY <1>1 DEF Outstanding, Busy
<1>9. \A i \in 1 .. N : extracts[i] /\ i \in written
  BY <1>6, <1>7, <1>8 DEF TakenUpTo, Failed
<1>10. written \subseteq 1 .. N
  BY <1>6, <1>7 DEF TakenUpTo
<1> QED BY <1>1, <1>3, <1>4, <1>5, <1>9, <1>10 DEF Failing

(* A recorded extraction failure is the earliest: an earlier source was    *)
(* taken before it, so its failure has been received as well.              *)
LEMMA EarliestAtTheEnd ==
  ASSUME PipelineInv, results = <<>>, resultsClosed, extractionError # 0
  PROVE  extractionError = Min(Failing)
<1> USE PipelineAssumption
<1>1. \A w \in Worker : worker[w].at = "done"
  BY DEF PipelineInv, ClosedInOrder
<1>2. PICK t \in 0 .. MaxSources : TakenUpTo(t)
  BY DEF PipelineInv, JobsTakenInOrder
<1>3. \A i : ~Outstanding(i)
  BY <1>1 DEF Outstanding, Busy
<1>4. extractionError \in Failing /\ extractionError \in Nat
  BY DEF PipelineInv, ResultsAreSound, TypeOK, Failing
<1>5. N \in Nat /\ Failing \subseteq Nat /\ t \in Nat
  BY SourcesTyped DEF PipelineInv, Failing
<1>6. ASSUME NEW i \in Failing PROVE extractionError <= i
  <2>1. i \in 1 .. N /\ ~extracts[i]
    BY DEF Failing
  <2>2. CASE i <= t
    <3>1. i \in 1 .. t
      BY <1>5, <2>1, <2>2
    <3> QED BY <1>2, <1>3, <2>1, <3>1 DEF TakenUpTo
  <2>3. CASE ~(i <= t)
    <3>1. extractionError <= t
      BY <1>2 DEF TakenUpTo
    <3> QED BY <1>4, <1>5, <2>1, <2>3, <3>1
  <2> QED BY <2>2, <2>3
<1>7. \A x \in Failing : (\A y \in Failing : x <= y) => x = extractionError
  BY <1>4, <1>5, <1>6
<1> QED BY <1>4, <1>6, <1>7 DEF Min

(* What the verdicts say of the recorded errors.                           *)
LEMMA VerdictMeans ==
  ASSUME TypeOK
  PROVE  /\ Verdict # "running" /\ Verdict # "committed"
         /\ Verdict = "extracted" => /\ ~Failed /\ ~callerCancelled
                                     /\ producerError \in {"none", "canceled"}
         /\ Verdict = "extraction" => extractionError # 0
         /\ Verdict \in {"extracted", "canceled", "closed", "discovery", "stage", "init",
                         "extraction", "write", "empty"}
<1>1. /\ producerError \in ErrorName /\ callerCancelled \in BOOLEAN
      /\ initError \in BOOLEAN /\ writeError \in BOOLEAN
  BY DEF TypeOK, ErrorName
<1>2. CASE callerCancelled
  BY <1>2 DEF Verdict
<1>3. CASE ~callerCancelled /\ producerError \notin {"none", "canceled"}
  <2>1. Verdict = producerError
    BY <1>3 DEF Verdict
  <2> QED BY <1>1, <1>3, <2>1 DEF ErrorName
<1>4. CASE ~callerCancelled /\ producerError \in {"none", "canceled"}
  BY <1>1, <1>4 DEF Verdict, Failed
<1> QED BY <1>2, <1>3, <1>4

LEMMA ReachVerdictKeeps == PipelineInv /\ ReachVerdict => PipelineInv'
<1> SUFFICES ASSUME PipelineInv, ReachVerdict PROVE PipelineInv'
  OBVIOUS
<1> USE PipelineAssumption
<1>0. /\ results = <<>> /\ resultsClosed /\ verdict' = Verdict /\ verdict = "running"
      /\ UNCHANGED <<extracts, callerCancelled, staged, written, producer, emitted,
                     producerError, jobs, jobsClosed, worker, results, resultsClosed>>
      /\ UNCHANGED <<initError, extractionError, writeError>>
  BY DEF ReachVerdict, producerVars
<1>1. TypeOK
  BY DEF PipelineInv
<1>2. /\ Verdict # "running" /\ Verdict # "committed"
      /\ Verdict = "extracted" => /\ ~Failed /\ ~callerCancelled
                                  /\ producerError \in {"none", "canceled"}
      /\ Verdict = "extraction" => extractionError # 0
      /\ Verdict \in {"extracted", "canceled", "closed", "discovery", "stage", "init",
                      "extraction", "write", "empty"}
  BY <1>1, VerdictMeans
<1>3. TypeOK'
  <2>1. sessionOpen' \in BOOLEAN /\ runCancelled' \in BOOLEAN
    BY DEF ReachVerdict
  <2> QED BY <1>0, <1>1, <1>2, <2>1 DEF TypeOK
<1>4. N' = N /\ Failing' = Failing
  BY <1>0 DEF N, Failing
<1>5. ResultsAreSound' /\ ProducerInOrder'
  BY <1>0, <1>4 DEF PipelineInv, ResultsAreSound, ProducerInOrder, Busy, Sound
<1>6. ClosedInOrder'
  BY <1>0 DEF PipelineInv, ClosedInOrder
<1>7. JobsTakenInOrder'
  <2>1. PICK t \in 0 .. MaxSources : TakenUpTo(t)
    BY DEF PipelineInv, JobsTakenInOrder
  <2>2. TakenUpTo(t)'
    BY <1>0, <2>1 DEF TakenUpTo, Busy, Outstanding, Failed
  <2> QED BY <2>2 DEF JobsTakenInOrder
<1>8. StopsHaveACause'
  BY <1>0, <1>2 DEF PipelineInv, StopsHaveACause, FailureInFlight, Failed
<1>9. CommittedIsComplete'
  BY <1>0, <1>2, <1>4, CompleteAtTheEnd DEF CommittedIsComplete
<1>10. EarliestFailureReported'
  BY <1>0, <1>2, <1>4, EarliestAtTheEnd DEF EarliestFailureReported
<1> QED BY <1>3, <1>5, <1>6, <1>7, <1>8, <1>9, <1>10 DEF PipelineInv

LEMMA FinishKeeps ==
  ASSUME PipelineInv, NEW outcome \in {"committed", "commit"}, Finish(outcome)
  PROVE  PipelineInv'
<1> USE DEF Finish, producerVars
<1>1. TypeOK'
  BY ZenonT(30) DEF PipelineInv, TypeOK
<1>2. ResultsAreSound' /\ ProducerInOrder' /\ ClosedInOrder'
  BY DEF PipelineInv, ResultsAreSound, ProducerInOrder, ClosedInOrder, Busy, Sound, N
<1>3. JobsTakenInOrder'
  <2>1. PICK t \in 0 .. MaxSources : TakenUpTo(t)
    BY DEF PipelineInv, JobsTakenInOrder
  <2>2. TakenUpTo(t)'
    BY <2>1 DEF TakenUpTo, Busy, Outstanding, Failed
  <2> QED BY <2>2 DEF JobsTakenInOrder
<1>4. StopsHaveACause'
  BY DEF PipelineInv, StopsHaveACause, FailureInFlight, Failed
<1>5. CommittedIsComplete' /\ EarliestFailureReported'
  BY DEF PipelineInv, CommittedIsComplete, EarliestFailureReported, Failing, N
<1> QED BY <1>1, <1>2, <1>3, <1>4, <1>5 DEF PipelineInv

LEMMA PipelineNext == PipelineInv /\ [Next]_vars => PipelineInv'
<1> SUFFICES ASSUME PipelineInv, [Next]_vars PROVE PipelineInv'
  OBVIOUS
<1>1. CASE UNCHANGED vars
  <2>1. TypeOK' /\ ResultsAreSound' /\ ProducerInOrder'
    BY <1>1 DEF vars, PipelineInv, TypeOK, ResultsAreSound, ProducerInOrder, Busy, Sound, N
  <2>2. JobsTakenInOrder'
    BY <1>1 DEF vars, PipelineInv, JobsTakenInOrder, TakenUpTo, Busy, Outstanding, Failed
  <2>3. StopsHaveACause' /\ ClosedInOrder'
    BY <1>1 DEF vars, PipelineInv, StopsHaveACause, ClosedInOrder, FailureInFlight, Failed
  <2>4. CommittedIsComplete' /\ EarliestFailureReported'
    BY <1>1 DEF vars, PipelineInv, CommittedIsComplete, EarliestFailureReported, Failing, N
  <2> QED BY <2>1, <2>2, <2>3, <2>4 DEF PipelineInv
<1>2. CASE CallerCancels
  BY <1>2, CallerCancelsKeeps
<1>3. CASE Producer \/ DiscoveryFails
  BY <1>3, StageNextKeeps, SendJobKeeps, ProducerKeeps DEF Producer
<1>4. ASSUME NEW w \in Worker, WorkerStep(w) PROVE PipelineInv'
  BY <1>4, WorkerStepKeeps
<1>5. CASE CloseExtractionResults
  BY <1>5, CloseKeeps
<1>6. CASE Consumer
  BY <1>6, ConsumerReceives, ReachVerdictKeeps, FinishKeeps DEF Consumer
<1> QED BY <1>1, <1>2, <1>3, <1>4, <1>5, <1>6 DEF Next

(* Whatever the numbers of sources and workers and the capacity of the     *)
(* channels, the goroutines of initial_pipeline.go account between them    *)
(* for every source, in the order of discovery, and for every early stop.  *)
THEOREM PipelineInvariant == Spec => []PipelineInv
<1>1. Init => PipelineInv
  BY PipelineInit
<1>2. PipelineInv /\ [Next]_vars => PipelineInv'
  BY PipelineNext
<1> QED BY <1>1, <1>2, PTL DEF Spec

(* The extraction error the pipeline returns names the first source in the *)
(* order of discovery that cannot be extracted, however the workers race.  *)
THEOREM EarliestFailureIsReported == Spec => []EarliestFailureReported
<1>1. PipelineInv => EarliestFailureReported
  BY DEF PipelineInv
<1> QED BY <1>1, PipelineInvariant, PTL

(* What Run seals and commits is the whole workspace, extracted without a  *)
(* failure, with no goroutine left that could touch the session.           *)
THEOREM CommitIsComplete == Spec => []CommittedIsComplete
<1>1. PipelineInv => CommittedIsComplete
  BY DEF PipelineInv
<1> QED BY <1>1, PipelineInvariant, PTL
=============================================================================
