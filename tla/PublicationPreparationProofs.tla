--------------------- MODULE PublicationPreparationProofs ---------------------
(***************************************************************************)
(* The feeder, the workers and the writer of a publication implement the   *)
(* single step GraphStore takes for it, for every set of requests, number  *)
(* of workers and depth of the queue.                                      *)
(***************************************************************************)
EXTENDS PublicationPreparation, GraphStoreProofs

FeederState == {"token", "send", "done"}
WorkerState == {"idle", "holding", "refused", "prepared", "done"}
-----------------------------------------------------------------------------
(* The sizes are numbers: a request has finitely many contributions, and   *)
(* the window is that of at most MaxWorkers workers.                       *)
LEMMA Sizes ==
  request \in Requests \cup {EmptyRequest} =>
    /\ N \in Nat /\ Workers \in Nat /\ Capacity \in Nat /\ Window \in Nat
    /\ Workers <= MaxWorkers /\ (N > 0 => Workers > 0)
<1> SUFFICES ASSUME request \in Requests \cup {EmptyRequest}
             PROVE  /\ N \in Nat /\ Workers \in Nat /\ Capacity \in Nat /\ Window \in Nat
                    /\ Workers <= MaxWorkers /\ (N > 0 => Workers > 0)
  OBVIOUS
<1>1. N \in Nat
  <2>1. CASE request \in Requests
    BY <2>1, RequestAssumption DEF N
  <2>2. CASE request = EmptyRequest
    BY <2>2 DEF N, EmptyRequest
  <2> QED BY <2>1, <2>2
<1>2. Workers \in Nat /\ Workers <= MaxWorkers /\ (N > 0 => Workers > 0)
  BY <1>1, PreparationAssumption DEF Workers
<1>3. Capacity \in Nat
  BY <1>2, PreparationAssumption DEF Capacity
<1> QED BY <1>1, <1>2, <1>3 DEF Window

(* A step that keeps the request keeps the sizes.                          *)
LEMMA SameSizes ==
  request' = request =>
    N' = N /\ Workers' = Workers /\ Capacity' = Capacity /\ Window' = Window
  BY DEF N, Workers, Capacity, Window

(* What the types say of the goroutines.                                   *)
LEMMA Typed ==
  PreparationInv =>
    /\ N \in Nat /\ Workers \in Nat /\ Capacity \in Nat /\ Window \in Nat
    /\ \A w \in 1 .. Workers : w \in Worker
    /\ nextIndex \in Nat /\ 1 <= nextIndex /\ nextIndex <= N + 1
    /\ released \in Nat /\ released <= Window
    /\ feeder.at \in FeederState
    /\ feeder.index \in Nat /\ 1 <= feeder.index /\ feeder.index <= N + 1
    /\ worker \in [Worker -> [at : WorkerState, index : 0 .. N]]
    /\ results \in Seq(0 .. N) /\ Len(results) <= Capacity
    /\ callerDone \in BOOLEAN /\ canceled \in BOOLEAN /\ resultsClosed \in BOOLEAN
<1> SUFFICES ASSUME PreparationInv
             PROVE  /\ N \in Nat /\ Workers \in Nat /\ Capacity \in Nat /\ Window \in Nat
                    /\ \A w \in 1 .. Workers : w \in Worker
                    /\ nextIndex \in Nat /\ 1 <= nextIndex /\ nextIndex <= N + 1
                    /\ released \in Nat /\ released <= Window
                    /\ feeder.at \in FeederState
                    /\ feeder.index \in Nat /\ 1 <= feeder.index /\ feeder.index <= N + 1
                    /\ worker \in [Worker -> [at : WorkerState, index : 0 .. N]]
                    /\ results \in Seq(0 .. N) /\ Len(results) <= Capacity
                    /\ callerDone \in BOOLEAN /\ canceled \in BOOLEAN /\ resultsClosed \in BOOLEAN
  OBVIOUS
<1>1. PreparationTypeOK
  BY DEF PreparationInv
<1>2. /\ N \in Nat /\ Workers \in Nat /\ Capacity \in Nat /\ Window \in Nat
      /\ Workers <= MaxWorkers
  BY <1>1, Sizes DEF PreparationTypeOK
<1>3. \A w \in 1 .. Workers : w \in Worker
  BY <1>2, PreparationAssumption DEF Worker
<1> QED BY <1>1, <1>2, <1>3 DEF PreparationTypeOK, FeederState, WorkerState, Err
-----------------------------------------------------------------------------
(* Steps that do not touch the writer's part keep the transaction.         *)
LEMMA TransactionUntouched ==
  ASSUME PreparationInv, UNCHANGED <<storeVars, request, tx, batch, nextIndex>>,
         pc' = "idle" => pc = "idle", pc = "idle" => pc' = "idle"
  PROVE  StoreInv' /\ TransactionInOrder'
<1>1. StoreInv'
  BY DEF PreparationInv, storeVars, StoreInv, TypeOK, ContiguousVersions, DisjointIntervals,
     IntervalsWithinHistory, CurrentVersion, WorkspaceFactsWithinHistory, RetentionLimit
<1>2. Version' = Version /\ WrittenPaths' = WrittenPaths
  BY DEF Version, CurrentVersion, WrittenPaths, storeVars
<1>3. RetainWorkspaceFacts(Version, request.owners)' = RetainWorkspaceFacts(Version, request.owners)
  BY <1>2 DEF RetainWorkspaceFacts, storeVars
<1>4. TransactionInOrder'
  BY <1>2, <1>3 DEF PreparationInv, TransactionInOrder, storeVars
<1> QED BY <1>1, <1>4

(* The types of what the writer alone changes.                             *)
LEMMA WriterTyped ==
  PreparationInv =>
    /\ TypeOK /\ pc \in {"idle", "collecting", "writing"}
    /\ request \in Requests \cup {EmptyRequest}
    /\ tx \in [rows : SUBSET Row, nodes : SUBSET NodeRow, edges : SUBSET EdgeRow]
    /\ batch \subseteq Row /\ failure \in {"none", "canceled", "storage"}
    /\ pending \subseteq nextIndex .. nextIndex + Window - 1
  BY DEF PreparationInv, PreparationTypeOK

(* What a step of the goroutines must establish.                           *)
LEMMA GoroutineKeeps ==
  ASSUME PreparationInv, UNCHANGED <<storeVars, writerVars>>,
         feeder' \in [at : FeederState, index : 1 .. N + 1],
         worker' \in [Worker -> [at : WorkerState, index : 0 .. N]],
         results' \in Seq(0 .. N), Len(results') <= Capacity,
         released' \in 0 .. Window,
         callerDone' \in BOOLEAN, canceled' = canceled, resultsClosed' \in BOOLEAN,
         WorkersInPlace', FeederInPlace', HandedOutOnce', TokensBounded', WindowHolds'
  PROVE  PreparationInv'
<1>1. StoreInv' /\ TransactionInOrder'
  BY TransactionUntouched DEF writerVars
<1>2. /\ N' = N /\ Capacity' = Capacity /\ Window' = Window
  BY SameSizes DEF writerVars
<1>3. canceled \in BOOLEAN
  BY Typed
<1>4. PreparationTypeOK'
  BY <1>1, <1>2, <1>3 DEF PreparationInv, PreparationTypeOK, writerVars, storeVars, StoreInv,
     FeederState, WorkerState, Err
<1>5. FailuresCancel'
  BY DEF PreparationInv, FailuresCancel, writerVars
<1> QED BY <1>1, <1>4, <1>5 DEF PreparationInv
-----------------------------------------------------------------------------
(* The context of the caller ends.                                         *)
LEMMA CallerCancelsKeeps == PreparationInv /\ CallerCancels => PreparationInv'
<1> SUFFICES ASSUME PreparationInv, CallerCancels PROVE PreparationInv'
  OBVIOUS
<1> USE DEF CallerCancels, channelVars, writerVars
<1>1. N' = N /\ Workers' = Workers /\ Window' = Window
  BY SameSizes
<1>2. Done'
  BY DEF Done
<1>3. WorkersInPlace' /\ FeederInPlace'
  BY <1>1, <1>2 DEF PreparationInv, WorkersInPlace, FeederInPlace
<1>4. HandedOutOnce' /\ TokensBounded'
  BY <1>1 DEF PreparationInv, HandedOutOnce, InFlight, TokensBounded, Dispatched
<1>5. WindowHolds'
  BY <1>2 DEF WindowHolds
<1>6. /\ feeder' \in [at : FeederState, index : 1 .. N + 1]
      /\ worker' \in [Worker -> [at : WorkerState, index : 0 .. N]]
  BY DEF PreparationInv, PreparationTypeOK, FeederState, WorkerState
<1> QED BY <1>3, <1>4, <1>5, <1>6, Typed, GoroutineKeeps

(* The feeder gets a token: what it dispatched grows as the tokens shrink. *)
LEMMA TakeTokenKeeps == PreparationInv /\ TakeToken => PreparationInv'
<1> SUFFICES ASSUME PreparationInv, TakeToken PROVE PreparationInv'
  OBVIOUS
<1> USE DEF TakeToken, writerVars, contextVars
<1>0. PreparationTypeOK /\ feeder \in [at : FeederState, index : 1 .. N + 1]
  BY DEF PreparationInv, PreparationTypeOK, FeederState
<1>1. N' = N /\ Workers' = Workers /\ Window' = Window /\ (Done' <=> Done)
  BY SameSizes DEF Done
<1>2. feeder'.at = "send" /\ feeder'.index = feeder.index
  BY <1>0
<1>3. feeder' \in [at : FeederState, index : 1 .. N + 1]
  BY <1>0 DEF FeederState
<1>4. WorkersInPlace'
  BY <1>1 DEF PreparationInv, WorkersInPlace
<1>5. FeederInPlace'
  BY <1>1, <1>2 DEF PreparationInv, FeederInPlace
<1>6. HandedOutOnce'
  BY <1>2 DEF PreparationInv, HandedOutOnce, InFlight
<1>7. Dispatched' = Dispatched + 1 /\ released' = released - 1 /\ Dispatched \in Int
  BY <1>2, Typed DEF Dispatched
<1>8. TokensBounded'
  BY <1>1, <1>7, Typed DEF PreparationInv, TokensBounded
<1>9. WindowHolds'
  BY <1>1, <1>2, <1>7, Typed DEF PreparationInv, WindowHolds
<1>10. /\ worker' \in [Worker -> [at : WorkerState, index : 0 .. N]]
       /\ released' \in 0 .. Window
  BY Typed
<1> QED BY <1>3, <1>4, <1>5, <1>6, <1>8, <1>9, <1>10, Typed, GoroutineKeeps

(* The feeder gives up when the context is done; a token it holds is lost. *)
LEMMA FeederStopsKeeps == PreparationInv /\ FeederStops => PreparationInv'
<1> SUFFICES ASSUME PreparationInv, FeederStops PROVE PreparationInv'
  OBVIOUS
<1> USE DEF FeederStops, writerVars, contextVars
<1>0. PreparationTypeOK /\ feeder \in [at : FeederState, index : 1 .. N + 1]
  BY DEF PreparationInv, PreparationTypeOK, FeederState
<1>1. N' = N /\ Workers' = Workers /\ Window' = Window /\ Done /\ Done'
  BY SameSizes DEF Done
<1>2. feeder'.at = "done" /\ feeder'.index = feeder.index
  BY <1>0
<1>3. feeder' \in [at : FeederState, index : 1 .. N + 1]
  BY <1>0 DEF FeederState
<1>4. WorkersInPlace'
  BY <1>1 DEF PreparationInv, WorkersInPlace
<1>5. FeederInPlace'
  BY <1>1, <1>2 DEF FeederInPlace
<1>6. HandedOutOnce'
  BY <1>2 DEF PreparationInv, HandedOutOnce, InFlight
<1>7. Dispatched' \in Int /\ Dispatched \in Int /\ Dispatched' <= Dispatched
  BY <1>2, Typed DEF Dispatched
<1>8. TokensBounded'
  BY <1>1, <1>7, Typed DEF PreparationInv, TokensBounded
<1>9. WindowHolds'
  BY <1>1 DEF WindowHolds
<1>10. /\ worker' \in [Worker -> [at : WorkerState, index : 0 .. N]]
       /\ released' \in 0 .. Window
  BY Typed
<1> QED BY <1>3, <1>4, <1>5, <1>6, <1>8, <1>9, <1>10, Typed, GoroutineKeeps

(* The results are closed when the workers have left.                      *)
LEMMA CloseResultsKeeps == PreparationInv /\ CloseResults => PreparationInv'
<1> SUFFICES ASSUME PreparationInv, CloseResults PROVE PreparationInv'
  OBVIOUS
<1> USE DEF CloseResults, writerVars, contextVars
<1>1. N' = N /\ Workers' = Workers /\ Window' = Window /\ (Done' <=> Done)
  BY SameSizes DEF Done
<1>2. WorkersInPlace'
  BY <1>1 DEF PreparationInv, WorkersInPlace
<1>3. FeederInPlace'
  BY <1>1 DEF PreparationInv, FeederInPlace
<1>4. HandedOutOnce' /\ TokensBounded' /\ WindowHolds'
  BY <1>1 DEF PreparationInv, HandedOutOnce, InFlight, TokensBounded, Dispatched, WindowHolds
<1>5. /\ feeder' \in [at : FeederState, index : 1 .. N + 1]
      /\ worker' \in [Worker -> [at : WorkerState, index : 0 .. N]]
      /\ released' \in 0 .. Window
  BY Typed DEF PreparationInv, PreparationTypeOK, FeederState
<1> QED BY <1>2, <1>3, <1>4, <1>5, Typed, GoroutineKeeps
-----------------------------------------------------------------------------
(* A worker takes the next index: it is in nobody else's hands.            *)
LEMMA HandOverKeeps ==
  ASSUME PreparationInv, NEW w \in Worker, HandOver(w)
  PROVE  PreparationInv'
<1> USE DEF HandOver, writerVars, contextVars
<1>0. PICK i : i = feeder.index
  OBVIOUS
<1>1. N' = N /\ Workers' = Workers /\ Window' = Window /\ (Done' <=> Done)
  BY SameSizes DEF Done
<1>2. pc # "idle"
  <2>1. worker[w].at # "done"
    BY Zenon
  <2> QED BY <2>1 DEF PreparationInv, WorkersInPlace
<1>3. i \in 1 .. N
  BY <1>0, <1>2, Typed DEF PreparationInv, FeederInPlace
<1>4. /\ feeder' = [at |-> IF i = N THEN "done" ELSE "token", index |-> i + 1]
      /\ feeder' \in [at : FeederState, index : 1 .. N + 1]
  BY <1>0, <1>3, Typed DEF AfterSending, FeederState
<1>5. /\ worker'[w] = [at |-> "holding", index |-> i]
      /\ \A x \in Worker : x # w => worker'[x] = worker[x]
      /\ worker' \in [Worker -> [at : WorkerState, index : 0 .. N]]
  BY <1>0, <1>3, Typed DEF WorkerState
<1>6. WorkersInPlace'
  BY <1>1, <1>2, <1>3, <1>5 DEF PreparationInv, WorkersInPlace
<1>7. FeederInPlace'
  <2>1. \A x \in Worker : worker'[x].at = "done" => worker[x].at = "done"
    BY <1>5
  <2>3. (feeder.at # "done" => feeder.index <= N)'
    BY <1>1, <1>3, <1>4, Typed
  <2>4. (~Done /\ feeder.at = "done" => feeder.index = N + 1)'
    BY <1>1, <1>4
  <2>5. (~Done => \A x \in 1 .. Workers : worker[x].at = "done" => feeder.at = "done")'
    <3>1. feeder.at # "done"
      OBVIOUS
    <3> QED BY <1>1, <1>2, <2>1, <3>1, Typed DEF PreparationInv, FeederInPlace
  <2> QED BY <2>3, <2>4, <2>5 DEF FeederInPlace
<1>8. HandedOutOnce'
  <2>1. \A j \in InFlight : j < i
    BY <1>0, <1>3, Typed DEF InFlight
  <2>2. i \in InFlight' /\ \A j \in InFlight : j \in InFlight'
    <3>1. nextIndex <= i
      BY <1>0 DEF PreparationInv, HandedOutOnce
    <3>2. nextIndex \in Nat /\ N \in Nat
      BY Typed
    <3>3. feeder'.index = i + 1 /\ nextIndex' = nextIndex
      BY <1>4
    <3>4. InFlight = nextIndex .. i - 1 /\ InFlight' = nextIndex .. (i + 1) - 1
      BY <1>0, <3>3 DEF InFlight
    <3> QED BY <1>3, <3>1, <3>2, <3>4
  <2>3. (nextIndex <= feeder.index /\ pending \subseteq InFlight)'
    BY <1>0, <1>3, <1>4, <2>2, Typed DEF PreparationInv, HandedOutOnce
  <2>4. i \notin pending /\ (\A x \in Worker : worker[x].index # i)
          /\ (\A k \in DOMAIN results : results[k] # i)
    BY <1>3, <2>1 DEF PreparationInv, HandedOutOnce, Err
  <2>5. (\A x \in Worker : worker[x].index # 0 =>
            /\ worker[x].index \in InFlight \ pending
            /\ \A y \in Worker : worker[y].index = worker[x].index => y = x)'
    BY <1>5, <2>2, <2>4 DEF PreparationInv, HandedOutOnce
  <2>6. (\A k \in DOMAIN results : results[k] # Err =>
            /\ results[k] \in InFlight \ pending
            /\ \A x \in Worker : worker[x].index # results[k]
            /\ \A l \in DOMAIN results : results[l] = results[k] => l = k)'
    BY <1>5, <2>2, <2>4 DEF PreparationInv, HandedOutOnce
  <2> QED BY <2>3, <2>5, <2>6 DEF HandedOutOnce
<1>9. Dispatched' = Dispatched
  BY <1>0, <1>3, <1>4, Typed DEF Dispatched
<1>10. TokensBounded'
  BY <1>1, <1>9 DEF PreparationInv, TokensBounded
<1>11. WindowHolds'
  <2> SUFFICES ASSUME ~Done
               PROVE  /\ (released + (Dispatched - (nextIndex - 1)) = Window)'
                      /\ \A j \in nextIndex .. feeder'.index - 1 :
                           \/ j \in pending
                           \/ \E k \in DOMAIN results : results[k] = j
                           \/ \E x \in Worker : worker'[x].index = j
    BY <1>1 DEF WindowHolds
  <2>1. (released + (Dispatched - (nextIndex - 1)) = Window)'
    BY <1>1, <1>2, <1>9 DEF PreparationInv, WindowHolds
  <2>2. ASSUME NEW j \in nextIndex .. feeder'.index - 1
        PROVE  \/ j \in pending
               \/ \E k \in DOMAIN results : results[k] = j
               \/ \E x \in Worker : worker'[x].index = j
    <3>1. CASE j = i
      BY <1>5, <3>1
    <3>2. CASE j # i
      <4>1. j \in nextIndex .. feeder.index - 1
        BY <1>0, <1>3, <1>4, <3>2, Typed
      <4>2. worker[w].index = 0
        BY DEF PreparationInv, WorkersInPlace
      <4>3. j # 0
        BY <4>1, Typed
      <4> QED BY <1>2, <1>5, <4>1, <4>2, <4>3 DEF PreparationInv, WindowHolds
    <3> QED BY <3>1, <3>2
  <2> QED BY <2>1, <2>2
<1>12. released' \in 0 .. Window
  BY Typed
<1> QED BY <1>4, <1>5, <1>6, <1>7, <1>8, <1>10, <1>11, <1>12, Typed, GoroutineKeeps
(* A move of one worker: it keeps its index, or puts it into the results   *)
(* and is free again, or loses it because the context is done.             *)
LEMMA WorkerMoveKeeps ==
  ASSUME PreparationInv, NEW w \in Worker, NEW from \in WorkerState \ {"done"},
         NEW to \in WorkerState \ {"holding"}, WorkerMoves(w, from, to),
         to \in {"refused", "prepared"} => from # "idle",
         to = "refused" => Done,
         to = "done" => Done \/ feeder.at = "done",
         results' \in Seq(0 .. N), Len(results') <= Capacity,
         \/ results' = results
            /\ (from \in {"idle"} \/ to \in {"refused", "prepared"} \/ Done)
         \/ \E r \in {Err, worker[w].index} :
               /\ results' = Append(results, r) /\ to \in {"idle", "done"}
               /\ r = Err => Done
  PROVE  PreparationInv'
<1> USE DEF WorkerMoves, writerVars, contextVars
<1>1. N' = N /\ Workers' = Workers /\ Window' = Window /\ (Done' <=> Done)
  BY SameSizes DEF Done
<1>2. pc # "idle" /\ ~resultsClosed
  BY DEF PreparationInv, WorkersInPlace
<1>3. /\ worker'[w].at = to
      /\ worker'[w].index = (IF to \in {"idle", "done"} THEN 0 ELSE worker[w].index)
      /\ \A x \in Worker : x # w => worker'[x] = worker[x]
      /\ worker' \in [Worker -> [at : WorkerState, index : 0 .. N]]
  <2>1. worker[w] \in [at : WorkerState, index : 0 .. N]
    BY Typed
  <2>2. PICK new : new = IF to \in {"idle", "done"} THEN [at |-> to, index |-> 0]
                        ELSE [worker[w] EXCEPT !.at = to]
    OBVIOUS
  <2>3. new \in [at : WorkerState, index : 0 .. N] /\ new.at = to
          /\ new.index = (IF to \in {"idle", "done"} THEN 0 ELSE worker[w].index)
    BY <2>1, <2>2, Typed
  <2>4. worker' = [worker EXCEPT ![w] = new]
    BY <2>2
  <2> HIDE DEF WorkerMoves
  <2> QED BY <2>3, <2>4, Typed
<1>4. \A x \in Worker : worker'[x].index # 0 => worker'[x].index = worker[x].index
  BY <1>3
<1>5. worker[w].at = from /\ worker[w].index \in 0 .. N
  BY Typed
<1> HIDE DEF WorkerMoves
<1>6. WorkersInPlace'
  <2>1. (\A x \in Worker : worker[x].index = 0 <=> worker[x].at \in {"idle", "done"})'
    BY <1>3, <1>5 DEF PreparationInv, WorkersInPlace, WorkerState
  <2>2. (\A x \in Worker : worker[x].at = "refused" => Done)'
    BY <1>1, <1>3 DEF PreparationInv, WorkersInPlace
  <2>3. ~resultsClosed' /\ pc' # "idle"
    BY <1>2 DEF WorkerMoves
  <2> QED BY <2>1, <2>2, <2>3 DEF WorkersInPlace
<1>7. FeederInPlace'
  <2>1. feeder' = feeder /\ pc' = pc
    BY DEF WorkerMoves
  <2>2. ~Done => \A x \in 1 .. Workers : worker'[x].at = "done" => feeder.at = "done"
    <3>1. ASSUME ~Done, NEW x \in 1 .. Workers, worker'[x].at = "done"
          PROVE  feeder.at = "done"
      <4>1. x \in Worker
        BY Typed
      <4>2. CASE x = w
        BY <1>3, <3>1, <4>2
      <4>3. CASE x # w
        BY <1>2, <1>3, <3>1, <4>1, <4>3 DEF PreparationInv, FeederInPlace
      <4> QED BY <4>2, <4>3
    <3> QED BY <3>1
  <2> QED BY <1>1, <1>2, <2>1, <2>2 DEF PreparationInv, FeederInPlace
<1>8. UNCHANGED <<pc, nextIndex, pending, feeder, released>>
  BY DEF WorkerMoves
<1>9. /\ HandedOutOnce'
      /\ ~Done => \A j \in InFlight :
                    \/ j \in pending
                    \/ \E k \in DOMAIN results' : results'[k] = j
                    \/ \E x \in Worker : worker'[x].index = j
  <2>1. (nextIndex <= feeder.index /\ pending \subseteq InFlight)' /\ InFlight' = InFlight
    BY <1>8 DEF PreparationInv, HandedOutOnce, InFlight
  <2>2. (\A x \in Worker : worker[x].index # 0 =>
            /\ worker[x].index \in InFlight \ pending
            /\ \A y \in Worker : worker[y].index = worker[x].index => y = x)'
    BY <1>4, <1>8, <2>1 DEF PreparationInv, HandedOutOnce
  <2>3. ~Done => \A j \in InFlight : \/ j \in pending
                                     \/ \E k \in DOMAIN results : results[k] = j
                                     \/ \E x \in Worker : worker[x].index = j
    BY <1>2 DEF PreparationInv, WindowHolds, InFlight
  <2>4. \A j \in InFlight : j # 0
    BY Typed DEF InFlight
  <2>5. CASE results' = results
               /\ (from \in {"idle"} \/ to \in {"refused", "prepared"} \/ Done)
    <3>1. (\A k \in DOMAIN results : results[k] # Err =>
              /\ results[k] \in InFlight \ pending
              /\ \A x \in Worker : worker[x].index # results[k]
              /\ \A l \in DOMAIN results : results[l] = results[k] => l = k)'
      BY <1>4, <1>8, <2>1, <2>5 DEF PreparationInv, HandedOutOnce, Err
    <3>2. ~Done => \A x \in Worker : worker'[x].index = worker[x].index
      BY <1>3, <1>5, <2>5 DEF PreparationInv, WorkersInPlace
    <3>3. HandedOutOnce'
      BY <2>1, <2>2, <3>1 DEF HandedOutOnce
    <3> QED BY <2>3, <2>5, <3>2, <3>3
  <2>6. ASSUME NEW r \in {Err, worker[w].index}, results' = Append(results, r),
               to \in {"idle", "done"}, r = Err => Done
        PROVE  /\ HandedOutOnce'
               /\ ~Done => \A j \in InFlight :
                             \/ j \in pending
                             \/ \E k \in DOMAIN results' : results'[k] = j
                             \/ \E x \in Worker : worker'[x].index = j
    <3>1. PICK n \in Nat : n = Len(results)
      BY Typed
    <3>2. /\ DOMAIN results = 1 .. n /\ DOMAIN results' = 1 .. n + 1
          /\ results'[n + 1] = r /\ \A k \in 1 .. n : results'[k] = results[k]
      <4>1. results \in Seq(0 .. N) /\ r \in 0 .. N
        BY <1>5, Typed DEF Err
      <4> QED BY <2>6, <3>1, <4>1
    <3>3. worker'[w].index = 0
      BY <1>3, <2>6
    <3>4. r # Err =>
            /\ r \in InFlight \ pending
            /\ \A x \in Worker : worker'[x].index # r
            /\ \A k \in 1 .. n : results[k] # r
      BY <1>3, <1>4, <3>2, <3>3 DEF PreparationInv, HandedOutOnce, Err
    <3>5. (\A k \in DOMAIN results : results[k] # Err =>
              /\ results[k] \in InFlight \ pending
              /\ \A x \in Worker : worker[x].index # results[k]
              /\ \A l \in DOMAIN results : results[l] = results[k] => l = k)'
      <4>1. ASSUME NEW k \in 1 .. n, results[k] # Err
            PROVE  /\ results[k] \in InFlight \ pending
                   /\ \A x \in Worker : worker'[x].index # results[k]
                   /\ \A l \in 1 .. n : results[l] = results[k] => l = k
        BY <1>4, <3>2, <4>1 DEF PreparationInv, HandedOutOnce, Err
      <4>2. \A k \in 1 .. n + 1 : k \in 1 .. n \/ k = n + 1
        BY <3>1
      <4> QED BY <1>8, <2>1, <3>2, <3>4, <4>1, <4>2
    <3>6. ASSUME ~Done, NEW j \in InFlight
          PROVE  \/ j \in pending
                 \/ \E k \in DOMAIN results' : results'[k] = j
                 \/ \E x \in Worker : worker'[x].index = j
      <4>1. r = worker[w].index
        BY <2>6, <3>6
      <4>2. n + 1 \in DOMAIN results' /\ \A k \in DOMAIN results : k \in DOMAIN results'
        BY <3>1, <3>2
      <4> QED BY <1>3, <2>3, <3>2, <3>6, <4>1, <4>2
    <3>7. HandedOutOnce'
      BY <2>1, <2>2, <3>5 DEF HandedOutOnce
    <3> QED BY <3>6, <3>7
  <2> QED BY <2>5, <2>6
<1>10. TokensBounded' /\ WindowHolds'
  <2>1. Dispatched' = Dispatched
    BY <1>8 DEF Dispatched
  <2> QED BY <1>1, <1>8, <1>9, <2>1 DEF PreparationInv, TokensBounded, WindowHolds, InFlight
<1>11. /\ feeder' \in [at : FeederState, index : 1 .. N + 1]
       /\ released' \in 0 .. Window
  BY <1>8, Typed DEF PreparationInv, PreparationTypeOK, FeederState
<1>12. /\ UNCHANGED <<storeVars, writerVars>>
       /\ callerDone' = callerDone /\ canceled' = canceled /\ resultsClosed' = resultsClosed
  BY DEF WorkerMoves
<1> QED BY <1>3, <1>6, <1>7, <1>9, <1>10, <1>11, <1>12, Typed, GoroutineKeeps
LEMMA WorkerStepKeeps ==
  ASSUME PreparationInv, NEW w \in Worker, WorkerStep(w)
  PROVE  PreparationInv'
<1>1. /\ results \in Seq(0 .. N) /\ Len(results) <= Capacity
      /\ worker[w].index \in 0 .. N /\ 0 \in 0 .. N
  BY Typed
<1>2. CASE HandOver(w)
  BY <1>2, HandOverKeeps
<1>3. CASE NoMoreJobs(w)
  BY <1>1, <1>3, WorkerMoveKeeps DEF NoMoreJobs, WorkerState
<1>4. CASE Prepare(w)
  <2>1. CASE Done
    BY <1>1, <1>4, <2>1, WorkerMoveKeeps DEF Prepare, WorkerState
  <2>2. CASE ~Done
    BY <1>1, <1>4, <2>2, WorkerMoveKeeps DEF Prepare, WorkerState
  <2> QED BY <2>1, <2>2
<1>5. CASE SendError(w)
  <2>1. results' \in Seq(0 .. N) /\ Len(results') <= Capacity /\ results' = Append(results, Err)
    BY <1>1, <1>5, Typed DEF SendError, Send, Err
  <2>2. Done
    BY <1>5 DEF SendError, WorkerMoves, PreparationInv, WorkersInPlace
  <2> QED BY <1>5, <2>1, <2>2, WorkerMoveKeeps DEF SendError, WorkerState
<1>6. CASE SendPrepared(w)
  <2>1. /\ results' \in Seq(0 .. N) /\ Len(results') <= Capacity
        /\ results' = Append(results, worker[w].index)
    BY <1>1, <1>6, Typed DEF SendPrepared, Send
  <2>2. worker[w].index # Err
    BY <1>6 DEF SendPrepared, WorkerMoves, PreparationInv, WorkersInPlace, Err
  <2> QED BY <1>6, <2>1, <2>2, WorkerMoveKeeps DEF SendPrepared, WorkerState
<1>7. CASE GiveUp(w)
  <2>1. PICK from \in {"refused", "prepared"} : WorkerMoves(w, from, "done")
    BY <1>7 DEF GiveUp
  <2> QED BY <1>1, <1>7, <2>1, WorkerMoveKeeps DEF GiveUp, WorkerState
<1> QED BY <1>2, <1>3, <1>4, <1>5, <1>6, <1>7 DEF WorkerStep
-----------------------------------------------------------------------------
(* What a step of the writer inside its transaction must establish.        *)
LEMMA WriterKeeps ==
  ASSUME PreparationInv, UNCHANGED <<storeVars, request, callerDone, feeder, worker, resultsClosed>>,
         pc # "idle", pc' \in {"collecting", "writing"},
         tx' \in [rows : SUBSET Row, nodes : SUBSET NodeRow, edges : SUBSET EdgeRow],
         batch' \subseteq Row,
         nextIndex' \in nextIndex .. N + 1,
         pending' \subseteq nextIndex' .. nextIndex' + Window - 1,
         failure' \in {"none", "canceled", "storage"}, canceled' \in BOOLEAN,
         released' \in 0 .. Window,
         results' \in Seq(0 .. N), Len(results') <= Capacity,
         canceled => canceled',
         FailuresCancel', HandedOutOnce', TokensBounded', WindowHolds', TransactionInOrder'
  PROVE  PreparationInv'
<1>1. N' = N /\ Workers' = Workers /\ Capacity' = Capacity /\ Window' = Window
  BY SameSizes
<1>2. StoreInv'
  BY DEF PreparationInv, storeVars, StoreInv, TypeOK, ContiguousVersions, DisjointIntervals,
     IntervalsWithinHistory, CurrentVersion, WorkspaceFactsWithinHistory, RetentionLimit
<1>3. nextIndex' \in 1 .. N + 1
  BY Typed
<1>4. PreparationTypeOK'
  BY <1>1, <1>2, <1>3 DEF PreparationInv, PreparationTypeOK, StoreInv, Err
<1>5. Done => Done'
  BY DEF Done
<1>6. WorkersInPlace'
  BY <1>5 DEF PreparationInv, WorkersInPlace
<1>7. FeederInPlace'
  BY <1>1, <1>5 DEF PreparationInv, FeederInPlace
<1> QED BY <1>2, <1>4, <1>6, <1>7 DEF PreparationInv

(* The writer has not yet anything to write.                               *)
LEMMA NoneReadyKeeps == PreparationInv /\ NoneReady => PreparationInv'
<1> SUFFICES ASSUME PreparationInv, NoneReady PROVE PreparationInv'
  OBVIOUS
<1> USE DEF NoneReady, contextVars, channelVars
<1>1. N' = N /\ Workers' = Workers /\ Window' = Window /\ (Done' <=> Done)
  BY SameSizes DEF Done
<1>2. TransactionInOrder'
  BY TransactionUntouched
<1>3. FailuresCancel' /\ HandedOutOnce' /\ TokensBounded'
  BY <1>1 DEF PreparationInv, FailuresCancel, HandedOutOnce, InFlight, TokensBounded, Dispatched
<1>4. WindowHolds'
  BY <1>1 DEF PreparationInv, WindowHolds, Dispatched
<1> QED BY <1>2, <1>3, <1>4, Typed, WriterTyped, WriterKeeps

(* A statement fails: the contribution is lost, and everything cancelled.  *)
LEMMA WriteFailsKeeps == PreparationInv /\ WriteFails => PreparationInv'
<1> SUFFICES ASSUME PreparationInv, WriteFails PROVE PreparationInv'
  OBVIOUS
<1> USE DEF WriteFails, channelVars
<1>1. N' = N /\ Workers' = Workers /\ Window' = Window /\ Done'
  BY SameSizes DEF Done
<1>2. TransactionInOrder'
  BY TransactionUntouched
<1>3. FailuresCancel' /\ HandedOutOnce' /\ TokensBounded'
  BY <1>1 DEF PreparationInv, FailuresCancel, HandedOutOnce, InFlight, TokensBounded, Dispatched
<1>4. WindowHolds'
  BY <1>1 DEF WindowHolds
<1>5. pending' \subseteq nextIndex' .. nextIndex' + Window - 1
  BY WriterTyped
<1> QED BY <1>2, <1>3, <1>4, <1>5, Typed, WriterTyped, WriterKeeps

(* A prepared contribution that came is kept until it is its turn; an      *)
(* error cancels; after an error everything is dropped.                    *)
LEMMA ReceiveKeeps == PreparationInv /\ Receive => PreparationInv'
<1> SUFFICES ASSUME PreparationInv, Receive PROVE PreparationInv'
  OBVIOUS
<1>1. PICK result : result = Head(results)
  OBVIOUS
<1>2. /\ pc = "collecting" /\ results # <<>> /\ results' = Tail(results)
      /\ UNCHANGED <<storeVars, request, tx, batch, nextIndex, callerDone,
                     released, feeder, worker, resultsClosed>>
  BY DEF Receive
<1>3. \/ result = Err /\ failure' = "canceled" /\ canceled' = TRUE /\ pc' = pc /\ pending' = pending
      \/ result # Err /\ failure # "none" /\ pc' = pc /\ pending' = pending
           /\ failure' = failure /\ canceled' = canceled
      \/ result # Err /\ failure = "none" /\ pending' = pending \cup {result} /\ pc' = "writing"
           /\ failure' = failure /\ canceled' = canceled
  BY <1>1, <1>2 DEF Receive
<1>4. PICK n \in Nat : Len(results) = n + 1
  <2>1. results \in Seq(0 .. N)
    BY Typed
  <2>2. Len(results) \in Nat /\ Len(results) # 0
    BY <1>2, <2>1
  <2>3. Len(results) - 1 \in Nat /\ Len(results) = (Len(results) - 1) + 1
    BY <2>2
  <2> QED BY <2>3
<1>5. /\ DOMAIN results = 1 .. n + 1 /\ DOMAIN results' = 1 .. n
      /\ results[1] = result /\ result \in 0 .. N
      /\ \A k \in 1 .. n : results'[k] = results[k + 1] /\ k + 1 \in 1 .. n + 1
      /\ results' \in Seq(0 .. N) /\ Len(results') <= Capacity
  BY <1>1, <1>2, <1>4, Typed
<1>6. N' = N /\ Workers' = Workers /\ Window' = Window /\ (Done => Done')
  BY <1>2, <1>3, SameSizes, Typed DEF Done
<1>7. TransactionInOrder'
  BY <1>2, <1>3, TransactionUntouched
<1>8. FailuresCancel'
  BY <1>2, <1>3 DEF PreparationInv, FailuresCancel
<1>9. InFlight' = InFlight /\ Dispatched' = Dispatched
  BY <1>2 DEF InFlight, Dispatched
<1>10. result # Err =>
         /\ result \in InFlight \ pending
         /\ \A w \in Worker : worker[w].index # result
         /\ \A k \in 1 .. n : results'[k] # result
  <2>1. 1 \in DOMAIN results /\ \A k \in 1 .. n : k + 1 # 1 /\ k + 1 \in DOMAIN results
    BY <1>4, <1>5
  <2> QED BY <1>5, <2>1 DEF PreparationInv, HandedOutOnce
<1>11. HandedOutOnce'
  <2>1. pending' \subseteq pending \cup {result} /\ (result = Err => pending' = pending)
    BY <1>3
  <2>2. (nextIndex <= feeder.index /\ pending \subseteq InFlight)'
    BY <1>2, <1>9, <1>10, <2>1 DEF PreparationInv, HandedOutOnce
  <2>3. (\A w \in Worker : worker[w].index # 0 =>
            /\ worker[w].index \in InFlight \ pending
            /\ \A x \in Worker : worker[x].index = worker[w].index => x = w)'
    BY <1>2, <1>9, <1>10, <2>1 DEF PreparationInv, HandedOutOnce
  <2>4. ASSUME NEW k \in DOMAIN results', results'[k] # Err
        PROVE  /\ results'[k] \in InFlight \ pending'
               /\ \A w \in Worker : worker[w].index # results'[k]
               /\ \A l \in DOMAIN results' : results'[l] = results'[k] => l = k
    <3>1. /\ results'[k] \in InFlight \ pending
          /\ \A w \in Worker : worker[w].index # results'[k]
          /\ \A l \in DOMAIN results : results[l] = results'[k] => l = k + 1
      BY <1>5, <2>4 DEF PreparationInv, HandedOutOnce
    <3>2. results'[k] \notin pending'
      BY <1>5, <1>10, <2>1, <3>1
    <3>3. ASSUME NEW l \in DOMAIN results', results'[l] = results'[k] PROVE l = k
      <4>1. l + 1 = k + 1
        BY <1>5, <3>1, <3>3
      <4> QED BY <1>4, <1>5, <4>1
    <3> QED BY <3>1, <3>2, <3>3
  <2> QED BY <1>2, <1>9, <2>2, <2>3, <2>4 DEF HandedOutOnce
<1>12. TokensBounded'
  BY <1>2, <1>6, <1>9 DEF PreparationInv, TokensBounded
<1>13. WindowHolds'
  <2> SUFFICES ASSUME ~Done'
               PROVE  /\ (released + (Dispatched - (nextIndex - 1)) = Window)'
                      /\ \A j \in InFlight :
                           \/ j \in pending'
                           \/ \E k \in DOMAIN results' : results'[k] = j
                           \/ \E w \in Worker : worker[w].index = j
    BY <1>2, <1>9 DEF WindowHolds, InFlight
  <2>1. ~Done /\ canceled' # TRUE
    BY <1>6 DEF Done
  <2>2. failure = "none" /\ result # Err /\ pending' = pending \cup {result}
    <3>1. ~canceled' /\ ~canceled
      BY <2>1 DEF Done
    <3>2. failure = "none" => result # Err
      BY <1>3, <3>1
    <3> QED BY <1>2, <1>3, <3>1, <3>2 DEF PreparationInv, FailuresCancel
  <2>3. (released + (Dispatched - (nextIndex - 1)) = Window)'
    BY <1>2, <1>6, <1>9, <2>1 DEF PreparationInv, WindowHolds
  <2>4. ASSUME NEW j \in InFlight
        PROVE  \/ j \in pending'
               \/ \E k \in DOMAIN results' : results'[k] = j
               \/ \E w \in Worker : worker[w].index = j
    <3>1. \/ j \in pending
          \/ \E k \in DOMAIN results : results[k] = j
          \/ \E w \in Worker : worker[w].index = j
      BY <1>2, <2>1 DEF PreparationInv, WindowHolds, InFlight
    <3>2. ASSUME NEW k \in DOMAIN results, results[k] = j
          PROVE  j \in pending' \/ \E l \in DOMAIN results' : results'[l] = j
      <4>1. CASE k = 1
        BY <1>5, <2>2, <3>2, <4>1
      <4>2. CASE k # 1
        <5>0. k \in 1 .. n + 1
          BY <1>5
        <5>a. k - 1 \in 1 .. n /\ k = (k - 1) + 1
          BY <1>4, <4>2, <5>0
        <5>1. PICK l \in 1 .. n : k = l + 1
          BY <5>a
        <5> QED BY <1>5, <3>2, <5>1
      <4> QED BY <4>1, <4>2
    <3> QED BY <2>2, <3>1, <3>2
  <2> QED BY <2>3, <2>4
<1>14. pending' \subseteq nextIndex' .. nextIndex' + Window - 1
  <2>1. Dispatched \in Int /\ feeder.index - 1 <= Dispatched
    BY Typed DEF Dispatched
  <2>2. released + (Dispatched - (nextIndex - 1)) <= Window
    BY <1>2 DEF PreparationInv, TokensBounded
  <2>3. \A i \in InFlight : i \in nextIndex .. nextIndex + Window - 1
    <3>1. /\ released \in Nat /\ nextIndex \in Nat /\ Window \in Nat /\ feeder.index \in Nat
      BY Typed
    <3>2. feeder.index - 1 <= nextIndex + Window - 1
      BY <2>1, <2>2, <3>1
    <3> QED BY <3>1, <3>2 DEF InFlight
  <2> QED BY <1>2, <1>11, <1>9, <2>3 DEF HandedOutOnce
<1>15. /\ failure' \in {"none", "canceled", "storage"} /\ canceled' \in BOOLEAN
       /\ (canceled => canceled') /\ pc' \in {"collecting", "writing"} /\ pc # "idle"
  <2>1. canceled \in BOOLEAN
    BY Typed
  <2>2. canceled' \in BOOLEAN /\ (canceled => canceled')
    <3>1. canceled' = TRUE \/ canceled' = canceled
      BY <1>3
    <3> QED BY <2>1, <3>1, Zenon
  <2>3. failure \in {"none", "canceled", "storage"}
    BY WriterTyped
  <2>4. failure' \in {"none", "canceled", "storage"}
    BY <1>3, <2>3
  <2>5. pc' \in {"collecting", "writing"} /\ pc # "idle"
    BY <1>2, <1>3
  <2> QED BY <2>2, <2>4, <2>5
<1>16. /\ tx' \in [rows : SUBSET Row, nodes : SUBSET NodeRow, edges : SUBSET EdgeRow]
       /\ batch' \subseteq Row /\ nextIndex' \in nextIndex .. N + 1 /\ released' \in 0 .. Window
  BY <1>2, Typed, WriterTyped
<1> QED BY <1>2, <1>5, <1>7, <1>8, <1>11, <1>12, <1>13, <1>14, <1>15, <1>16, WriterKeeps
-----------------------------------------------------------------------------
(* The rows of the first contributions: those of the update so far.        *)
NewRows(n) ==
  {NewRecord(request.contributions[i].path, Version, request.contributions[i].contribution) :
     i \in 1 .. n}

(* What the assumption on requests says of the request that is written.    *)
LEMMA RequestTyped ==
  request \in Requests =>
    /\ request.contributions \in Seq([path : Path, contribution : Contribution])
    /\ DOMAIN request.contributions = 1 .. N
    /\ \A i \in 1 .. N : /\ request.contributions[i].path \in Path
                         /\ request.contributions[i].contribution \in Contribution
                         /\ \A j \in 1 .. N : request.contributions[j].path = request.contributions[i].path
                                               => j = i
<1> SUFFICES ASSUME request \in Requests
             PROVE  /\ request.contributions \in Seq([path : Path, contribution : Contribution])
                    /\ DOMAIN request.contributions = 1 .. N
                    /\ \A i \in 1 .. N :
                         /\ request.contributions[i].path \in Path
                         /\ request.contributions[i].contribution \in Contribution
                         /\ \A j \in 1 .. N :
                              request.contributions[j].path = request.contributions[i].path => j = i
  OBVIOUS
<1>1. PICK s : s = request.contributions
  OBVIOUS
<1>2. /\ s \in Seq([path : Path, contribution : Contribution])
      /\ \A i, j \in DOMAIN s : s[i].path = s[j].path => i = j
  BY <1>1, RequestAssumption
<1>3. DOMAIN s = 1 .. N /\ \A i \in 1 .. N : s[i] \in [path : Path, contribution : Contribution]
  <2>1. N = Len(s)
    BY <1>1 DEF N
  <2>2. PICK S : S = [path : Path, contribution : Contribution]
    OBVIOUS
  <2>3. s \in Seq(S)
    BY <1>2, <2>2
  <2>4. DOMAIN s = 1 .. Len(s) /\ \A i \in 1 .. Len(s) : s[i] \in S
    BY <2>3
  <2> QED BY <2>1, <2>2, <2>4
<1> QED BY <1>1, <1>2, <1>3

(* Writing one more contribution: the rows of the transaction and of the   *)
(* batch are those of one more, whenever the batch is flushed.  Nothing is *)
(* closed in the first version, in which the store was empty.              *)
LEMMA AddedKeeps ==
  ASSUME PreparationInv, pc # "idle", nextIndex \in 1 .. N,
         NEW flush \in BOOLEAN, Added(flush), UNCHANGED <<storeVars, request>>,
         nextIndex' = nextIndex + 1, pc' # "idle"
  PROVE  /\ TransactionInOrder'
         /\ tx' \in [rows : SUBSET Row, nodes : SUBSET NodeRow, edges : SUBSET EdgeRow]
         /\ batch' \subseteq Row
<1>1. PICK p : p = NextContribution.path
  OBVIOUS
<1>2. PICK fresh : fresh = NextRow
  OBVIOUS
<1>3. /\ request \in Requests /\ Version <= MaxVersion
      /\ tx.rows \cup batch = CloseContributionRecords(rows, WrittenPaths, Version - 1)
                               \cup NewRows(nextIndex - 1)
      /\ \A r \in batch : r.path \in WrittenPaths
      /\ tx.nodes = workspaceNodes \cup {[version |-> Version, node |-> m] : m \in request.nodes}
      /\ tx.edges = workspaceEdges \cup RetainWorkspaceFacts(Version, request.owners)
                      \cup {[version |-> Version, edge |-> e] : e \in request.edges}
  BY DEF PreparationInv, TransactionInOrder, NewRows
<1>4. /\ p = request.contributions[nextIndex].path /\ p \in Path /\ p \notin WrittenPaths
      /\ request.contributions[nextIndex].contribution \in Contribution
  <2>1. /\ p = request.contributions[nextIndex].path
        /\ nextIndex \notin 1 .. nextIndex - 1 /\ \A i \in 1 .. nextIndex - 1 : i \in 1 .. N
    BY <1>1, Typed DEF NextContribution
  <2>2. /\ p \in Path /\ request.contributions[nextIndex].contribution \in Contribution
        /\ \A j \in 1 .. N : request.contributions[j].path = p => j = nextIndex
    BY <1>3, <2>1, RequestTyped
  <2> QED BY <2>1, <2>2 DEF WrittenPaths
<1>5. TypeOK /\ CurrentVersion \in Nat /\ Version \in Nat \ {0} /\ NULL \notin Nat
  <2>1. CurrentVersion \in Nat
    BY VersionsAreRun, StoreAssumption DEF PreparationInv, StoreInv
  <2> QED BY <2>1, StoreAssumption DEF Version, PreparationInv, StoreInv
<1>6. /\ fresh = NewRecord(p, Version, request.contributions[nextIndex].contribution)
      /\ fresh \in Row /\ fresh.path = p
  BY <1>1, <1>2, <1>4, <1>5 DEF NextRow, NextContribution, NewRecord, Row
<1>7. /\ WrittenPaths' = WrittenPaths \cup {p} /\ Version' = Version
      /\ NewRows(nextIndex - 1)' = NewRows(nextIndex - 1) \cup {fresh}
  <2>1. Version' = Version
    BY DEF Version, CurrentVersion, storeVars
  <2>2. 1 .. (nextIndex' - 1) = 1 .. (nextIndex - 1) \cup {nextIndex}
    BY Typed
  <2>3. /\ WrittenPaths' = {request.contributions[i].path : i \in 1 .. (nextIndex' - 1)}
        /\ NewRows(nextIndex - 1)' =
             {NewRecord(request.contributions[i].path, Version, request.contributions[i].contribution) :
                i \in 1 .. (nextIndex' - 1)}
    BY <2>1 DEF WrittenPaths, NewRows
  <2>4. WrittenPaths' = WrittenPaths \cup {p}
    BY <1>4, <2>2, <2>3 DEF WrittenPaths
  <2>5. NewRows(nextIndex - 1)' = NewRows(nextIndex - 1) \cup {fresh}
    BY <1>4, <1>6, <2>2, <2>3 DEF NewRows
  <2> QED BY <2>1, <2>4, <2>5
<1>8. PICK closed : closed = IF Version > 1 THEN CloseContributionRecords(tx.rows, {p}, Version - 1)
                             ELSE tx.rows
  OBVIOUS
<1>9. closed \in SUBSET Row
  <2>1. tx.rows \in SUBSET Row
    BY WriterTyped
  <2>2. Version > 1 => Version - 1 \in Nat
    BY <1>5
  <2> QED BY <1>8, <2>1, <2>2 DEF CloseContributionRecords, Row
<1>10. closed \cup batch = CloseContributionRecords(rows, WrittenPaths', Version - 1)
                            \cup NewRows(nextIndex - 1)
  <2> DEFINE Closed(r) == IF r.path = p /\ r.to = NULL THEN [r EXCEPT !.to = Version - 1] ELSE r
  <2>1. \A r \in batch \cup NewRows(nextIndex - 1) : r.path # p
    <3>1. \A r \in NewRows(nextIndex - 1) : r.path \in WrittenPaths
      BY DEF NewRows, WrittenPaths, NewRecord
    <3> QED BY <1>3, <1>4, <3>1
  <2>2. CASE Version > 1
    <3>1. Version - 1 \in Nat
      BY <1>5
    <3>2. closed = {Closed(r) : r \in tx.rows}
      BY <1>8, <2>2 DEF CloseContributionRecords
    <3>3. closed \cup batch = {Closed(r) : r \in tx.rows \cup batch}
      BY <2>1, <3>2
    <3>4. {Closed(r) : r \in tx.rows \cup batch}
            = {Closed(r) : r \in CloseContributionRecords(rows, WrittenPaths, Version - 1)}
                \cup NewRows(nextIndex - 1)
      BY <1>3, <2>1
    <3>5. {Closed(r) : r \in CloseContributionRecords(rows, WrittenPaths, Version - 1)}
            = CloseContributionRecords(rows, WrittenPaths', Version - 1)
      <4>1. PICK v \in Nat : v = Version - 1
        BY <3>1
      <4> DEFINE Old(r) == IF r.path \in WrittenPaths /\ r.to = NULL THEN [r EXCEPT !.to = v] ELSE r
                 New(r) == IF r.path \in WrittenPaths' /\ r.to = NULL THEN [r EXCEPT !.to = v] ELSE r
      <4>2. \A r \in rows : Closed(Old(r)) = New(r)
        <5> SUFFICES ASSUME NEW r \in rows PROVE Closed(Old(r)) = New(r)
          OBVIOUS
        <5>1. r \in Row /\ v # NULL
          BY <1>5 DEF TypeOK
        <5> QED BY <1>7, <4>1, <5>1 DEF Row
      <4>3. /\ CloseContributionRecords(rows, WrittenPaths, Version - 1) = {Old(r) : r \in rows}
            /\ CloseContributionRecords(rows, WrittenPaths', Version - 1) = {New(r) : r \in rows}
        BY <4>1 DEF CloseContributionRecords
      <4> HIDE DEF Closed, Old, New
      <4> QED BY <4>2, <4>3
    <3> QED BY <3>3, <3>4, <3>5
  <2>3. CASE ~(Version > 1)
    <3>1. CurrentVersion = 0
      BY <1>5, <2>3 DEF Version
    <3>2. rows = {}
      <4>1. PICK lo \in Nat \ {0} : versions = lo .. CurrentVersion
        BY VersionsAreRun DEF PreparationInv, StoreInv
      <4>2. versions = {}
        BY <3>1, <4>1
      <4> QED BY <4>2 DEF PreparationInv, StoreInv, IntervalsWithinHistory, Within
    <3>3. \A paths, v : CloseContributionRecords(rows, paths, v) = {}
      BY <3>2 DEF CloseContributionRecords
    <3> QED BY <1>3, <1>8, <2>3, <3>3
  <2> QED BY <2>2, <2>3
<1>11. /\ tx'.nodes = tx.nodes /\ tx'.edges = tx.edges
       /\ tx' \in [rows : SUBSET Row, nodes : SUBSET NodeRow, edges : SUBSET EdgeRow]
       /\ batch' \subseteq Row
       /\ tx'.rows \cup batch' = closed \cup batch \cup {fresh}
       /\ batch' \subseteq batch \cup {fresh}
  <2>1. /\ tx \in [rows : SUBSET Row, nodes : SUBSET NodeRow, edges : SUBSET EdgeRow]
        /\ batch \subseteq Row
    BY WriterTyped
  <2>2. CASE flush
    <3>1. tx' = [tx EXCEPT !.rows = closed \cup batch \cup {fresh}] /\ batch' = {}
      BY <1>1, <1>2, <1>8, <2>2 DEF Added
    <3>2. closed \cup batch \cup {fresh} \in SUBSET Row
      BY <1>6, <1>9, <2>1
    <3> QED BY <2>1, <3>1, <3>2
  <2>3. CASE ~flush
    <3>1. tx' = [tx EXCEPT !.rows = closed] /\ batch' = batch \cup {fresh}
      BY <1>1, <1>2, <1>8, <2>3 DEF Added
    <3> QED BY <1>6, <1>9, <2>1, <3>1
  <2> QED BY <2>2, <2>3
<1>12. (RetainWorkspaceFacts(Version, request.owners))' = RetainWorkspaceFacts(Version, request.owners)
  BY <1>7 DEF RetainWorkspaceFacts, storeVars
<1>13. (CloseContributionRecords(rows, WrittenPaths, Version - 1))'
         = CloseContributionRecords(rows, WrittenPaths', Version - 1)
  BY <1>7 DEF CloseContributionRecords, storeVars
<1>14. (tx.rows \cup batch = CloseContributionRecords(rows, WrittenPaths, Version - 1)
                              \cup NewRows(nextIndex - 1))'
  BY <1>7, <1>10, <1>11, <1>13
<1>15. (\A r \in batch : r.path \in WrittenPaths)'
  BY <1>3, <1>6, <1>7, <1>11
<1>16. /\ (tx.nodes = workspaceNodes \cup {[version |-> Version, node |-> m] : m \in request.nodes})'
       /\ (tx.edges = workspaceEdges \cup RetainWorkspaceFacts(Version, request.owners)
                        \cup {[version |-> Version, edge |-> e] : e \in request.edges})'
  BY <1>3, <1>7, <1>11, <1>12 DEF storeVars
<1>17. TransactionInOrder'
  BY <1>3, <1>7, <1>14, <1>15, <1>16 DEF TransactionInOrder, NewRows
<1> QED BY <1>11, <1>17

(* The contribution whose turn it is is written, and its token given back. *)
LEMMA WriteNextKeeps ==
  ASSUME PreparationInv, NEW flush \in BOOLEAN, WriteNext(flush)
  PROVE  PreparationInv'
<1>1. /\ pc = "writing" /\ pc' = pc /\ nextIndex \in pending /\ released < Window
      /\ pending' = pending \ {nextIndex} /\ nextIndex' = nextIndex + 1
      /\ released' = released + 1 /\ failure' = failure /\ canceled' = canceled
      /\ callerDone' = callerDone
      /\ UNCHANGED <<storeVars, request, feeder, worker, results, resultsClosed>>
  BY DEF WriteNext, contextVars
<1>2. N' = N /\ Workers' = Workers /\ Window' = Window /\ (Done' <=> Done)
  BY <1>1, SameSizes DEF Done
<1>3. nextIndex \in InFlight /\ nextIndex < feeder.index /\ nextIndex \in 1 .. N
  BY <1>1, Typed DEF PreparationInv, HandedOutOnce, InFlight
<1>4. /\ TransactionInOrder'
      /\ tx' \in [rows : SUBSET Row, nodes : SUBSET NodeRow, edges : SUBSET EdgeRow]
      /\ batch' \subseteq Row
  BY <1>1, <1>3, AddedKeeps DEF WriteNext
<1>5. FailuresCancel'
  BY <1>1 DEF PreparationInv, FailuresCancel
<1>6. \A i : i \in InFlight' <=> i \in InFlight /\ i # nextIndex
  BY <1>1, <1>3, Typed DEF InFlight
<1>7. HandedOutOnce'
  <2>1. (nextIndex <= feeder.index /\ pending \subseteq InFlight)'
    BY <1>1, <1>3, <1>6, Typed DEF PreparationInv, HandedOutOnce
  <2>2. (\A w \in Worker : worker[w].index # 0 =>
            /\ worker[w].index \in InFlight \ pending
            /\ \A x \in Worker : worker[x].index = worker[w].index => x = w)'
    BY <1>1, <1>6 DEF PreparationInv, HandedOutOnce
  <2>3. (\A k \in DOMAIN results : results[k] # Err =>
            /\ results[k] \in InFlight \ pending
            /\ \A w \in Worker : worker[w].index # results[k]
            /\ \A l \in DOMAIN results : results[l] = results[k] => l = k)'
    BY <1>1, <1>6 DEF PreparationInv, HandedOutOnce, Err
  <2> QED BY <2>1, <2>2, <2>3 DEF HandedOutOnce
<1>8. Dispatched' = Dispatched /\ Dispatched \in Int
  BY <1>1, Typed DEF Dispatched
<1>a. released' + (Dispatched' - (nextIndex' - 1)) = released + (Dispatched - (nextIndex - 1))
  <2>1. released \in Int /\ nextIndex \in Int /\ Dispatched \in Int
    BY <1>8, Typed
  <2>2. released' = released + 1 /\ nextIndex' = nextIndex + 1 /\ Dispatched' = Dispatched
    BY <1>1, <1>8
  <2> QED BY <2>1, <2>2
<1>9. TokensBounded'
  BY <1>1, <1>2, <1>a DEF PreparationInv, TokensBounded
<1>10. WindowHolds'
  <2>1. \A j \in nextIndex' .. feeder.index - 1 : j \in nextIndex .. feeder.index - 1 /\ j # nextIndex
    BY <1>1, Typed
  <2>2. ~Done => (released + (Dispatched - (nextIndex - 1)) = Window)'
    BY <1>1, <1>2, <1>a DEF PreparationInv, WindowHolds
  <2> QED BY <1>1, <1>2, <2>1, <2>2 DEF PreparationInv, WindowHolds
<1>11. /\ pending' \subseteq nextIndex' .. nextIndex' + Window - 1
       /\ released' \in 0 .. Window /\ nextIndex' \in nextIndex .. N + 1
  <2>1. /\ nextIndex \in Nat /\ released \in Nat /\ Window \in Nat /\ N \in Nat
        /\ pending \subseteq nextIndex .. nextIndex + Window - 1
    BY Typed, WriterTyped
  <2>2. \A i \in pending \ {nextIndex} : i \in nextIndex + 1 .. nextIndex + 1 + Window - 1
    BY <2>1
  <2> QED BY <1>1, <1>3, <2>1, <2>2
<1>12. failure' \in {"none", "canceled", "storage"} /\ canceled' \in BOOLEAN
  BY <1>1, Typed, WriterTyped
<1>13. results' \in Seq(0 .. N) /\ Len(results') <= Capacity
  BY <1>1, Typed
<1> QED BY <1>1, <1>4, <1>5, <1>7, <1>9, <1>10, <1>11, <1>12, <1>13, WriterKeeps
-----------------------------------------------------------------------------
(* publish begins: the channel is full of tokens, nothing was handed out   *)
(* and nothing written but the workspace facts.                            *)
LEMMA BeginKeeps ==
  ASSUME PreparationInv, NEW r \in Requests, Begin(r)
  PROVE  PreparationInv'
<1>1. /\ Version <= MaxVersion /\ pc' = "collecting" /\ request' = r
      /\ tx' = [rows |-> rows,
                nodes |-> workspaceNodes \cup {[version |-> Version, node |-> m] : m \in r.nodes},
                edges |-> workspaceEdges \cup RetainWorkspaceFacts(Version, r.owners)
                            \cup {[version |-> Version, edge |-> e] : e \in r.edges}]
      /\ batch' = {} /\ pending' = {} /\ nextIndex' = 1 /\ failure' = "none"
      /\ callerDone' = FALSE /\ canceled' = FALSE
      /\ results' = <<>>
      /\ UNCHANGED storeVars
  BY DEF Begin
<1>2. PICK n, count : n = N' /\ count = Workers'
  OBVIOUS
<1>a. /\ n \in Nat /\ count \in Nat /\ count <= MaxWorkers
      /\ (n > 0 => count > 0) /\ (n = 0 => count = 0)
  <2>1. n = Len(r.contributions)
    BY <1>1, <1>2 DEF N
  <2>2. n \in Nat
    BY <2>1, RequestAssumption
  <2>3. count = IF n < MaxWorkers THEN n ELSE MaxWorkers
    BY <1>2 DEF Workers
  <2> QED BY <2>2, <2>3, PreparationAssumption
<1>b. QueueDepth * count \in Nat
  BY <1>a, PreparationAssumption
<1>c. /\ Capacity' = QueueDepth * count /\ Window' = count + QueueDepth * count
  BY <1>2 DEF Window, Capacity
<1>d. Capacity' \in Nat /\ Window' \in Nat
  BY <1>a, <1>b, <1>c
<1>3. /\ released' = Window'
      /\ feeder' = [at |-> IF n = 0 THEN "done" ELSE "token", index |-> 1]
      /\ worker' = [w \in Worker |-> IF w <= count THEN Idle ELSE Ended]
      /\ resultsClosed' = (n = 0)
  BY <1>1, <1>2, <1>c DEF Begin, N, Workers
<1>4. /\ feeder'.index = 1 /\ (feeder'.at = "done" <=> n = 0) /\ feeder'.at # "send"
      /\ feeder' \in [at : {"token", "send", "done"}, index : 1 .. n + 1]
  BY <1>a, <1>3
<1>5. /\ \A w \in Worker : /\ worker'[w].index = 0
                          /\ worker'[w].at = (IF w <= count THEN "idle" ELSE "done")
      /\ worker' \in [Worker -> [at : {"idle", "holding", "refused", "prepared", "done"},
                                 index : 0 .. n]]
  BY <1>a, <1>3 DEF Idle, Ended
<1>6. TypeOK /\ Version \in Nat
  <2>1. CurrentVersion \in Nat
    BY VersionsAreRun, StoreAssumption DEF PreparationInv, StoreInv
  <2> QED BY <2>1 DEF Version, PreparationInv, StoreInv
<1>7. StoreInv'
  BY <1>1 DEF PreparationInv, storeVars, StoreInv, TypeOK, ContiguousVersions, DisjointIntervals,
     IntervalsWithinHistory, CurrentVersion, WorkspaceFactsWithinHistory, RetentionLimit
<1>8. tx' \in [rows : SUBSET Row, nodes : SUBSET NodeRow, edges : SUBSET EdgeRow]
  <2>1. r.nodes \subseteq Node /\ r.edges \subseteq Edge
    BY RequestAssumption
  <2>2. {[version |-> Version, node |-> m] : m \in r.nodes} \subseteq NodeRow
    BY <1>6, <2>1 DEF NodeRow
  <2>3. {[version |-> Version, edge |-> e] : e \in r.edges} \subseteq EdgeRow
    BY <1>6, <2>1 DEF EdgeRow
  <2>4. RetainWorkspaceFacts(Version, r.owners) \subseteq EdgeRow
    BY <1>6 DEF RetainWorkspaceFacts, EdgeRow, TypeOK
  <2> QED BY <1>1, <1>6, <2>2, <2>3, <2>4 DEF TypeOK
<1>9. PreparationTypeOK'
  <2>1. results' \in Seq(Err .. N)' /\ Len(results') <= Capacity'
    BY <1>1, <1>d
  <2>2. nextIndex' \in 1 .. N' + 1 /\ released' \in 0 .. Window'
    <3>1. nextIndex' \in 1 .. n + 1
      BY <1>1, <1>a
    <3>2. released' \in 0 .. Window'
      BY <1>3, <1>d
    <3> QED BY <1>2, <3>1, <3>2
  <2>3. resultsClosed' \in BOOLEAN
    BY <1>3, Zenon
  <2>4. pending' \subseteq nextIndex' .. nextIndex' + Window' - 1
    BY <1>1
  <2> QED BY <1>1, <1>2, <1>4, <1>5, <1>7, <1>8, <2>1, <2>2, <2>3, <2>4 DEF PreparationTypeOK, StoreInv
<1>10. WorkersInPlace'
  <2>1. \A w \in Worker : w \in Nat /\ w > 0
    BY PreparationAssumption DEF Worker
  <2>2. resultsClosed' => \A w \in Worker : worker'[w].at = "done"
    <3>1. resultsClosed' => n = 0
      BY <1>3, Zenon
    <3> QED BY <1>a, <1>5, <2>1, <3>1
  <2>3. \A w \in Worker : worker'[w].at \in {"idle", "done"} /\ worker'[w].at # "refused"
    BY <1>5
  <2> QED BY <1>1, <1>5, <2>2, <2>3 DEF WorkersInPlace
<1>11. FeederInPlace'
  <2>1. \A w \in 1 .. count : w \in Worker /\ w <= count
    BY <1>a, PreparationAssumption DEF Worker
  <2>2. \A w \in 1 .. count : worker'[w].at # "done"
    BY <1>5, <2>1
  <2>3. /\ (feeder'.at # "done" => feeder'.index <= n)
        /\ (feeder'.at = "done" => feeder'.index = n + 1)
    BY <1>a, <1>4
  <2> QED BY <1>2, <2>2, <2>3 DEF FeederInPlace
<1>12. FailuresCancel'
  BY <1>1 DEF FailuresCancel
<1>13. HandedOutOnce'
  BY <1>1, <1>4, <1>5 DEF HandedOutOnce
<1>14. Dispatched' = 0
  BY <1>4 DEF Dispatched
<1>15. TokensBounded' /\ WindowHolds'
  <2>1. released' + (Dispatched' - (nextIndex' - 1)) = Window'
    <3>1. released' = Window' /\ Window' \in Nat
      BY <1>3, <1>d
    <3>2. nextIndex' = 1 /\ Dispatched' = 0
      BY <1>1, <1>14
    <3>3. PICK size \in Nat : size = Window'
      BY <3>1
    <3>4. size + (0 - (1 - 1)) = size
      OBVIOUS
    <3> QED BY <3>1, <3>2, <3>3, <3>4
  <2>2. nextIndex' .. feeder'.index - 1 = {}
    BY <1>1, <1>4
  <2> QED BY <1>d, <2>1, <2>2 DEF TokensBounded, WindowHolds
<1>16. TransactionInOrder'
  <2>1. WrittenPaths' = {} /\ Version' = Version
    BY <1>1 DEF WrittenPaths, Version, CurrentVersion, storeVars
  <2>2. CloseContributionRecords(rows, {}, Version - 1) = rows
    BY DEF CloseContributionRecords
  <2>3. NewRows(nextIndex - 1)' = {}
    BY <1>1 DEF NewRows
  <2>4. (CloseContributionRecords(rows, WrittenPaths, Version - 1))' = rows'
    BY <1>1, <2>1, <2>2 DEF CloseContributionRecords, storeVars
  <2>5. (RetainWorkspaceFacts(Version, request.owners))' = RetainWorkspaceFacts(Version, r.owners)
    BY <1>1, <2>1 DEF RetainWorkspaceFacts, storeVars
  <2> QED BY <1>1, <2>1, <2>3, <2>4, <2>5 DEF TransactionInOrder, NewRows, storeVars
<1> QED BY <1>7, <1>9, <1>10, <1>11, <1>12, <1>13, <1>15, <1>16 DEF PreparationInv
-----------------------------------------------------------------------------
(* When the results have ended without an error, every contribution was    *)
(* written: the workers ended because the feeder did, and the feeder       *)
(* because every index was handed out, none of which waits anywhere.       *)
LEMMA CollectedIsComplete == PreparationInv => CollectionIsComplete
<1> SUFFICES ASSUME PreparationInv PROVE CollectionIsComplete
  OBVIOUS
<1>1. ASSUME Collected, failure = "none", ~callerDone
      PROVE  nextIndex = N + 1 /\ pending = {}
  <2>1. pc = "collecting" /\ resultsClosed /\ results = <<>>
    BY <1>1 DEF Collected
  <2>2. ~Done
    BY <1>1, <2>1 DEF PreparationInv, FailuresCancel, Done
  <2>3. \A w \in Worker : worker[w].at = "done" /\ worker[w].index = 0
    BY <2>1 DEF PreparationInv, WorkersInPlace
  <2>4. feeder.at = "done"
    <3>1. CASE N = 0
      BY <2>1, <3>1, Typed DEF PreparationInv, FeederInPlace
    <3>2. CASE N > 0
      <4>1. 1 \in 1 .. Workers
        BY <3>2, Sizes, WriterTyped
      <4>2. worker[1].at = "done"
        BY <2>3, <4>1, Typed
      <4> QED BY <2>1, <2>2, <4>1, <4>2 DEF PreparationInv, FeederInPlace
    <3> QED BY <3>1, <3>2, Typed
  <2>5. feeder.index = N + 1
    BY <2>1, <2>2, <2>4 DEF PreparationInv, FeederInPlace
  <2>6. nextIndex \notin pending
    BY <1>1, <2>1 DEF PreparationInv, FailuresCancel
  <2>7. \A i \in nextIndex .. N : i \in pending
    <3>1. SUFFICES ASSUME NEW i \in nextIndex .. N PROVE i \in pending
      OBVIOUS
    <3>2. i \in nextIndex .. feeder.index - 1 /\ i # 0
      BY <2>5, Typed
    <3> QED BY <2>1, <2>2, <2>3, <3>2 DEF PreparationInv, WindowHolds
  <2>8. nextIndex = N + 1
    BY <2>6, <2>7, Typed
  <2>9. InFlight = {}
    BY <2>5, <2>8, Typed DEF InFlight
  <2> QED BY <2>8, <2>9 DEF PreparationInv, HandedOutOnce
<1>2. pc = "idle" => \A w \in Worker : worker[w].at = "done"
  BY DEF PreparationInv, WorkersInPlace
<1> QED BY <1>1, <1>2 DEF CollectionIsComplete

(* What publish leaves behind when it returns.                             *)
LEMMA ReturnKeeps ==
  ASSUME PreparationInv, Collected, Return, StoreInv'
  PROVE  PreparationInv'
<1>1. /\ pc' = "idle" /\ request' = EmptyRequest /\ tx' = NoTransaction /\ batch' = {}
      /\ pending' = {} /\ nextIndex' = 1 /\ failure' = "none" /\ canceled' = TRUE
      /\ callerDone' = FALSE /\ released' = 0 /\ feeder' = [feeder EXCEPT !.index = 1]
      /\ worker' = worker /\ results' = results /\ resultsClosed' = resultsClosed
  BY DEF Return
<1>2. resultsClosed /\ results = <<>>
  BY DEF Collected
<1>3. \A w \in Worker : worker[w].at = "done" /\ worker[w].index = 0
  BY <1>2 DEF PreparationInv, WorkersInPlace
<1>4. N' = 0 /\ Workers' = 0 /\ Capacity' = 0 /\ Window' = 0
  <2>1. N' = 0
    BY <1>1 DEF N, EmptyRequest
  <2>2. Workers' = 0
    BY <2>1, PreparationAssumption DEF Workers
  <2>3. Capacity' = 0
    BY <2>2, PreparationAssumption DEF Capacity
  <2> QED BY <2>1, <2>2, <2>3 DEF Window
<1>5. /\ feeder'.index = 1
      /\ feeder' \in [at : {"token", "send", "done"}, index : 1 .. N' + 1]
  <2>1. feeder \in [at : {"token", "send", "done"}, index : 1 .. N + 1]
    BY DEF PreparationInv, PreparationTypeOK
  <2> QED BY <1>1, <1>4, <2>1
<1>6. worker' \in [Worker -> [at : {"idle", "holding", "refused", "prepared", "done"},
                             index : 0 .. N']]
  <2>1. worker \in [Worker -> [at : WorkerState, index : 0 .. N]]
    BY Typed
  <2> QED BY <1>1, <1>3, <1>4, <2>1 DEF WorkerState
<1>7. PreparationTypeOK'
  <2>1. results' \in Seq(Err .. N)' /\ Len(results') <= Capacity'
    BY <1>1, <1>2, <1>4
  <2>2. tx' \in [rows : SUBSET Row, nodes : SUBSET NodeRow, edges : SUBSET EdgeRow]
    BY <1>1 DEF NoTransaction
  <2>3. nextIndex' \in 1 .. N' + 1 /\ released' \in 0 .. Window'
    BY <1>1, <1>4
  <2> QED BY <1>1, <1>2, <1>5, <1>6, <2>1, <2>2, <2>3 DEF PreparationTypeOK, StoreInv
<1>8. WorkersInPlace'
  BY <1>1, <1>2, <1>3 DEF WorkersInPlace
<1>9. FeederInPlace' /\ TokensBounded' /\ WindowHolds' /\ TransactionInOrder'
  BY <1>1 DEF FeederInPlace, TokensBounded, WindowHolds, TransactionInOrder
<1>10. FailuresCancel'
  BY <1>1 DEF FailuresCancel
<1>11. HandedOutOnce'
  BY <1>1, <1>2, <1>3, <1>5 DEF HandedOutOnce
<1> QED BY <1>7, <1>8, <1>9, <1>10, <1>11 DEF PreparationInv

(* A commit publishes exactly the request: the transaction and its batch   *)
(* hold what GraphStore's Publish computes from the update.                *)
LEMMA CommitPublishes ==
  ASSUME PreparationInv, Commit
  PROVE  /\ Update(request) \in Updates /\ request.nodes \subseteq Node
         /\ request.edges \subseteq Edge /\ request.owners \subseteq Path
         /\ Publish(Update(request), request.nodes, request.edges, request.owners)
<1>1. /\ pc # "idle" /\ nextIndex = N + 1
      /\ RecordVersion(Version, tx.rows \cup batch, tx.nodes, tx.edges)
  BY DEF Commit, Collected
<1>2. /\ request \in Requests /\ Version <= MaxVersion
      /\ tx.rows \cup batch = CloseContributionRecords(rows, WrittenPaths, Version - 1)
                               \cup NewRows(nextIndex - 1)
      /\ tx.nodes = workspaceNodes \cup {[version |-> Version, node |-> m] : m \in request.nodes}
      /\ tx.edges = workspaceEdges \cup RetainWorkspaceFacts(Version, request.owners)
                      \cup {[version |-> Version, edge |-> e] : e \in request.edges}
  BY <1>1 DEF PreparationInv, TransactionInOrder, NewRows
<1>3. PICK s : s = request.contributions
  OBVIOUS
<1>4. PICK update : update = Update(request)
  OBVIOUS
<1>5. /\ DOMAIN s = 1 .. N
      /\ \A i \in 1 .. N : /\ s[i].path \in Path /\ s[i].contribution \in Contribution
                           /\ \A j \in 1 .. N : s[j].path = s[i].path => j = i
  BY <1>2, <1>3, RequestTyped
<1>6. 1 .. (nextIndex - 1) = 1 .. N
  BY <1>1, Typed
<1>7. DOMAIN update = WrittenPaths
  <2>1. WrittenPaths = {s[i].path : i \in 1 .. N}
    BY <1>3, <1>6 DEF WrittenPaths
  <2>2. DOMAIN update = {c.path : c \in {s[i] : i \in DOMAIN s}}
    BY <1>3, <1>4 DEF Update
  <2> QED BY <1>5, <2>1, <2>2
<1>8. ASSUME NEW i \in 1 .. N
      PROVE  s[i].path \in DOMAIN update /\ update[s[i].path] = s[i].contribution
  <2>1. PICK all : all = {s[j] : j \in DOMAIN s}
    OBVIOUS
  <2>2. update = [p \in {c.path : c \in all} |-> (CHOOSE c \in all : c.path = p).contribution]
    BY <1>3, <1>4, <2>1 DEF Update
  <2>3. s[i] \in all /\ \A c \in all : c.path = s[i].path => c = s[i]
    BY <1>5, <2>1
  <2>4. (CHOOSE c \in all : c.path = s[i].path) = s[i]
    BY <2>3
  <2> QED BY <2>2, <2>3, <2>4
<1>9. \A p \in DOMAIN update : \E i \in 1 .. N : p = s[i].path
  BY <1>3, <1>6, <1>7 DEF WrittenPaths
<1>10. update \in Updates
  <2>1. DOMAIN update \in SUBSET Path /\ \A p \in DOMAIN update : update[p] \in Contribution
    BY <1>5, <1>8, <1>9
  <2>2. update = [p \in DOMAIN update |-> update[p]]
    BY <1>4 DEF Update
  <2>3. update \in [DOMAIN update -> Contribution]
    BY <2>1, <2>2
  <2> QED BY <2>1, <2>3 DEF Updates
<1>11. NewRows(nextIndex - 1) = {NewRecord(p, Version, update[p]) : p \in DOMAIN update}
  <2>1. NewRows(nextIndex - 1) = {NewRecord(s[i].path, Version, s[i].contribution) : i \in 1 .. N}
    BY <1>3, <1>6 DEF NewRows
  <2>2. \A i \in 1 .. N : /\ s[i].path \in DOMAIN update
                         /\ update[s[i].path] = s[i].contribution
    BY <1>8
  <2> QED BY <1>9, <2>1, <2>2
<1>12. tx.rows \cup batch = StoreContributions(rows, update, Version)
  BY <1>2, <1>7, <1>11 DEF StoreContributions
<1>13. Publish(update, request.nodes, request.edges, request.owners)
  BY <1>1, <1>2, <1>12 DEF Publish, Version
<1>14. /\ request.nodes \subseteq Node /\ request.edges \subseteq Edge /\ request.owners \subseteq Path
  BY <1>2, RequestAssumption
<1> QED BY <1>4, <1>10, <1>13, <1>14

LEMMA CommitKeeps == PreparationInv /\ Commit => PreparationInv'
<1> SUFFICES ASSUME PreparationInv, Commit PROVE PreparationInv'
  OBVIOUS
<1>1. StoreInv
  BY DEF PreparationInv
<1>2. StoreInv'
  BY <1>1, CommitPublishes, PublishSound
<1> QED BY <1>2, ReturnKeeps DEF Commit

LEMMA PublicationFailsKeeps == PreparationInv /\ PublicationFails => PreparationInv'
<1> SUFFICES ASSUME PreparationInv, PublicationFails PROVE PreparationInv'
  OBVIOUS
<1>1. UNCHANGED storeVars
  BY DEF PublicationFails
<1>2. StoreInv'
  BY <1>1 DEF PreparationInv, storeVars, StoreInv, TypeOK, ContiguousVersions, DisjointIntervals,
     IntervalsWithinHistory, CurrentVersion, WorkspaceFactsWithinHistory, RetentionLimit
<1> QED BY <1>2, ReturnKeeps DEF PublicationFails
-----------------------------------------------------------------------------
LEMMA PreparationBegins == PreparationInit => PreparationInv
<1> SUFFICES ASSUME PreparationInit PROVE PreparationInv
  OBVIOUS
<1> USE DEF PreparationInit
<1>1. StoreInv
  BY InitSound
<1>2. N = 0 /\ Workers = 0 /\ Capacity = 0 /\ Window = 0
  <2>1. N = 0
    BY DEF N, EmptyRequest
  <2>2. Workers = 0
    BY <2>1, PreparationAssumption DEF Workers
  <2>3. Capacity = 0
    BY <2>2, PreparationAssumption DEF Capacity
  <2> QED BY <2>1, <2>2, <2>3 DEF Window
<1>3. \A w \in Worker : worker[w].at = "done" /\ worker[w].index = 0
  BY DEF Ended
<1>4. PreparationTypeOK
  <2>1. worker \in [Worker -> [at : {"idle", "holding", "refused", "prepared", "done"},
                              index : 0 .. N]]
    BY <1>2 DEF Ended
  <2>2. tx \in [rows : SUBSET Row, nodes : SUBSET NodeRow, edges : SUBSET EdgeRow]
    BY DEF NoTransaction
  <2>3. /\ results \in Seq(Err .. N) /\ Len(results) <= Capacity
        /\ nextIndex \in 1 .. N + 1 /\ released \in 0 .. Window
        /\ feeder \in [at : {"token", "send", "done"}, index : 1 .. N + 1]
    BY <1>2
  <2> QED BY <1>1, <2>1, <2>2, <2>3 DEF PreparationTypeOK, StoreInv
<1>5. WorkersInPlace
  BY <1>3 DEF WorkersInPlace
<1>6. FeederInPlace /\ TokensBounded /\ WindowHolds /\ TransactionInOrder
  BY DEF FeederInPlace, TokensBounded, WindowHolds, TransactionInOrder
<1>7. FailuresCancel
  BY DEF FailuresCancel
<1>8. HandedOutOnce
  BY <1>3 DEF HandedOutOnce
<1> QED BY <1>1, <1>4, <1>5, <1>6, <1>7, <1>8 DEF PreparationInv

LEMMA PreparationStep == PreparationInv /\ [PreparationNext]_vars => PreparationInv'
<1> SUFFICES ASSUME PreparationInv, [PreparationNext]_vars PROVE PreparationInv'
  OBVIOUS
<1>1. CASE UNCHANGED vars
  <2>1. UNCHANGED <<storeVars, writerVars, contextVars, channelVars>>
    BY <1>1 DEF vars
  <2>2. N' = N /\ Workers' = Workers /\ Window' = Window /\ (Done' <=> Done)
    BY <2>1, SameSizes DEF Done, writerVars, contextVars
  <2>3. WorkersInPlace' /\ FeederInPlace'
    BY <2>1, <2>2 DEF PreparationInv, WorkersInPlace, FeederInPlace, writerVars, channelVars
  <2>4. HandedOutOnce' /\ TokensBounded' /\ WindowHolds'
    BY <2>1, <2>2 DEF PreparationInv, HandedOutOnce, InFlight, TokensBounded, Dispatched, WindowHolds,
       writerVars, channelVars
  <2>5. /\ feeder' \in [at : FeederState, index : 1 .. N + 1]
        /\ worker' \in [Worker -> [at : WorkerState, index : 0 .. N]]
        /\ released' \in 0 .. Window
        /\ results' = results /\ callerDone' = callerDone /\ canceled' = canceled
        /\ resultsClosed' = resultsClosed
    BY <2>1, Typed DEF PreparationInv, PreparationTypeOK, FeederState, contextVars, channelVars
  <2> QED BY <2>1, <2>3, <2>4, <2>5, Typed, GoroutineKeeps
<1>2. ASSUME NEW r \in Requests, Begin(r) PROVE PreparationInv'
  BY <1>2, BeginKeeps
<1>3. CASE CallerCancels \/ TakeToken \/ FeederStops \/ CloseResults
  BY <1>3, CallerCancelsKeeps, TakeTokenKeeps, FeederStopsKeeps, CloseResultsKeeps
<1>4. ASSUME NEW w \in Worker, WorkerStep(w) PROVE PreparationInv'
  BY <1>4, WorkerStepKeeps
<1>5. CASE Receive \/ WriteFails \/ NoneReady
  BY <1>5, ReceiveKeeps, WriteFailsKeeps, NoneReadyKeeps
<1>6. CASE Write
  BY <1>6, WriteNextKeeps DEF Write
<1>7. CASE Commit \/ PublicationFails
  BY <1>7, CommitKeeps, PublicationFailsKeeps
<1> QED BY <1>1, <1>2, <1>3, <1>4, <1>5, <1>6, <1>7 DEF PreparationNext

(* Every step but the commit leaves the tables that readers see alone.     *)
LEMMA OnlyCommitStores ==
  ASSUME [PreparationNext]_vars
  PROVE  Commit \/ UNCHANGED storeVars
<1>1. CASE UNCHANGED vars
  BY <1>1 DEF vars
<1>2. ASSUME NEW r \in Requests, Begin(r) PROVE UNCHANGED storeVars
  BY <1>2 DEF Begin
<1>3. ASSUME NEW w \in Worker, WorkerStep(w) PROVE UNCHANGED storeVars
  BY <1>3 DEF WorkerStep, HandOver, NoMoreJobs, Prepare, SendError, SendPrepared, GiveUp, WorkerMoves
<1>4. CASE CallerCancels \/ TakeToken \/ FeederStops \/ CloseResults
  BY <1>4 DEF CallerCancels, TakeToken, FeederStops, CloseResults
<1>5. CASE Receive \/ Write \/ WriteFails \/ NoneReady \/ PublicationFails
  BY <1>5 DEF Receive, Write, WriteNext, WriteFails, NoneReady, PublicationFails
<1> QED BY <1>1, <1>2, <1>3, <1>4, <1>5 DEF PreparationNext

(* Whatever the requests, the number of workers and the depth of the       *)
(* queue, the goroutines of a publication account for every index and      *)
(* token, and the transaction holds the beginning of the request.          *)
THEOREM PreparationInvariant == PreparationSpec => []PreparationInv
<1>1. PreparationInit => PreparationInv
  BY PreparationBegins
<1>2. PreparationInv /\ [PreparationNext]_vars => PreparationInv'
  BY PreparationStep
<1> QED BY <1>1, <1>2, PTL DEF PreparationSpec

(* A contribution that was taken a token for and is not written holds that *)
(* token and is with a worker, in the results or pending, so that giving   *)
(* the token back never blocks the writer.                                 *)
THEOREM WindowAlwaysHolds == PreparationSpec => []WindowHolds
<1>1. PreparationInv => WindowHolds
  BY DEF PreparationInv
<1> QED BY <1>1, PreparationInvariant, PTL

(* The error "received %d of %d contributions" (sqlite.go:1123) cannot     *)
(* occur, and no worker outlives its call of publish.                      *)
THEOREM CollectionAlwaysComplete == PreparationSpec => []CollectionIsComplete
<1>1. PreparationInv => CollectionIsComplete
  BY CollectedIsComplete
<1> QED BY <1>1, PreparationInvariant, PTL

(* The store changes in the commit only, and by exactly the request, in    *)
(* whatever order workers finish and rows are flushed.                     *)
THEOREM PreparedPublicationIsExact == PreparationSpec => PublishesExactlyTheRequest
<1>1. PreparationInv /\ [PreparationNext]_vars =>
        [Publish(Update(request), request.nodes, request.edges, request.owners)]_storeVars
  BY CommitPublishes, OnlyCommitStores
<1> QED BY <1>1, PreparationInvariant, PTL DEF PreparationSpec, PublishesExactlyTheRequest

(* The goroutines, their channels and the transaction implement the store  *)
(* that takes a publication as one step; what is proved of GraphStore      *)
(* holds of them.                                                          *)
THEOREM PreparationImplementsStore == PreparationSpec => Spec
<1>1. PreparationInit => Init
  BY DEF PreparationInit
<1>2. PreparationInv /\ [PreparationNext]_vars => [Next]_storeVars
  <2> SUFFICES ASSUME PreparationInv, [PreparationNext]_vars PROVE [Next]_storeVars
    OBVIOUS
  <2>1. CASE Commit
    BY <2>1, CommitPublishes DEF Next
  <2> QED BY <2>1, OnlyCommitStores
<1> QED BY <1>1, <1>2, PreparationInvariant, PTL DEF PreparationSpec, Spec
=============================================================================
