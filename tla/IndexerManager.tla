--------------------------- MODULE IndexerManager ---------------------------
(***************************************************************************)
(* The event queue and lifecycle of one workspace indexer                  *)
(* (indexer/queue.go and indexer/lifecycle.go).                            *)
(*                                                                         *)
(* Manager.mu serialises everything except the calls of the publisher and  *)
(* of the reconciler, which run unlocked in timer callbacks, and the wait  *)
(* of Stop.  A timer callback knows its workspace only, not the worker     *)
(* that armed it: one that has fired before Stop could stop its timer may  *)
(* run against a worker started later.  Durations are left out: an armed   *)
(* timer may fire at any moment.  So are the errors and counters kept for  *)
(* the status, which nothing else reads.                                   *)
(***************************************************************************)
EXTENDS Naturals, SequencesExt, FiniteSets

CONSTANTS
  Path,           \* paths inside the workspace
  EventLists,     \* the event lists Enqueue is called with
  Timer,          \* timers and their callbacks; bounds how many are pending
  Stopper,        \* goroutines that may call Stop
  NULL

ASSUME ManagerAssumption ==
  /\ NULL \notin Timer
  /\ EventLists \subseteq Seq(Path)

VARIABLES
  worker,    \* manager.workers[workspace]
  callback,  \* what became of each timer
  stopper,   \* where each Stop call is
  accepted,  \* history: paths taken by Enqueue and not published since
  disarmed   \* history: a Stop that failed left this worker without timers

vars == <<worker, callback, stopper, accepted, disarmed>>

Worker == [running : BOOLEAN, pending : Seq(Path), pendingSet : SUBSET Path,
           timer : Timer \cup {NULL}, reconcileTimer : Timer \cup {NULL},
           publishing : BOOLEAN, stopping : BOOLEAN]

(* idle: not in use; armed: waiting for its time; fired: the callback runs *)
(* and wants the lock; calling: inside the publisher or the reconciler;    *)
(* returned: the reconciler's events were enqueued, or an error kept.      *)
Callback == [kind : {"publish", "reconcile"},
             at : {"idle", "armed", "fired", "calling", "returned"},
             paths : Seq(Path)]

EmptyWorker(running) ==
  [running |-> running, pending |-> <<>>, pendingSet |-> {},
   timer |-> NULL, reconcileTimer |-> NULL, publishing |-> FALSE, stopping |-> FALSE]

NewWorker == EmptyWorker(TRUE)

NoWorker == EmptyWorker(FALSE)

Idle == [kind |-> "publish", at |-> "idle", paths |-> <<>>]

(* The queue holds each path once and its index agrees with it, whatever   *)
(* failed batches are put back in front of newer events.                   *)
NoDuplicates(seq) == \A i, j \in DOMAIN seq : seq[i] = seq[j] => i = j

TypeOK ==
  /\ worker \in Worker
  /\ worker.pendingSet = ToSet(worker.pending)
  /\ NoDuplicates(worker.pending)
  /\ callback \in [Timer -> Callback]
  /\ stopper \in [Stopper -> {"out", "entered", "waiting"}]
  /\ accepted \subseteq Path
  /\ disarmed \in BOOLEAN
-----------------------------------------------------------------------------
Init ==
  /\ worker = NoWorker
  /\ callback = [t \in Timer |-> Idle]
  /\ stopper = [s \in Stopper |-> "out"]
  /\ accepted = {}
  /\ disarmed = FALSE

Free == {t \in Timer : callback[t].at = "idle"}

Armed(kind) == [Idle EXCEPT !.kind = kind, !.at = "armed"]

Live == worker.running /\ ~worker.stopping

(* Start creates the worker and, with a reconciler, its first              *)
(* reconciliation timer; on a worker that exists it only notes activity.   *)
Start ==
  /\ ~worker.running
  /\ \E t \in Free :
       /\ worker' = [NewWorker EXCEPT !.reconcileTimer = t]
       /\ callback' = [callback EXCEPT ![t] = Armed("reconcile")]
  /\ UNCHANGED <<stopper, accepted, disarmed>>

(* A plausible bug: a path of the failed batch that was queued again       *)
(* meanwhile appears twice.                                                *)
UniquePaths_Identity(paths) == paths

(* The elements of seq at a set of its positions, in their order. *)
ElementsAt(seq, positions) ==
  [k \in 1 .. Cardinality(positions) |->
     seq[CHOOSE i \in positions : Cardinality({j \in positions : j <= i}) = k]]

FirstAt(paths, i) == \A j \in 1 .. i - 1 : paths[j] # paths[i]

(* Each path once, where it comes first. *)
UniquePaths(paths) == ElementsAt(paths, {i \in DOMAIN paths : FirstAt(paths, i)})

(* The paths that are not queued yet join the queue, each once. *)
Queue(w, events) ==
  LET new == {i \in DOMAIN events : FirstAt(events, i) /\ events[i] \notin w.pendingSet} IN
  [w EXCEPT !.pending = @ \o ElementsAt(events, new),
            !.pendingSet = @ \cup ToSet(events)]

(* Events reach the queue.  An event path outside the workspace ends the   *)
(* call with an error: the events before it stay queued, but nothing is    *)
(* scheduled for them.                                                     *)
Enqueued(callbacks, events, rejected) ==
  LET queued == Queue(worker, events) IN
  /\ Live
  /\ IF ~rejected /\ queued.pending # <<>> /\ ~worker.publishing /\ worker.timer = NULL
     THEN \E t \in Free : /\ worker' = [queued EXCEPT !.timer = t]
                          /\ callback' = [callbacks EXCEPT ![t] = Armed("publish")]
     ELSE worker' = queued /\ callback' = callbacks
  /\ accepted' = IF rejected THEN accepted ELSE accepted \cup ToSet(events)
  /\ UNCHANGED <<stopper, disarmed>>

Enqueue(events, rejected) == Enqueued(callback, events, rejected)

Fire(t) ==
  /\ callback[t].at = "armed"
  /\ callback' = [callback EXCEPT ![t].at = "fired"]
  /\ UNCHANGED <<worker, stopper, accepted, disarmed>>
-----------------------------------------------------------------------------
(* The publish callback. *)

(* Two plausible bugs: not asking whether a publication is in flight, and  *)
(* not resetting the index of the queue.                                   *)
PublishBegins_Concurrent(t) ==
  /\ callback[t].kind = "publish" /\ callback[t].at = "fired"
  /\ IF Live /\ worker.pending # <<>>
     THEN /\ callback' = [callback EXCEPT ![t].at = "calling", ![t].paths = worker.pending]
          /\ worker' = [worker EXCEPT !.pending = <<>>, !.pendingSet = {}, !.timer = NULL,
                                      !.publishing = TRUE]
     ELSE callback' = [callback EXCEPT ![t] = Idle] /\ UNCHANGED worker
  /\ UNCHANGED <<stopper, accepted, disarmed>>

PublishBegins_StaleIndex(t) ==
  /\ callback[t].kind = "publish" /\ callback[t].at = "fired"
  /\ IF Live /\ ~worker.publishing /\ worker.pending # <<>>
     THEN /\ callback' = [callback EXCEPT ![t].at = "calling", ![t].paths = worker.pending]
          /\ worker' = [worker EXCEPT !.pending = <<>>, !.timer = NULL, !.publishing = TRUE]
     ELSE callback' = [callback EXCEPT ![t] = Idle] /\ UNCHANGED worker
  /\ UNCHANGED <<stopper, accepted, disarmed>>

PublishBegins(t) ==
  /\ callback[t].kind = "publish" /\ callback[t].at = "fired"
  /\ IF Live /\ ~worker.publishing /\ worker.pending # <<>>
     THEN /\ callback' = [callback EXCEPT ![t].at = "calling", ![t].paths = worker.pending]
          /\ worker' = [worker EXCEPT !.pending = <<>>, !.pendingSet = {}, !.timer = NULL,
                                      !.publishing = TRUE]
     ELSE callback' = [callback EXCEPT ![t] = Idle] /\ UNCHANGED worker
  /\ UNCHANGED <<stopper, accepted, disarmed>>

(* A failed batch goes back in front of what was queued meanwhile. *)
AfterFailure(w, paths) ==
  LET pending == UniquePaths(paths \o w.pending) IN
  [w EXCEPT !.publishing = FALSE, !.pending = pending, !.pendingSet = ToSet(pending)]

AfterSuccess(w) == [w EXCEPT !.publishing = FALSE]

(* A plausible bug: arming a timer only to retry.                          *)
PublishEnds_RetryOnly(t, ok) ==
  LET paths == callback[t].paths IN
  /\ callback[t].kind = "publish" /\ callback[t].at = "calling"
  /\ \E done \in {IF ok THEN AfterSuccess(worker) ELSE AfterFailure(worker, paths)} :
       IF ~ok /\ done.pending # <<>> /\ ~done.stopping /\ done.timer = NULL
       THEN \E u \in Free \cup {t} :
              /\ worker' = [done EXCEPT !.timer = u]
              /\ callback' = [callback EXCEPT ![t] = Idle, ![u] = Armed("publish")]
       ELSE worker' = done /\ callback' = [callback EXCEPT ![t] = Idle]
  /\ stopper' = [s \in Stopper |-> IF stopper[s] = "waiting" THEN "entered" ELSE stopper[s]]
  /\ accepted' = IF ok THEN accepted \ (ToSet(paths) \ worker.pendingSet) ELSE accepted
  /\ UNCHANGED disarmed

(* The publisher returned (or panicked); publishDone is closed, and a      *)
(* timer armed for what is pending, after the throttle or the backoff.     *)
PublishEnds(t, ok) ==
  LET paths == callback[t].paths IN
  /\ callback[t].kind = "publish" /\ callback[t].at = "calling"
  /\ \E done \in {IF ok THEN AfterSuccess(worker) ELSE AfterFailure(worker, paths)} :
       IF done.pending # <<>> /\ ~done.stopping /\ done.timer = NULL
       THEN \E u \in Free \cup {t} :
              /\ worker' = [done EXCEPT !.timer = u]
              /\ callback' = [callback EXCEPT ![t] = Idle, ![u] = Armed("publish")]
       ELSE worker' = done /\ callback' = [callback EXCEPT ![t] = Idle]
  /\ stopper' = [s \in Stopper |-> IF stopper[s] = "waiting" THEN "entered" ELSE stopper[s]]
  /\ accepted' = IF ok THEN accepted \ (ToSet(paths) \ worker.pendingSet) ELSE accepted
  /\ UNCHANGED disarmed
-----------------------------------------------------------------------------
(* The reconciliation callback. *)

ReconcileBegins(t) ==
  /\ callback[t].kind = "reconcile" /\ callback[t].at = "fired"
  /\ IF Live
     THEN /\ worker' = [worker EXCEPT !.reconcileTimer = NULL]
          /\ callback' = [callback EXCEPT ![t].at = "calling"]
     ELSE callback' = [callback EXCEPT ![t] = Idle] /\ UNCHANGED worker
  /\ UNCHANGED <<stopper, accepted, disarmed>>

(* The reconciler returned events, and Enqueue takes them like any others. *)
ReconcileEnqueues(t, events, rejected) ==
  /\ callback[t].kind = "reconcile" /\ callback[t].at = "calling"
  /\ Enqueued([callback EXCEPT ![t].at = "returned"], events, rejected)

(* A plausible bug: a reconciler that failed is not called again.          *)
ReconcileReturns_GivesUp(t) ==
  /\ callback[t].kind = "reconcile" /\ callback[t].at = "calling"
  /\ \E at \in {"returned", "idle"} : callback' = [callback EXCEPT ![t].at = at]
  /\ UNCHANGED <<worker, stopper, accepted, disarmed>>

(* The reconciler found nothing, it failed, or its events were refused     *)
(* because the worker is stopping or gone; the error is only kept for the  *)
(* status.                                                                 *)
ReconcileReturns(t) ==
  /\ callback[t].kind = "reconcile" /\ callback[t].at = "calling"
  /\ callback' = [callback EXCEPT ![t].at = "returned"]
  /\ UNCHANGED <<worker, stopper, accepted, disarmed>>

(* The worker found now need not be the one found when the callback began. *)
ReconcileEnds(t) ==
  /\ callback[t].kind = "reconcile" /\ callback[t].at = "returned"
  /\ IF Live
     THEN \E u \in Free \cup {t} :
            /\ worker' = [worker EXCEPT !.reconcileTimer = u]
            /\ callback' = [callback EXCEPT ![t] = Idle, ![u] = Armed("reconcile")]
     ELSE callback' = [callback EXCEPT ![t] = Idle] /\ UNCHANGED worker
  /\ UNCHANGED <<stopper, accepted, disarmed>>
-----------------------------------------------------------------------------
CallStop(s) ==
  /\ stopper[s] = "out"
  /\ stopper' = [stopper EXCEPT ![s] = "entered"]
  /\ UNCHANGED <<worker, callback, accepted, disarmed>>

(* timer.Stop() prevents a callback that has not started yet. *)
Disarmed(timers) ==
  [t \in Timer |-> IF t \in timers /\ callback[t].at = "armed" THEN Idle ELSE callback[t]]

(* A plausible bug: a worker that is waited for still takes on work.       *)
StopTurn_StaysOpen(s) ==
  /\ stopper[s] = "entered"
  /\ worker' = IF worker.publishing THEN worker ELSE NoWorker
  /\ stopper' = [stopper EXCEPT ![s] = IF worker.publishing THEN "waiting" ELSE "out"]
  /\ callback' = Disarmed({worker.timer, worker.reconcileTimer})
  /\ accepted' = IF worker.publishing THEN accepted ELSE {}
  /\ disarmed' = (disarmed /\ worker.publishing)

(* One turn of Stop's loop: wait for the publication in flight, or release *)
(* the owner lock and forget the worker with what it still had queued.     *)
StopTurn(s) ==
  LET stopped == [worker EXCEPT !.stopping = TRUE, !.timer = NULL, !.reconcileTimer = NULL] IN
  /\ stopper[s] = "entered"
  /\ IF ~worker.running
     THEN /\ stopper' = [stopper EXCEPT ![s] = "out"]
          /\ UNCHANGED <<worker, callback, accepted, disarmed>>
     ELSE /\ callback' = Disarmed({worker.timer, worker.reconcileTimer})
          /\ \/ /\ worker.publishing
                /\ worker' = stopped
                /\ stopper' = [stopper EXCEPT ![s] = "waiting"]
                /\ UNCHANGED <<accepted, disarmed>>
             \/ /\ ~worker.publishing
                /\ worker' = NoWorker
                /\ stopper' = [stopper EXCEPT ![s] = "out"]
                /\ accepted' = {}
                /\ disarmed' = FALSE
             \/ /\ ~worker.publishing
                /\ worker' = [stopped EXCEPT !.stopping = FALSE]
                /\ stopper' = [stopper EXCEPT ![s] = "out"]
                /\ disarmed' = TRUE
                /\ UNCHANGED accepted

CallbackStep(t) ==
  \/ PublishBegins(t) \/ (\E ok \in BOOLEAN : PublishEnds(t, ok))
  \/ ReconcileBegins(t) \/ ReconcileEnds(t)
  \/ (\E events \in EventLists, rejected \in BOOLEAN : ReconcileEnqueues(t, events, rejected))
  \/ ReconcileReturns(t)

Next ==
  \/ Start
  \/ \E events \in EventLists, rejected \in BOOLEAN : Enqueue(events, rejected)
  \/ \E t \in Timer : Fire(t) \/ CallbackStep(t)
  \/ \E s \in Stopper : CallStop(s) \/ StopTurn(s)

(* Timers fire, callbacks and Stop calls get the lock, publisher and       *)
(* reconciler return, and a publisher that is retried for ever succeeds.   *)
Spec ==
  /\ Init /\ [][Next]_vars
  /\ \A t \in Timer : WF_vars(Fire(t) \/ CallbackStep(t))
  /\ SF_vars(\E t \in Timer : PublishEnds(t, TRUE))
  /\ \A s \in Stopper : WF_vars(StopTurn(s))
-----------------------------------------------------------------------------
(* Invariants *)

Publishing == {t \in Timer : callback[t].kind = "publish" /\ callback[t].at = "calling"}

InFlight == UNION {ToSet(callback[t].paths) : t \in Publishing}

(* The publisher is never called twice at once for a workspace, even by a  *)
(* callback left over from a stopped worker, and the worker whose batch is *)
(* in flight is still there to take the batch back.                        *)
OnePublicationAtATime ==
  /\ \A t, u \in Publishing : t = u
  /\ worker.publishing <=> Publishing # {}
  /\ worker.publishing => worker.running

(* A path Enqueue accepted is queued or in flight until it is published or *)
(* the worker stops: failures, retries and events that arrive meanwhile    *)
(* lose nothing.                                                           *)
AcceptedPathsAreKept ==
  accepted \subseteq ToSet(worker.pending) \cup InFlight

(* An accepted path that waits has a timer on its way to publish it, and a *)
(* running worker keeps reconciling periodically (README.md:116), unless a *)
(* Stop dropped the timers and then could not release the lock.            *)
WorkStaysScheduled ==
  Live /\ ~disarmed =>
    /\ \E t \in Timer : callback[t].kind = "reconcile" /\ callback[t].at # "idle"
    /\ accepted # {} =>
         \/ worker.publishing
         \/ \E t \in Timer : callback[t].kind = "publish" /\ callback[t].at \in {"armed", "fired"}

(* A worker that is gone has left nothing behind. *)
StoppedIsEmpty == ~worker.running => worker = NoWorker

(* The timer the worker remembers is on its way to publish what is queued: *)
(* it may be the reason why Enqueue arms no other.                         *)
TimerIsOnItsWay ==
  worker.timer # NULL =>
    /\ Live /\ ~worker.publishing /\ worker.pending # <<>>
    /\ callback[worker.timer].kind = "publish"
    /\ callback[worker.timer].at \in {"armed", "fired"}

(* What the other invariants rest on: the queue and its index agree, and   *)
(* neither a stopped worker nor a remembered timer misleads what follows.  *)
QueueInv ==
  /\ TypeOK
  /\ StoppedIsEmpty
  /\ TimerIsOnItsWay
-----------------------------------------------------------------------------
(* Liveness *)

(* An accepted path does not wait for ever: it is published, or given up   *)
(* because the worker stops; if it is outstanding for ever, that is        *)
(* because new events for it keep arriving, and it keeps being published.  *)
AcceptedPathsGetPublished ==
  \A p \in Path :
    <>[](p \in accepted /\ ~disarmed) =>
      []<><<\E t \in Timer : p \in ToSet(callback[t].paths) /\ PublishEnds(t, TRUE)>>_vars

(* A Stop call returns, unless other calls of Stop never cease: each of    *)
(* them may have to wait for a publication of the worker started next.     *)
StopReturns ==
  \A s \in Stopper :
    []<>(stopper[s] = "out" \/ \E u \in Stopper \ {s} : stopper[u] # "out")
=============================================================================
