-------------------------- MODULE AsyncFrameRenderer --------------------------
(***************************************************************************)
(* The renderer that takes frame requests from the thread that owns it and  *)
(* renders them on Qt's global thread pool: one preflight job per run, then *)
(* layer workers that take layer indices from a shared counter, and the     *)
(* last of them composes the frame.  The owner learns of the end of a run   *)
(* through an event its QFutureWatcher posts.  Requests made meanwhile      *)
(* coalesce to the newest; cancel() withdraws what is open.                 *)
(***************************************************************************)
EXTENDS Integers, FiniteSets

CONSTANTS Threads,      \* threads of the global pool
          MaxRequests,  \* bound on the requests
          Uses          \* how applications use the renderer: [layers: the layers of the
                        \* documents, requests: the requests made, reentrant: slots
                        \* of busyChanged(false) may call back]

ASSUME ConstantsAssumption ==
    /\ Threads \in Nat \ {0} /\ MaxRequests \in Nat
    /\ Uses \subseteq [layers : Nat, requests : 0 .. MaxRequests, reentrant : BOOLEAN]

VARIABLES
    use,          \* one of Uses, chosen by Init
    \* the owner thread
    nextRequest, pending, running, busy, discardRunning,
    lastCompleted,
    frame,        \* history: the request whose output lastResult holds
    slot,         \* the run finishCurrent is about to publish, 0 outside it
    posted,       \* the watcher's finished event waits in the event queue
    withdrawn,    \* history: requests that were open when cancel() was called
    \* the run of each request
    promise, canceled,
    output,       \* what was added to the promise
    job,          \* its preflight job
    worker,       \* its layer workers
    claimed,      \* the layer index each worker has taken
    nextLayer, remainingWorkers,
    rendered      \* how often each layer has been rendered

ownerVars == <<nextRequest, pending, running, busy, discardRunning, lastCompleted, frame,
               slot, withdrawn, use>>
layerVars == <<worker, claimed, nextLayer, remainingWorkers, rendered>>
runVars == <<promise, canceled, output, job, layerVars>>
vars == <<ownerVars, posted, runVars>>

Request == 1 .. MaxRequests
LayerIndex == 0 .. use.layers - 1

Worker == 1 .. Threads
WorkerCount == IF use.layers < Threads THEN use.layers ELSE Threads

Init ==
    /\ use \in Uses
    /\ nextRequest = 1 /\ pending = 0 /\ running = 0
    /\ busy = FALSE /\ discardRunning = FALSE
    /\ lastCompleted = 0 /\ frame = 0 /\ slot = 0
    /\ posted = FALSE
    /\ withdrawn = {}
    /\ promise = [r \in Request |-> "none"]
    /\ canceled = [r \in Request |-> FALSE]
    /\ output = [r \in Request |-> "none"]
    /\ job = [r \in Request |-> "none"]
    /\ worker = [r \in Request |-> [w \in Worker |-> "none"]]
    /\ claimed = [r \in Request |-> [w \in Worker |-> 0]]
    /\ nextLayer = [r \in Request |-> 0]
    /\ remainingWorkers = [r \in Request |-> 0]
    /\ rendered = [r \in Request |-> [l \in LayerIndex |-> 0]]

-----------------------------------------------------------------------------
(* The owner thread: request(), cancel(), finishCurrent()                    *)

(* d->watcher.isRunning() *)
IsRunning == running # 0 /\ promise[running] = "running"

(* startNext(): the watcher forgets its last future, and with it an event    *)
(* that future has already posted.                                           *)
StartNext(r) ==
    /\ running' = r
    /\ pending' = 0
    /\ promise' = [promise EXCEPT ![r] = "running"]
    /\ job' = [job EXCEPT ![r] = "queued"]
    /\ posted' = FALSE
    /\ UNCHANGED <<canceled, output, layerVars>>

OwnerCalls == slot = 0 \/ use.reentrant

\* Mutant: a request does not take back an earlier cancel().
RequestKeepsDiscard ==
    /\ OwnerCalls /\ nextRequest <= use.requests
    /\ nextRequest' = nextRequest + 1
    /\ busy' = TRUE
    /\ IF IsRunning
       THEN /\ pending' = nextRequest
            /\ UNCHANGED <<running, posted, runVars>>
       ELSE StartNext(nextRequest)
    /\ UNCHANGED <<discardRunning, lastCompleted, frame, slot, withdrawn, use>>

RequestFrame ==
    /\ OwnerCalls /\ nextRequest <= use.requests
    /\ nextRequest' = nextRequest + 1
    /\ discardRunning' = FALSE
    /\ busy' = TRUE
    /\ IF IsRunning
       THEN /\ pending' = nextRequest
            /\ UNCHANGED <<running, posted, runVars>>
       ELSE StartNext(nextRequest)
    /\ UNCHANGED <<lastCompleted, frame, slot, withdrawn, use>>

\* Mutant: what is running is not discarded.
CancelKeepsRunning ==
    /\ OwnerCalls
    /\ pending' = 0
    /\ withdrawn' = withdrawn \union (lastCompleted + 1 .. nextRequest - 1)
    /\ IF IsRunning
       THEN canceled' = [canceled EXCEPT ![running] = TRUE] /\ UNCHANGED busy
       ELSE busy' = FALSE /\ UNCHANGED canceled
    /\ UNCHANGED <<nextRequest, running, discardRunning, lastCompleted, frame, slot, posted,
                   use, promise, output, job, layerVars>>

Cancel ==
    /\ OwnerCalls
    /\ pending' = 0
    /\ discardRunning' = TRUE
    /\ withdrawn' = withdrawn \union (lastCompleted + 1 .. nextRequest - 1)
    /\ IF IsRunning
       THEN canceled' = [canceled EXCEPT ![running] = TRUE] /\ UNCHANGED busy
       ELSE busy' = FALSE /\ UNCHANGED canceled
    /\ UNCHANGED <<nextRequest, running, lastCompleted, frame, slot, posted, use, promise,
                   output, job, layerVars>>

\* Mutant: finishCurrent leaves a waiting request to the next event.
FinishForgetsPending ==
    /\ slot = 0 /\ posted
    /\ busy' = (pending # 0)
    /\ slot' = IF pending # 0 THEN 0 ELSE running
    /\ posted' = FALSE
    /\ UNCHANGED <<nextRequest, pending, running, discardRunning, lastCompleted, frame,
                   withdrawn, use, runVars>>

(* finishCurrent() down to setBusy(false), which runs the busyChanged slots. *)
FinishCurrent ==
    /\ slot = 0 /\ posted
    /\ IF pending # 0
       THEN StartNext(pending) /\ UNCHANGED <<busy, slot>>
       ELSE /\ busy' = FALSE
            /\ slot' = running
            /\ posted' = FALSE
            /\ UNCHANGED <<pending, running, runVars>>
    /\ UNCHANGED <<nextRequest, discardRunning, lastCompleted, frame, withdrawn, use>>

\* Mutant: the id is read again after the slots have run.
PublishRunning ==
    /\ slot # 0
    /\ IF discardRunning \/ output[slot] = "none"
       THEN UNCHANGED <<lastCompleted, frame>>
       ELSE lastCompleted' = running /\ frame' = slot
    /\ slot' = 0
    /\ UNCHANGED <<nextRequest, pending, running, busy, discardRunning, posted, withdrawn,
                   use, runVars>>

(* The rest of finishCurrent(). *)
Publish ==
    /\ slot # 0
    /\ IF discardRunning \/ output[slot] = "none"
       THEN UNCHANGED <<lastCompleted, frame>>
       ELSE lastCompleted' = slot /\ frame' = slot
    /\ slot' = 0
    /\ UNCHANGED <<nextRequest, pending, running, busy, discardRunning, posted, withdrawn,
                   use, runVars>>

-----------------------------------------------------------------------------
(* The thread pool *)

PoolIsBusy ==
    Cardinality({r \in Request : job[r] \in {"preflight", "finish"}})
      + Cardinality({x \in Request \X Worker :
                        worker[x[1]][x[2]] \notin {"none", "queued", "done"}}) >= Threads

SetWorker(r, w, step) == worker' = [worker EXCEPT ![r][w] = step]

(* promise->finish(): the watcher of this future posts its event. *)
FinishPromise(r) ==
    /\ promise' = [promise EXCEPT ![r] = "finished"]
    /\ posted' = (posted \/ running = r)

(* addResult() does nothing on a canceled promise. *)
AddResult(r, o) ==
    output' = IF canceled[r] THEN output ELSE [output EXCEPT ![r] = o]

PreflightStarts(r) ==
    /\ job[r] = "queued" /\ ~PoolIsBusy
    /\ job' = [job EXCEPT ![r] = IF canceled[r] THEN "finish" ELSE "preflight"]
    /\ UNCHANGED <<ownerVars, posted, promise, canceled, output, layerVars>>

(* A document that does not validate or has no layer is answered at once. *)
PreflightAnswers(r) ==
    /\ job[r] = "preflight"
    /\ job' = [job EXCEPT ![r] = "finish"]
    /\ AddResult(r, "answer")
    /\ UNCHANGED <<ownerVars, posted, promise, canceled, layerVars>>

PreflightFinishes(r) ==
    /\ job[r] = "finish"
    /\ job' = [job EXCEPT ![r] = "done"]
    /\ FinishPromise(r)
    /\ UNCHANGED <<ownerVars, canceled, output, layerVars>>

PreflightSpawns(r) ==
    /\ job[r] = "preflight" /\ ~canceled[r] /\ use.layers > 0
    /\ job' = [job EXCEPT ![r] = "done"]
    /\ remainingWorkers' = [remainingWorkers EXCEPT ![r] = WorkerCount]
    /\ worker' = [worker EXCEPT ![r] = [w \in Worker |->
                    IF w <= WorkerCount THEN "queued" ELSE "none"]]
    /\ UNCHANGED <<ownerVars, posted, promise, canceled, output, claimed, nextLayer, rendered>>

WorkerStarts(r, w) ==
    /\ worker[r][w] = "queued" /\ ~PoolIsBusy
    /\ SetWorker(r, w, "loop")
    /\ UNCHANGED <<ownerVars, posted, promise, canceled, output, job, claimed, nextLayer,
                   remainingWorkers, rendered>>

LoopTest(r, w) ==
    /\ worker[r][w] = "loop"
    /\ SetWorker(r, w, IF canceled[r] THEN "leave" ELSE "claim")
    /\ UNCHANGED <<ownerVars, posted, promise, canceled, output, job, claimed, nextLayer,
                   remainingWorkers, rendered>>

(* nextLayer.fetch_add(1) *)
ClaimLayer(r, w) ==
    /\ worker[r][w] = "claim"
    /\ nextLayer' = [nextLayer EXCEPT ![r] = @ + 1]
    /\ claimed' = [claimed EXCEPT ![r][w] = nextLayer[r]]
    /\ SetWorker(r, w, IF nextLayer[r] >= use.layers THEN "leave" ELSE "render")
    /\ UNCHANGED <<ownerVars, posted, promise, canceled, output, job, remainingWorkers,
                   rendered>>

RenderLayer(r, w) ==
    /\ worker[r][w] = "render"
    /\ rendered' = [rendered EXCEPT ![r][claimed[r][w]] = @ + 1]
    /\ SetWorker(r, w, "loop")
    /\ UNCHANGED <<ownerVars, posted, promise, canceled, output, job, claimed, nextLayer,
                   remainingWorkers>>

\* Mutant: the first worker to leave composes the frame.
LeaveFirst(r, w) ==
    /\ worker[r][w] = "leave"
    /\ remainingWorkers' = [remainingWorkers EXCEPT ![r] = @ - 1]
    /\ SetWorker(r, w, IF remainingWorkers[r] = WorkerCount THEN "compose" ELSE "done")
    /\ UNCHANGED <<ownerVars, posted, promise, canceled, output, job, claimed, nextLayer,
                   rendered>>

(* remainingWorkers.fetch_sub(1) *)
Leave(r, w) ==
    /\ worker[r][w] = "leave"
    /\ remainingWorkers' = [remainingWorkers EXCEPT ![r] = @ - 1]
    /\ SetWorker(r, w, IF remainingWorkers[r] = 1 THEN "compose" ELSE "done")
    /\ UNCHANGED <<ownerVars, posted, promise, canceled, output, job, claimed, nextLayer,
                   rendered>>

(* finishParallelLayers() up to addResult(). *)
Compose(r, w) ==
    /\ worker[r][w] = "compose"
    /\ AddResult(r, IF \A l \in LayerIndex : rendered[r][l] > 0 THEN "frame" ELSE "partial")
    /\ SetWorker(r, w, "finish")
    /\ UNCHANGED <<ownerVars, posted, promise, canceled, job, claimed, nextLayer,
                   remainingWorkers, rendered>>

WorkerFinishes(r, w) ==
    /\ worker[r][w] = "finish"
    /\ SetWorker(r, w, "done")
    /\ FinishPromise(r)
    /\ UNCHANGED <<ownerVars, canceled, output, job, claimed, nextLayer, remainingWorkers,
                   rendered>>

-----------------------------------------------------------------------------

Preflight(r) == PreflightStarts(r) \/ PreflightAnswers(r) \/ PreflightFinishes(r)
                \/ PreflightSpawns(r)

RenderStep(r, w) == WorkerStarts(r, w) \/ LoopTest(r, w) \/ ClaimLayer(r, w)
                    \/ RenderLayer(r, w) \/ Leave(r, w) \/ Compose(r, w)
                    \/ WorkerFinishes(r, w)

Next ==
    \/ RequestFrame \/ Cancel
    \/ FinishCurrent \/ Publish
    \/ \E r \in Request : Preflight(r) \/ \E w \in Worker : RenderStep(r, w)

Spec == Init /\ [][Next]_vars

(* The event loop delivers what is posted, and pool threads keep running.    *)
Fairness ==
    /\ WF_vars(FinishCurrent) /\ WF_vars(Publish)
    /\ \A r \in Request : WF_vars(Preflight(r))
    /\ \A r \in Request, w \in Worker : WF_vars(RenderStep(r, w))

FairSpec == Spec /\ Fairness

-----------------------------------------------------------------------------
(* Properties *)

(* Every variable ranges over the values the code can store in it. *)
TypeOK ==
    /\ use \in Uses
    /\ nextRequest \in 1 .. use.requests + 1
    /\ pending \in 0 .. use.requests /\ running \in 0 .. use.requests
    /\ busy \in BOOLEAN /\ discardRunning \in BOOLEAN
    /\ lastCompleted \in 0 .. use.requests /\ frame \in 0 .. use.requests
    /\ slot \in 0 .. use.requests
    /\ posted \in BOOLEAN
    /\ withdrawn \subseteq Request
    /\ promise \in [Request -> {"none", "running", "finished"}]
    /\ canceled \in [Request -> BOOLEAN]
    /\ output \in [Request -> {"none", "answer", "frame", "partial"}]
    /\ job \in [Request -> {"none", "queued", "preflight", "finish", "done"}]
    /\ worker \in [Request -> [Worker -> {"none", "queued", "loop", "claim", "render",
                                          "leave", "compose", "finish", "done"}]]
    /\ claimed \in [Request -> [Worker -> Nat]]
    /\ nextLayer \in [Request -> Nat]
    /\ remainingWorkers \in [Request -> Nat]
    /\ rendered \in [Request -> [LayerIndex -> Nat]]

(* Requests never overlap on the pool: while one run has not ended, no other *)
(* is started and no thread is left inside an earlier one (the isRunning     *)
(* test of request(), setFuture() in startNext()).                           *)
OneRunAtATime ==
    \A r, q \in Request : r # q /\ promise[r] = "running" =>
        /\ promise[q] # "running"
        /\ \A w \in Worker : worker[q][w] \in {"none", "done"}

(* No frame is composed from a batch with a layer missing, whichever workers *)
(* a cancel() stopped, and none is rendered twice: the message "parallel     *)
(* layer rendering ended without a layer result" is unreachable.             *)
FramesAreComplete ==
    \A r \in Request :
        /\ output[r] # "partial"
        /\ output[r] = "frame" => \A l \in LayerIndex : rendered[r][l] = 1

(* busy() tells the truth: when it is false nothing runs and nothing waits;  *)
(* when it is true something is still to come that will clear it.            *)
BusyMatchesWork ==
    slot = 0 =>
        /\ ~busy => pending = 0 /\ ~IsRunning
        /\ busy => IsRunning \/ posted

(* Each request is published once at most, in order, and under its own id,   *)
(* even when a busyChanged slot starts the next one before it is.            *)
PublishedInOrder ==
    [][lastCompleted' # lastCompleted =>
            lastCompleted' > lastCompleted /\ frame' = lastCompleted']_vars

(* cancel() and newer requests are respected whatever the pool does: only    *)
(* the newest request is ever published, once, and not after it is canceled. *)
Service == INSTANCE FrameService WITH
    asked <- IF use.reentrant THEN 0 ELSE nextRequest - 1,
    wanted <- IF use.reentrant \/ discardRunning \/ lastCompleted = nextRequest - 1
              THEN 0 ELSE nextRequest - 1,
    shown <- IF use.reentrant THEN 0 ELSE frame

ImplementsFrameService == Service!Spec

(* The renderer does not stay busy, and what was asked last is answered      *)
(* unless it was canceled.                                                   *)
BusyEnds == busy ~> ~busy

NewestIsAnswered ==
    \A r \in Request :
        (nextRequest = r + 1) ~> (nextRequest > r + 1 \/ lastCompleted = r \/ r \in withdrawn)
===============================================================================
