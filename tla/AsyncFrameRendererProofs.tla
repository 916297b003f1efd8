----------------------- MODULE AsyncFrameRendererProofs -----------------------
(***************************************************************************)
(* What holds of AsyncFrameRenderer for any number of threads, layers and   *)
(* requests.  RendererInv is inductive: OwnerInv says what the owner thread *)
(* knows of its runs, RunInv what the threads of the pool do in one of them.*)
(***************************************************************************)
EXTENDS AsyncFrameRenderer, FiniteSetTheorems, TLAPS

(* The workers that have not left the loop for good.                         *)
InLoop == {"queued", "loop", "claim", "render", "leave"}
Inside(r) == {w \in Worker : worker[r][w] \in InLoop}
Ends(r) == {w \in Worker : worker[r][w] \in {"compose", "finish"}}

(* remainingWorkers counts the workers inside; the one that leaves last      *)
(* ends the run.                                                             *)
WorkersInv(r) ==
    /\ (promise[r] = "none") = (job[r] = "none")
    /\ job[r] # "done" => \A w \in Worker : worker[r][w] = "none"
    /\ promise[r] = "finished" =>
           job[r] = "done" /\ \A w \in Worker : worker[r][w] \in {"none", "done"}
    /\ remainingWorkers[r] = Cardinality(Inside(r))
    /\ \A w, v \in Ends(r) : w = v
    /\ Ends(r) # {} => Inside(r) = {}

(* Each layer below the counter has been rendered once or is being rendered  *)
(* by the worker that claimed it; no worker leaves a run that counts while   *)
(* there are layers to claim.                                                *)
LayersInv(r) ==
    /\ \A w \in Worker : worker[r][w] = "render" =>
           claimed[r][w] \in LayerIndex /\ claimed[r][w] < nextLayer[r]
             /\ rendered[r][claimed[r][w]] = 0
    /\ \A w, v \in Worker :
           worker[r][w] = "render" /\ worker[r][v] = "render" /\ claimed[r][w] = claimed[r][v] => w = v
    /\ \A l \in LayerIndex : l >= nextLayer[r] => rendered[r][l] = 0
    /\ \A l \in LayerIndex : l < nextLayer[r] =>
           rendered[r][l] = 1 \/ \E w \in Worker : worker[r][w] = "render" /\ claimed[r][w] = l
    /\ \A w \in Worker : worker[r][w] \in {"leave", "compose", "finish", "done"} /\ ~canceled[r] =>
           nextLayer[r] >= use.layers

OutputInv(r) ==
    /\ output[r] # "partial"
    /\ output[r] = "frame" =>
           job[r] = "done" /\ Inside(r) = {} /\ \A l \in LayerIndex : rendered[r][l] = 1

RunInv(r) == WorkersInv(r) /\ LayersInv(r) /\ OutputInv(r)

(* Only the run the owner started last is under way, and what is posted is   *)
(* the news of its end.  What waits is newer than it, and it is newer than   *)
(* what has been published or is about to be.                                *)
OwnerInv ==
    /\ running < nextRequest /\ pending < nextRequest
    /\ \A r \in Request : r >= nextRequest => promise[r] = "none"
    /\ pending # 0 => promise[pending] = "none" /\ pending > running
    /\ \A r \in Request : r # running => promise[r] # "running"
    /\ running # 0 => promise[running] # "none"
    /\ posted => running # 0 /\ promise[running] = "finished"
    /\ busy => IsRunning \/ posted
    /\ ~busy => pending = 0 /\ ~IsRunning
    /\ slot <= running /\ lastCompleted <= running
    /\ slot # 0 => lastCompleted < slot
    /\ IsRunning \/ posted => lastCompleted < running /\ slot < running

RendererInv == TypeOK /\ OwnerInv /\ \A r \in Request : RunInv(r)

-----------------------------------------------------------------------------
(* What the constants and the type allow.                                    *)
LEMMA Bounds ==
    ASSUME TypeOK
    PROVE  /\ MaxRequests \in Nat /\ Threads \in Nat \ {0}
           /\ use.layers \in Nat /\ use.requests \in 0 .. MaxRequests
           /\ 1 .. use.requests \subseteq Request
           /\ WorkerCount \in 0 .. Threads
           /\ use.layers > 0 => WorkerCount > 0
  BY ConstantsAssumption DEF TypeOK, Request, WorkerCount

(* A run is told by its own variables alone.                                 *)
SameRun(r) ==
    UNCHANGED <<promise[r], canceled[r], output[r], job[r], worker[r], claimed[r], nextLayer[r],
                remainingWorkers[r], rendered[r]>>

LEMMA OtherRuns ==
    ASSUME NEW r \in Request, RunInv(r), use' = use, SameRun(r)
    PROVE  RunInv(r)'
  <1> USE DEF SameRun
  <1>1. Inside(r)' = Inside(r) /\ Ends(r)' = Ends(r)
    BY DEF Inside, Ends
  <1>2. LayerIndex' = LayerIndex
    BY DEF LayerIndex
  <1>3. WorkersInv(r)'
    BY <1>1 DEF RunInv, WorkersInv
  <1>4. LayersInv(r)'
    BY <1>2 DEF RunInv, LayersInv
  <1>5. OutputInv(r)'
    BY <1>1, <1>2 DEF RunInv, OutputInv
  <1> QED
    BY <1>3, <1>4, <1>5 DEF RunInv

-----------------------------------------------------------------------------
LEMMA InitHolds == Init => RendererInv
  <1> SUFFICES ASSUME Init PROVE RendererInv
    OBVIOUS
  <1>1. use \in Uses /\ use.layers \in Nat /\ use.requests \in 0 .. MaxRequests /\ MaxRequests \in Nat
    BY ConstantsAssumption DEF Init
  <1>2. TypeOK
    <2>1. 1 \in 1 .. use.requests + 1 /\ 0 \in 0 .. use.requests /\ {} \subseteq Request
      BY <1>1
    <2>2. /\ worker \in [Request -> [Worker -> {"none"}]] /\ claimed \in [Request -> [Worker -> {0}]]
          /\ rendered \in [Request -> [LayerIndex -> {0}]]
      BY DEF Init
    <2>3. /\ worker \in [Request -> [Worker -> {"none", "queued", "loop", "claim", "render",
                                              "leave", "compose", "finish", "done"}]]
          /\ claimed \in [Request -> [Worker -> Nat]] /\ rendered \in [Request -> [LayerIndex -> Nat]]
      BY <2>2
    <2>4. /\ promise \in [Request -> {"none", "running", "finished"}]
          /\ canceled \in [Request -> BOOLEAN]
          /\ output \in [Request -> {"none", "answer", "frame", "partial"}]
          /\ job \in [Request -> {"none", "queued", "preflight", "finish", "done"}]
          /\ nextLayer \in [Request -> Nat] /\ remainingWorkers \in [Request -> Nat]
      BY DEF Init
    <2> QED
      BY <1>1, <2>1, <2>3, <2>4 DEF Init, TypeOK
  <1>3. OwnerInv
    BY <1>1 DEF Init, OwnerInv, IsRunning, Request
  <1>4. ASSUME NEW r \in Request PROVE RunInv(r)
    <2>1. Inside(r) = {} /\ Ends(r) = {}
      BY DEF Init, Inside, Ends, InLoop
    <2>2. WorkersInv(r)
      BY <2>1, FS_EmptySet DEF Init, WorkersInv
    <2>3. LayersInv(r)
      BY <1>1 DEF Init, LayersInv, LayerIndex
    <2>4. OutputInv(r)
      BY DEF Init, OutputInv
    <2> QED
      BY <2>2, <2>3, <2>4 DEF RunInv
  <1> QED
    BY <1>2, <1>3, <1>4 DEF RendererInv

-----------------------------------------------------------------------------
(* The owner thread                                                          *)

(* A request that nothing has been done for starts clean.                    *)
LEMMA StartKeepsRuns ==
    ASSUME TypeOK, \A q \in Request : RunInv(q), NEW r \in Request, promise[r] = "none",
           StartNext(r), use' = use
    PROVE  \A q \in Request : RunInv(q)'
  <1> SUFFICES ASSUME NEW q \in Request PROVE RunInv(q)'
    OBVIOUS
  <1>1. CASE q # r
    BY <1>1, OtherRuns DEF StartNext, layerVars, TypeOK, SameRun
  <1>2. CASE q = r
    <2>1. promise'[r] = "running" /\ job'[r] = "queued" /\ job[r] = "none"
      BY DEF StartNext, TypeOK, RunInv, WorkersInv
    <2>2. UNCHANGED <<canceled, output, layerVars>> /\ Inside(r)' = Inside(r) /\ Ends(r)' = Ends(r)
            /\ LayerIndex' = LayerIndex
      BY DEF StartNext, layerVars, Inside, Ends, LayerIndex
    <2>3. WorkersInv(r)'
      BY <2>1, <2>2 DEF RunInv, WorkersInv, layerVars
    <2>4. LayersInv(r)'
      BY <2>2 DEF RunInv, LayersInv, layerVars
    <2>5. OutputInv(r)'
      BY <2>1, <2>2 DEF RunInv, OutputInv, layerVars
    <2> QED
      BY <1>2, <2>3, <2>4, <2>5 DEF RunInv
  <1> QED
    BY <1>1, <1>2

LEMMA RequestKeepsInv == RendererInv /\ RequestFrame => RendererInv'
  <1> SUFFICES ASSUME RendererInv, RequestFrame PROVE RendererInv'
    OBVIOUS
  <1>1. TypeOK /\ OwnerInv /\ \A r \in Request : RunInv(r)
    BY DEF RendererInv
  <1>2. nextRequest \in Request /\ nextRequest' = nextRequest + 1 /\ use' = use /\ nextRequest <= use.requests
    BY <1>1, Bounds DEF RequestFrame, TypeOK, Request
  <1>3. promise[nextRequest] = "none"
    BY <1>1, <1>2 DEF OwnerInv, TypeOK
  <1>4. CASE IsRunning
    <2>1. UNCHANGED <<running, posted, runVars, lastCompleted, frame, slot, withdrawn>>
            /\ pending' = nextRequest /\ busy' = TRUE /\ discardRunning' = FALSE
      BY <1>4 DEF RequestFrame
    <2>2. TypeOK'
      <3>1. nextRequest' \in 1 .. use.requests + 1 /\ pending' \in 0 .. use.requests
        BY <1>1, <1>2, <2>1, Bounds DEF TypeOK
      <3>2. LayerIndex' = LayerIndex
        BY <1>2 DEF LayerIndex
      <3> QED
        BY <1>1, <1>2, <2>1, <3>1, <3>2 DEF TypeOK, runVars, layerVars
    <2>3. OwnerInv'
      BY <1>1, <1>2, <1>3, <1>4, <2>1, Bounds DEF TypeOK, OwnerInv, IsRunning, runVars, Request
    <2>4. \A r \in Request : RunInv(r)'
      BY <1>1, <1>2, <2>1, OtherRuns DEF runVars, layerVars, SameRun
    <2> QED
      BY <2>2, <2>3, <2>4 DEF RendererInv
  <1>5. CASE ~IsRunning
    <2>1. StartNext(nextRequest) /\ UNCHANGED <<lastCompleted, frame, slot, withdrawn>>
            /\ busy' = TRUE /\ discardRunning' = FALSE
      BY <1>5 DEF RequestFrame
    <2>2. TypeOK'
      <3>1. nextRequest' \in 1 .. use.requests + 1 /\ pending' \in 0 .. use.requests
              /\ running' \in 0 .. use.requests
        BY <1>1, <1>2, <2>1, Bounds DEF TypeOK, StartNext
      <3>2. LayerIndex' = LayerIndex
        BY <1>2 DEF LayerIndex
      <3>3. /\ promise' \in [Request -> {"none", "running", "finished"}]
            /\ job' \in [Request -> {"none", "queued", "preflight", "finish", "done"}]
        BY <1>1, <2>1 DEF TypeOK, StartNext
      <3> QED
        BY <1>1, <1>2, <2>1, <3>1, <3>2, <3>3 DEF TypeOK, StartNext, layerVars
    <2>3. OwnerInv'
      BY <1>1, <1>2, <1>3, <1>5, <2>1, Bounds DEF TypeOK, OwnerInv, IsRunning, StartNext, Request
    <2>4. \A r \in Request : RunInv(r)'
      BY <1>1, <1>2, <1>3, <2>1, StartKeepsRuns
    <2> QED
      BY <2>2, <2>3, <2>4 DEF RendererInv
  <1> QED
    BY <1>4, <1>5

LEMMA CancelKeepsInv == RendererInv /\ Cancel => RendererInv'
  <1> SUFFICES ASSUME RendererInv, Cancel PROVE RendererInv'
    OBVIOUS
  <1>1. TypeOK /\ OwnerInv /\ \A r \in Request : RunInv(r)
    BY DEF RendererInv
  <1>2. /\ UNCHANGED <<nextRequest, running, lastCompleted, frame, slot, posted, use, promise,
                       output, job, layerVars>>
        /\ pending' = 0 /\ discardRunning' = TRUE
        /\ busy' = (IF IsRunning THEN busy ELSE FALSE)
        /\ canceled' = (IF IsRunning THEN [canceled EXCEPT ![running] = TRUE] ELSE canceled)
    BY DEF Cancel
  <1>3. TypeOK'
    <2>1. withdrawn' \subseteq Request
      BY <1>1, Bounds DEF Cancel, TypeOK, Request
    <2>2. pending' \in 0 .. use.requests /\ busy' \in BOOLEAN /\ canceled' \in [Request -> BOOLEAN]
      <3>1. use.requests \in Nat
        BY <1>1, Bounds
      <3>2. pending' \in 0 .. use.requests
        BY <1>2, <3>1
      <3>3. CASE IsRunning
        BY <1>1, <1>2, <3>2, <3>3 DEF TypeOK
      <3>4. CASE ~IsRunning
        BY <1>1, <1>2, <3>2, <3>4 DEF TypeOK
      <3> QED
        BY <3>3, <3>4
    <2>3. LayerIndex' = LayerIndex
      BY <1>2 DEF LayerIndex
    <2> QED
      BY <1>1, <1>2, <2>1, <2>2, <2>3 DEF TypeOK, layerVars
  <1>4. OwnerInv'
    BY <1>1, <1>2, Bounds DEF TypeOK, OwnerInv, IsRunning, Request
  <1>5. ASSUME NEW r \in Request PROVE RunInv(r)'
    <2>1. canceled[r] => canceled'[r]
      BY <1>1, <1>2 DEF TypeOK
    <2>2. Inside(r)' = Inside(r) /\ Ends(r)' = Ends(r) /\ LayerIndex' = LayerIndex
      BY <1>2 DEF layerVars, Inside, Ends, LayerIndex
    <2>3. WorkersInv(r)'
      BY <1>1, <1>2, <2>2 DEF RunInv, WorkersInv, layerVars
    <2>4. LayersInv(r)'
      BY <1>1, <1>2, <2>1, <2>2 DEF RunInv, LayersInv, layerVars
    <2>5. OutputInv(r)'
      BY <1>1, <1>2, <2>2 DEF RunInv, OutputInv, layerVars
    <2> QED
      BY <2>3, <2>4, <2>5 DEF RunInv
  <1> QED
    BY <1>3, <1>4, <1>5 DEF RendererInv

LEMMA FinishCurrentKeepsInv == RendererInv /\ FinishCurrent => RendererInv'
  <1> SUFFICES ASSUME RendererInv, FinishCurrent PROVE RendererInv'
    OBVIOUS
  <1>1. TypeOK /\ OwnerInv /\ \A r \in Request : RunInv(r)
    BY DEF RendererInv
  <1>2. posted /\ slot = 0 /\ UNCHANGED <<nextRequest, discardRunning, lastCompleted, frame, withdrawn, use>>
    BY DEF FinishCurrent
  <1>3. CASE pending # 0
    <2>1. StartNext(pending) /\ UNCHANGED <<busy, slot>>
      BY <1>3 DEF FinishCurrent
    <2>2. pending \in Request /\ promise[pending] = "none" /\ pending > running /\ busy
      BY <1>1, <1>3, Bounds DEF TypeOK, OwnerInv, Request
    <2>3. TypeOK'
      BY <1>1, <1>2, <2>1, <2>2, Bounds DEF TypeOK, StartNext, layerVars, LayerIndex
    <2>4. OwnerInv'
      BY <1>1, <1>2, <2>1, <2>2, Bounds DEF TypeOK, OwnerInv, IsRunning, StartNext, Request
    <2>5. \A r \in Request : RunInv(r)'
      BY <1>1, <1>2, <2>1, <2>2, StartKeepsRuns
    <2> QED
      BY <2>3, <2>4, <2>5 DEF RendererInv
  <1>4. CASE pending = 0
    <2>1. busy' = FALSE /\ slot' = running /\ posted' = FALSE /\ UNCHANGED <<pending, running, runVars>>
      BY <1>4 DEF FinishCurrent
    <2>2. TypeOK'
      BY <1>1, <1>2, <2>1, Bounds DEF TypeOK, runVars, layerVars, LayerIndex
    <2>3. OwnerInv'
      BY <1>1, <1>2, <1>4, <2>1, Bounds DEF TypeOK, OwnerInv, IsRunning, runVars, Request
    <2>4. \A r \in Request : RunInv(r)'
      BY <1>1, <1>2, <2>1, OtherRuns DEF runVars, layerVars, SameRun
    <2> QED
      BY <2>2, <2>3, <2>4 DEF RendererInv
  <1> QED
    BY <1>3, <1>4

LEMMA PublishKeepsInv == RendererInv /\ Publish => RendererInv'
  <1> SUFFICES ASSUME RendererInv, Publish PROVE RendererInv'
    OBVIOUS
  <1>1. TypeOK /\ OwnerInv /\ \A r \in Request : RunInv(r)
    BY DEF RendererInv
  <1>2. /\ slot # 0 /\ slot' = 0
        /\ UNCHANGED <<nextRequest, pending, running, busy, discardRunning, posted, withdrawn,
                       use, runVars>>
        /\ \/ UNCHANGED <<lastCompleted, frame>>
           \/ lastCompleted' = slot /\ frame' = slot
    BY DEF Publish
  <1>3. TypeOK'
    <2>1. slot' \in 0 .. use.requests /\ lastCompleted' \in 0 .. use.requests
            /\ frame' \in 0 .. use.requests
      BY <1>1, <1>2, Bounds DEF TypeOK
    <2>2. LayerIndex' = LayerIndex
      BY <1>2 DEF LayerIndex
    <2> QED
      BY <1>1, <1>2, <2>1, <2>2 DEF TypeOK, runVars, layerVars
  <1>4. OwnerInv'
    BY <1>1, <1>2, Bounds DEF TypeOK, OwnerInv, IsRunning, runVars, Request
  <1>5. \A r \in Request : RunInv(r)'
    BY <1>1, <1>2, OtherRuns DEF runVars, layerVars, SameRun
  <1> QED
    BY <1>3, <1>4, <1>5 DEF RendererInv

-----------------------------------------------------------------------------
(* The pool                                                                  *)

(* A pool step touches one run; what the owner knows changes only with the   *)
(* promise.                                                                  *)
LEMMA PoolStep ==
    ASSUME RendererInv, NEW r \in Request, UNCHANGED ownerVars, TypeOK', RunInv(r)',
           \A q \in Request : q # r => SameRun(q),
           UNCHANGED <<posted, promise>> \/ (promise[r] = "running" /\ FinishPromise(r))
    PROVE  RendererInv'
  <1>1. TypeOK /\ OwnerInv /\ \A q \in Request : RunInv(q)
    BY DEF RendererInv
  <1>2. \A q \in Request : RunInv(q)'
    BY <1>1, OtherRuns DEF ownerVars
  <1>3. OwnerInv'
    <2>1. CASE UNCHANGED <<posted, promise>>
      BY <1>1, <2>1 DEF OwnerInv, IsRunning, ownerVars
    <2>2. CASE promise[r] = "running" /\ FinishPromise(r)
      <3>1. r = running /\ IsRunning /\ running # 0
        BY <1>1, <2>2 DEF OwnerInv, IsRunning, Request
      <3>2. posted' = TRUE /\ promise' = [promise EXCEPT ![running] = "finished"]
        BY <2>2, <3>1 DEF FinishPromise
      <3>3. promise'[running] = "finished" /\ \A q \in Request : q # running => promise'[q] = promise[q]
        BY <1>1, <3>1, <3>2 DEF TypeOK
      <3>4. pending # 0 => pending \in Request /\ pending # running
        <4>1. pending \in 0 .. use.requests /\ running \in 0 .. use.requests
                /\ use.requests \in 0 .. MaxRequests /\ MaxRequests \in Nat
          BY <1>1, Bounds DEF TypeOK
        <4> QED
          BY <1>1, <4>1 DEF OwnerInv, Request
      <3>5. nextRequest \in Nat /\ running \in Request /\ running < nextRequest
        BY <1>1, <3>1, Bounds DEF OwnerInv, TypeOK, Request
      <3> QED
        BY <1>1, <3>1, <3>2, <3>3, <3>4, <3>5 DEF OwnerInv, IsRunning, ownerVars
    <2> QED
      BY <2>1, <2>2
  <1> QED
    BY <1>2, <1>3 DEF RendererInv

(* The preflight moves on, and may add an answer to the promise.             *)
LEMMA PreflightJobStep ==
    ASSUME RendererInv, NEW r \in Request,
           promise[r] = "running", output[r] # "frame", \A w \in Worker : worker[r][w] = "none",
           UNCHANGED <<ownerVars, posted, promise, canceled, layerVars>>,
           job'[r] \in {"preflight", "finish"},
           job' \in [Request -> {"none", "queued", "preflight", "finish", "done"}],
           output'[r] \in {output[r], "answer"},
           output' \in [Request -> {"none", "answer", "frame", "partial"}],
           \A q \in Request : q # r => job'[q] = job[q] /\ output'[q] = output[q]
    PROVE  RendererInv'
  <1>1. TypeOK /\ RunInv(r)
    BY DEF RendererInv
  <1>2. TypeOK'
    BY <1>1 DEF TypeOK, ownerVars, layerVars, LayerIndex
  <1>3. Inside(r)' = Inside(r) /\ Ends(r)' = Ends(r) /\ LayerIndex' = LayerIndex
    BY DEF Inside, Ends, LayerIndex, ownerVars, layerVars
  <1>4. WorkersInv(r)'
    BY <1>1, <1>3 DEF RunInv, WorkersInv, layerVars
  <1>5. LayersInv(r)'
    BY <1>1, <1>3 DEF RunInv, LayersInv, layerVars, ownerVars
  <1>6. OutputInv(r)'
    BY <1>1 DEF RunInv, OutputInv
  <1>7. \A q \in Request : q # r => SameRun(q)
    BY DEF SameRun, layerVars
  <1> QED
    BY <1>2, <1>4, <1>5, <1>6, <1>7, PoolStep DEF RunInv

LEMMA PreflightKeepsInv ==
    ASSUME RendererInv, NEW r \in Request, Preflight(r)
    PROVE  RendererInv'
  <1>1. TypeOK /\ RunInv(r)
    BY DEF RendererInv
  <1>2. job[r] \in {"queued", "preflight", "finish"}
    BY DEF Preflight, PreflightStarts, PreflightAnswers, PreflightFinishes, PreflightSpawns
  <1>3. /\ promise[r] = "running" /\ output[r] # "frame"
        /\ \A w \in Worker : worker[r][w] = "none"
    BY <1>1, <1>2 DEF TypeOK, RunInv, WorkersInv, OutputInv
  <1>4. Inside(r) = {} /\ Ends(r) = {}
    BY <1>3 DEF Inside, Ends, InLoop
  <1>5. CASE PreflightStarts(r)
    <2>1. /\ UNCHANGED <<ownerVars, posted, promise, canceled, output, layerVars>>
          /\ job'[r] \in {"preflight", "finish"} /\ job' \in [Request -> {"none", "queued", "preflight", "finish", "done"}]
          /\ \A q \in Request : q # r => job'[q] = job[q]
      BY <1>1, <1>5 DEF PreflightStarts, TypeOK
    <2> QED
      BY <1>1, <1>2, <1>3, <1>4, <2>1, PreflightJobStep DEF TypeOK
  <1>6. CASE PreflightAnswers(r)
    <2>1. /\ UNCHANGED <<ownerVars, posted, promise, canceled, layerVars>>
          /\ job'[r] = "finish" /\ job' \in [Request -> {"none", "queued", "preflight", "finish", "done"}]
          /\ \A q \in Request : q # r => job'[q] = job[q] /\ output'[q] = output[q]
          /\ output'[r] \in {output[r], "answer"}
          /\ output' \in [Request -> {"none", "answer", "frame", "partial"}]
      BY <1>1, <1>6 DEF PreflightAnswers, AddResult, TypeOK
    <2> QED
      BY <1>3, <2>1, PreflightJobStep
  <1>7. CASE PreflightFinishes(r)
    <2>1. /\ UNCHANGED <<ownerVars, canceled, output, layerVars>> /\ FinishPromise(r)
          /\ job'[r] = "done" /\ job' \in [Request -> {"none", "queued", "preflight", "finish", "done"}]
          /\ \A q \in Request : q # r => job'[q] = job[q] /\ promise'[q] = promise[q]
          /\ promise'[r] = "finished" /\ promise' \in [Request -> {"none", "running", "finished"}]
          /\ posted' \in BOOLEAN
      BY <1>1, <1>7 DEF PreflightFinishes, FinishPromise, TypeOK
    <2>2. TypeOK'
      BY <1>1, <2>1 DEF TypeOK, ownerVars, layerVars, LayerIndex
    <2>3. Inside(r)' = Inside(r) /\ Ends(r)' = Ends(r) /\ LayerIndex' = LayerIndex
      BY <2>1 DEF Inside, Ends, LayerIndex, ownerVars, layerVars
    <2>4. WorkersInv(r)'
      BY <1>1, <1>3, <2>1, <2>3 DEF RunInv, WorkersInv, layerVars
    <2>5. LayersInv(r)'
      BY <1>1, <2>1, <2>3 DEF RunInv, LayersInv, layerVars, ownerVars
    <2>6. OutputInv(r)'
      BY <1>1, <1>3, <2>1 DEF RunInv, OutputInv
    <2>7. \A q \in Request : q # r => SameRun(q)
      BY <2>1 DEF SameRun, layerVars
    <2> QED
      BY <1>3, <2>1, <2>2, <2>4, <2>5, <2>6, <2>7, PoolStep DEF RunInv
  <1>8. CASE PreflightSpawns(r)
    <2>1. /\ UNCHANGED <<ownerVars, posted, promise, canceled, output, claimed, nextLayer, rendered>>
          /\ job' = [job EXCEPT ![r] = "done"]
          /\ remainingWorkers' = [remainingWorkers EXCEPT ![r] = WorkerCount]
          /\ worker' = [worker EXCEPT ![r] = [w \in Worker |->
                            IF w <= WorkerCount THEN "queued" ELSE "none"]]
      BY <1>8 DEF PreflightSpawns
    <2>2. WorkerCount \in 0 .. Threads /\ Threads \in Nat
      BY <1>1, Bounds
    <2>3. /\ job'[r] = "done" /\ remainingWorkers'[r] = WorkerCount
          /\ \A w \in Worker : worker'[r][w] = IF w <= WorkerCount THEN "queued" ELSE "none"
          /\ \A q \in Request : q # r => job'[q] = job[q] /\ worker'[q] = worker[q]
                                        /\ remainingWorkers'[q] = remainingWorkers[q]
      BY <1>1, <2>1 DEF TypeOK
    <2>4. TypeOK'
      <3>1. [w \in Worker |-> IF w <= WorkerCount THEN "queued" ELSE "none"]
              \in [Worker -> {"none", "queued", "loop", "claim", "render", "leave", "compose",
                              "finish", "done"}]
        OBVIOUS
      <3>2. worker' \in [Request -> [Worker -> {"none", "queued", "loop", "claim", "render",
                                                "leave", "compose", "finish", "done"}]]
        BY <1>1, <2>1, <3>1 DEF TypeOK
      <3>3. remainingWorkers' \in [Request -> Nat]
              /\ job' \in [Request -> {"none", "queued", "preflight", "finish", "done"}]
        BY <1>1, <2>1, <2>2 DEF TypeOK
      <3> QED
        BY <1>1, <2>1, <3>2, <3>3 DEF TypeOK, ownerVars, LayerIndex
    <2>5. Inside(r)' = 1 .. WorkerCount /\ Ends(r)' = {}
      BY <2>2, <2>3 DEF Inside, Ends, InLoop, Worker
    <2>6. Cardinality(1 .. WorkerCount) = WorkerCount
      BY <2>2, FS_Interval
    <2>7. WorkersInv(r)'
      BY <1>3, <2>1, <2>3, <2>5, <2>6 DEF WorkersInv
    <2>8. LayersInv(r)'
      <3>1. LayerIndex' = LayerIndex /\ use' = use
        BY <2>1 DEF LayerIndex, ownerVars
      <3>2. \A w \in Worker : worker'[r][w] \in {"none", "queued"}
        BY <2>3
      <3> QED
        BY <1>1, <1>3, <2>1, <3>1, <3>2 DEF RunInv, LayersInv
    <2>9. OutputInv(r)'
      BY <1>1, <1>3, <2>1 DEF RunInv, OutputInv
    <2>10. \A q \in Request : q # r => SameRun(q)
      BY <2>1, <2>3 DEF SameRun
    <2> QED
      BY <2>1, <2>4, <2>7, <2>8, <2>9, <2>10, PoolStep DEF RunInv
  <1> QED
    BY <1>5, <1>6, <1>7, <1>8 DEF Preflight

-----------------------------------------------------------------------------
(* The layer workers                                                         *)

(* While a worker is in the loop the run is under way and nothing is composed. *)
LEMMA InLoopFacts ==
    ASSUME RendererInv, NEW r \in Request, NEW w \in Worker, worker[r][w] \in InLoop
    PROVE  /\ promise[r] = "running" /\ job[r] = "done" /\ output[r] # "frame"
           /\ w \in Inside(r) /\ Ends(r) = {}
           /\ Inside(r) \subseteq Worker /\ IsFiniteSet(Inside(r))
  <1>1. TypeOK /\ RunInv(r)
    BY DEF RendererInv
  <1>2. w \in Inside(r) /\ Inside(r) \subseteq Worker
    BY DEF Inside
  <1>3. worker[r][w] # "none" /\ worker[r][w] # "done"
    BY DEF InLoop
  <1>4. promise[r] = "running" /\ job[r] = "done" /\ output[r] # "frame" /\ Ends(r) = {}
    BY <1>1, <1>2, <1>3 DEF TypeOK, RunInv, WorkersInv, OutputInv
  <1>5. IsFiniteSet(Worker)
    BY <1>1, Bounds, FS_Interval DEF Worker
  <1> QED
    BY <1>2, <1>4, <1>5, FS_Subset

(* What a step of one worker leaves alone.                                   *)
LEMMA WorkerStep ==
    ASSUME RendererInv, NEW r \in Request, NEW w \in Worker,
           NEW step \in {"loop", "claim", "render", "leave", "compose", "finish", "done"},
           SetWorker(r, w, step)
    PROVE  /\ worker' \in [Request -> [Worker -> {"none", "queued", "loop", "claim", "render",
                                                "leave", "compose", "finish", "done"}]]
           /\ worker'[r][w] = step
           /\ \A v \in Worker : v # w => worker'[r][v] = worker[r][v]
           /\ \A q \in Request : q # r => worker'[q] = worker[q]
  <1>1. worker \in [Request -> [Worker -> {"none", "queued", "loop", "claim", "render",
                                          "leave", "compose", "finish", "done"}]]
    BY DEF RendererInv, TypeOK
  <1> QED
    BY <1>1 DEF SetWorker

(* A worker that stays in the loop leaves the count of the workers alone.    *)
LEMMA StaysInside ==
    ASSUME RendererInv, NEW r \in Request, NEW w \in Worker, worker[r][w] \in InLoop,
           worker'[r][w] \in InLoop \ {"queued"},
           \A v \in Worker : v # w => worker'[r][v] = worker[r][v],
           UNCHANGED <<promise, job, output, remainingWorkers>>
    PROVE  WorkersInv(r)' /\ OutputInv(r)'
  <1>1. RunInv(r)
    BY DEF RendererInv
  <1>2. Inside(r)' = Inside(r) /\ Ends(r)' = {}
    <2>1. Ends(r) = {}
      BY InLoopFacts
    <2>2. \A v \in Worker : (worker'[r][v] \in InLoop) = (worker[r][v] \in InLoop)
      OBVIOUS
    <2>3. \A v \in Worker : worker'[r][v] \notin {"compose", "finish"}
      BY <2>1 DEF Ends, InLoop
    <2> QED
      BY <2>2, <2>3 DEF Inside, Ends
  <1>3. promise[r] = "running" /\ job[r] = "done" /\ output[r] # "frame"
    BY InLoopFacts
  <1> QED
    BY <1>1, <1>2, <1>3 DEF RunInv, WorkersInv, OutputInv

LEMMA LoopStepsKeepInv ==
    ASSUME RendererInv, NEW r \in Request, NEW w \in Worker,
           WorkerStarts(r, w) \/ LoopTest(r, w)
    PROVE  RendererInv'
  <1>1. TypeOK /\ RunInv(r)
    BY DEF RendererInv
  <1>2. PICK step \in {"loop", "claim", "leave"} :
           SetWorker(r, w, step) /\ (step = "leave" => canceled[r])
    BY DEF WorkerStarts, LoopTest
  <1>3. /\ worker[r][w] \in {"queued", "loop"}
        /\ UNCHANGED <<ownerVars, posted, promise, canceled, output, job, claimed, nextLayer,
                       remainingWorkers, rendered>>
    BY DEF WorkerStarts, LoopTest
  <1>4. /\ worker' \in [Request -> [Worker -> {"none", "queued", "loop", "claim", "render",
                                                "leave", "compose", "finish", "done"}]]
        /\ worker'[r][w] = step
        /\ \A v \in Worker : v # w => worker'[r][v] = worker[r][v]
        /\ \A q \in Request : q # r => worker'[q] = worker[q]
    BY <1>2, WorkerStep
  <1>5. TypeOK'
    BY <1>1, <1>3, <1>4 DEF TypeOK, ownerVars, LayerIndex
  <1>6. WorkersInv(r)' /\ OutputInv(r)'
    BY <1>3, <1>4, StaysInside DEF InLoop
  <1>7. LayersInv(r)'
    <2>1. LayerIndex' = LayerIndex /\ use' = use
      BY <1>3 DEF LayerIndex, ownerVars
    <2>2. \A v \in Worker : (worker'[r][v] = "render") = (worker[r][v] = "render")
      BY <1>3, <1>4
    <2>3. \A v \in Worker : worker'[r][v] \in {"leave", "compose", "finish", "done"} /\ ~canceled[r] =>
             worker[r][v] \in {"leave", "compose", "finish", "done"}
      BY <1>2, <1>4
    <2> QED
      BY <1>1, <1>3, <2>1, <2>2, <2>3 DEF RunInv, LayersInv
  <1>8. \A q \in Request : q # r => SameRun(q)
    BY <1>3, <1>4 DEF SameRun
  <1> QED
    BY <1>3, <1>5, <1>6, <1>7, <1>8, PoolStep DEF RunInv

LEMMA ClaimKeepsInv ==
    ASSUME RendererInv, NEW r \in Request, NEW w \in Worker, ClaimLayer(r, w)
    PROVE  RendererInv'
  <1>1. TypeOK /\ RunInv(r) /\ use.layers \in Nat
    BY Bounds DEF RendererInv
  <1> DEFINE step == IF nextLayer[r] >= use.layers THEN "leave" ELSE "render"
  <1>2. /\ worker[r][w] = "claim" /\ SetWorker(r, w, step)
        /\ UNCHANGED <<ownerVars, posted, promise, canceled, output, job, remainingWorkers,
                       rendered>>
        /\ nextLayer' = [nextLayer EXCEPT ![r] = @ + 1]
        /\ claimed' = [claimed EXCEPT ![r][w] = nextLayer[r]]
    BY DEF ClaimLayer
  <1>3. /\ worker' \in [Request -> [Worker -> {"none", "queued", "loop", "claim", "render",
                                                "leave", "compose", "finish", "done"}]]
        /\ worker'[r][w] = step
        /\ \A v \in Worker : v # w => worker'[r][v] = worker[r][v]
        /\ \A q \in Request : q # r => worker'[q] = worker[q]
    BY <1>2, WorkerStep
  <1>4. /\ nextLayer[r] \in Nat /\ nextLayer'[r] = nextLayer[r] + 1
        /\ nextLayer' \in [Request -> Nat] /\ claimed' \in [Request -> [Worker -> Nat]]
        /\ claimed'[r][w] = nextLayer[r]
        /\ \A v \in Worker : v # w => claimed'[r][v] = claimed[r][v]
        /\ \A q \in Request : q # r => claimed'[q] = claimed[q] /\ nextLayer'[q] = nextLayer[q]
    BY <1>1, <1>2 DEF TypeOK
  <1>5. TypeOK'
    BY <1>1, <1>2, <1>3, <1>4 DEF TypeOK, ownerVars, LayerIndex
  <1>6. WorkersInv(r)' /\ OutputInv(r)'
    BY <1>2, <1>3, StaysInside DEF InLoop
  <1>7. LayersInv(r)'
    <2>1. LayerIndex' = LayerIndex /\ use' = use /\ LayerIndex = 0 .. use.layers - 1
      BY <1>2 DEF LayerIndex, ownerVars
    <2>2. \A v \in Worker : v # w /\ worker'[r][v] = "render" =>
             /\ worker[r][v] = "render" /\ claimed'[r][v] = claimed[r][v]
             /\ claimed[r][v] \in LayerIndex /\ claimed[r][v] < nextLayer[r]
             /\ rendered[r][claimed[r][v]] = 0
      BY <1>1, <1>3, <1>4 DEF RunInv, LayersInv
    <2>3. worker'[r][w] = "render" =>
             claimed'[r][w] = nextLayer[r] /\ nextLayer[r] \in LayerIndex
               /\ rendered[r][nextLayer[r]] = 0
      <3> SUFFICES ASSUME worker'[r][w] = "render"
                   PROVE  nextLayer[r] \in LayerIndex /\ rendered[r][nextLayer[r]] = 0
        BY <1>4
      <3>1. nextLayer[r] < use.layers
        BY <1>1, <1>3, <1>4
      <3>2. nextLayer[r] \in LayerIndex
        BY <1>1, <1>4, <2>1, <3>1
      <3> QED
        BY <1>1, <1>4, <3>2 DEF RunInv, LayersInv
    <2>4. \A v \in Worker : worker'[r][v] = "render" =>
             claimed'[r][v] \in LayerIndex /\ claimed'[r][v] < nextLayer'[r]
               /\ rendered'[r][claimed'[r][v]] = 0
      BY <1>2, <1>4, <2>1, <2>2, <2>3
    <2>5. \A u, v \in Worker : worker'[r][u] = "render" /\ worker'[r][v] = "render"
                              /\ claimed'[r][u] = claimed'[r][v] => u = v
      <3> SUFFICES ASSUME NEW u \in Worker, NEW v \in Worker, worker'[r][u] = "render",
                          worker'[r][v] = "render", claimed'[r][u] = claimed'[r][v]
                   PROVE  u = v
        OBVIOUS
      <3>1. CASE u # w /\ v # w
        BY <1>1, <2>2, <3>1 DEF RunInv, LayersInv
      <3>2. CASE u = w /\ v # w
        BY <1>4, <2>1, <2>2, <2>3, <3>2
      <3>3. CASE u # w /\ v = w
        BY <1>4, <2>1, <2>2, <2>3, <3>3
      <3> QED
        BY <3>1, <3>2, <3>3
    <2>6. \A l \in LayerIndex : l >= nextLayer'[r] => rendered'[r][l] = 0
      BY <1>1, <1>2, <1>4, <2>1 DEF RunInv, LayersInv
    <2>7. \A l \in LayerIndex : l < nextLayer'[r] =>
             rendered'[r][l] = 1 \/ \E v \in Worker : worker'[r][v] = "render" /\ claimed'[r][v] = l
      <3> SUFFICES ASSUME NEW l \in LayerIndex, l < nextLayer'[r], rendered'[r][l] # 1
                   PROVE  \E v \in Worker : worker'[r][v] = "render" /\ claimed'[r][v] = l
        OBVIOUS
      <3>1. CASE l < nextLayer[r]
        <4>1. PICK v \in Worker : worker[r][v] = "render" /\ claimed[r][v] = l
          BY <1>1, <1>2, <3>1 DEF RunInv, LayersInv
        <4>2. v # w
          BY <1>2, <4>1
        <4> QED
          BY <1>3, <1>4, <4>1, <4>2
      <3>2. CASE l = nextLayer[r]
        <4>1. worker'[r][w] = "render"
          BY <1>1, <1>3, <1>4, <2>1, <3>2
        <4> QED
          BY <1>4, <3>2, <4>1
      <3> QED
        BY <1>4, <2>1, <3>1, <3>2
    <2>8. \A v \in Worker : worker'[r][v] \in {"leave", "compose", "finish", "done"} /\ ~canceled'[r] =>
             nextLayer'[r] >= use'.layers
      <3> SUFFICES ASSUME NEW v \in Worker, worker'[r][v] \in {"leave", "compose", "finish", "done"},
                          ~canceled[r]
                   PROVE  nextLayer[r] >= use.layers
        BY <1>1, <1>2, <1>4, <2>1
      <3>1. CASE v = w
        BY <1>3, <3>1
      <3>2. CASE v # w
        BY <1>1, <1>3, <3>2 DEF RunInv, LayersInv
      <3> QED
        BY <3>1, <3>2
    <2> QED
      BY <2>1, <2>4, <2>5, <2>6, <2>7, <2>8 DEF LayersInv
  <1>8. \A q \in Request : q # r => SameRun(q)
    BY <1>2, <1>3, <1>4 DEF SameRun
  <1> QED
    BY <1>2, <1>5, <1>6, <1>7, <1>8, PoolStep DEF RunInv

LEMMA RenderKeepsInv ==
    ASSUME RendererInv, NEW r \in Request, NEW w \in Worker, RenderLayer(r, w)
    PROVE  RendererInv'
  <1>1. TypeOK /\ RunInv(r)
    BY DEF RendererInv
  <1> DEFINE c == claimed[r][w]
  <1>2. /\ worker[r][w] = "render" /\ SetWorker(r, w, "loop")
        /\ UNCHANGED <<ownerVars, posted, promise, canceled, output, job, claimed, nextLayer,
                       remainingWorkers>>
        /\ rendered' = [rendered EXCEPT ![r][c] = @ + 1]
    BY DEF RenderLayer
  <1>3. /\ worker' \in [Request -> [Worker -> {"none", "queued", "loop", "claim", "render",
                                                "leave", "compose", "finish", "done"}]]
        /\ worker'[r][w] = "loop"
        /\ \A v \in Worker : v # w => worker'[r][v] = worker[r][v]
        /\ \A q \in Request : q # r => worker'[q] = worker[q]
    BY <1>2, WorkerStep
  <1>4. c \in LayerIndex /\ c < nextLayer[r] /\ rendered[r][c] = 0
    BY <1>1, <1>2 DEF RunInv, LayersInv
  <1>5. /\ rendered' \in [Request -> [LayerIndex -> Nat]] /\ rendered'[r][c] = 1
        /\ \A l \in LayerIndex : l # c => rendered'[r][l] = rendered[r][l]
        /\ \A q \in Request : q # r => rendered'[q] = rendered[q]
    BY <1>1, <1>2, <1>4 DEF TypeOK
  <1>6. LayerIndex' = LayerIndex /\ use' = use
    BY <1>2 DEF LayerIndex, ownerVars
  <1>7. TypeOK'
    BY <1>1, <1>2, <1>3, <1>5, <1>6 DEF TypeOK, ownerVars
  <1>8. WorkersInv(r)' /\ OutputInv(r)'
    BY <1>2, <1>3, StaysInside DEF InLoop
  <1>9. LayersInv(r)'
    <2>1. \A v \in Worker : worker'[r][v] = "render" => v # w /\ worker[r][v] = "render"
      BY <1>3
    <2>2. \A v \in Worker : worker'[r][v] = "render" =>
             /\ claimed[r][v] \in LayerIndex /\ claimed[r][v] < nextLayer[r]
             /\ rendered[r][claimed[r][v]] = 0 /\ claimed[r][v] # c
      BY <1>1, <1>2, <2>1 DEF RunInv, LayersInv
    <2>3. \A v \in Worker : worker'[r][v] = "render" => rendered'[r][claimed[r][v]] = 0
      BY <1>5, <2>2
    <2>4. \A u, v \in Worker : worker'[r][u] = "render" /\ worker'[r][v] = "render"
                              /\ claimed[r][u] = claimed[r][v] => u = v
      BY <1>1, <2>1 DEF RunInv, LayersInv
    <2>5. nextLayer[r] \in Nat /\ use.layers \in Nat
      BY <1>1, Bounds DEF TypeOK
    <2>6. \A l \in LayerIndex : l >= nextLayer[r] => rendered'[r][l] = 0
      <3> SUFFICES ASSUME NEW l \in LayerIndex, l >= nextLayer[r] PROVE rendered'[r][l] = 0
        OBVIOUS
      <3>1. l # c
        BY <1>4, <2>5 DEF LayerIndex
      <3> QED
        BY <1>1, <1>5, <3>1 DEF RunInv, LayersInv
    <2>7. \A l \in LayerIndex : l < nextLayer[r] =>
             rendered'[r][l] = 1 \/ \E v \in Worker : worker'[r][v] = "render" /\ claimed[r][v] = l
      <3> SUFFICES ASSUME NEW l \in LayerIndex, l < nextLayer[r], rendered'[r][l] # 1
                   PROVE  \E v \in Worker : worker'[r][v] = "render" /\ claimed[r][v] = l
        OBVIOUS
      <3>1. l # c /\ rendered[r][l] # 1
        BY <1>5
      <3>2. PICK v \in Worker : worker[r][v] = "render" /\ claimed[r][v] = l
        BY <1>1, <3>1 DEF RunInv, LayersInv
      <3> QED
        BY <1>3, <3>1, <3>2
    <2>8. \A v \in Worker : worker'[r][v] \in {"leave", "compose", "finish", "done"} /\ ~canceled[r] =>
             nextLayer[r] >= use.layers
      BY <1>1, <1>3 DEF RunInv, LayersInv
    <2> QED
      BY <1>2, <1>6, <2>2, <2>3, <2>4, <2>6, <2>7, <2>8 DEF LayersInv
  <1>10. \A q \in Request : q # r => SameRun(q)
    BY <1>2, <1>3, <1>5 DEF SameRun
  <1> QED
    BY <1>2, <1>7, <1>8, <1>9, <1>10, PoolStep DEF RunInv

(* The last worker to leave is alone, and it alone composes.                 *)
LEMMA LeaveKeepsInv ==
    ASSUME RendererInv, NEW r \in Request, NEW w \in Worker, Leave(r, w)
    PROVE  RendererInv'
  <1>1. TypeOK /\ RunInv(r)
    BY DEF RendererInv
  <1> DEFINE step == IF remainingWorkers[r] = 1 THEN "compose" ELSE "done"
  <1>2. /\ worker[r][w] = "leave" /\ SetWorker(r, w, step)
        /\ UNCHANGED <<ownerVars, posted, promise, canceled, output, job, claimed, nextLayer,
                       rendered>>
        /\ remainingWorkers' = [remainingWorkers EXCEPT ![r] = @ - 1]
    BY DEF Leave
  <1>3. /\ worker' \in [Request -> [Worker -> {"none", "queued", "loop", "claim", "render",
                                                "leave", "compose", "finish", "done"}]]
        /\ worker'[r][w] = step
        /\ \A v \in Worker : v # w => worker'[r][v] = worker[r][v]
        /\ \A q \in Request : q # r => worker'[q] = worker[q]
    BY <1>2, WorkerStep
  <1>4. /\ promise[r] = "running" /\ job[r] = "done" /\ output[r] # "frame" /\ w \in Inside(r)
        /\ Ends(r) = {} /\ IsFiniteSet(Inside(r))
    BY <1>2, InLoopFacts DEF InLoop
  <1>5. Inside(r)' = Inside(r) \ {w}
    BY <1>3 DEF Inside, InLoop
  <1>6. /\ Cardinality(Inside(r)') = Cardinality(Inside(r)) - 1
        /\ Cardinality(Inside(r)) \in Nat /\ IsFiniteSet(Inside(r)')
        /\ Cardinality(Inside(r)') \in Nat
    BY <1>4, <1>5, FS_RemoveElement, FS_CardinalityType
  <1>7. /\ remainingWorkers'[r] = Cardinality(Inside(r)')
        /\ remainingWorkers' \in [Request -> Nat]
        /\ remainingWorkers[r] = 1 => Inside(r)' = {}
        /\ \A q \in Request : q # r => remainingWorkers'[q] = remainingWorkers[q]
    <2>1. remainingWorkers[r] = Cardinality(Inside(r))
      BY <1>1 DEF RunInv, WorkersInv
    <2>2. remainingWorkers[r] = 1 => Inside(r)' = {}
      BY <1>6, <2>1, FS_EmptySet
    <2> QED
      BY <1>1, <1>2, <1>6, <2>1, <2>2 DEF TypeOK
  <1>8. TypeOK'
    BY <1>1, <1>2, <1>3, <1>7 DEF TypeOK, ownerVars, LayerIndex
  <1>9. WorkersInv(r)'
    <2>1. Ends(r)' = IF remainingWorkers[r] = 1 THEN {w} ELSE {}
      BY <1>3, <1>4 DEF Ends
    <2> QED
      BY <1>2, <1>4, <1>7, <2>1 DEF WorkersInv
  <1>10. OutputInv(r)'
    BY <1>1, <1>2, <1>4 DEF RunInv, OutputInv
  <1>11. LayersInv(r)'
    <2>1. LayerIndex' = LayerIndex /\ use' = use
      BY <1>2 DEF LayerIndex, ownerVars
    <2>2. \A v \in Worker : (worker'[r][v] = "render") = (worker[r][v] = "render")
      BY <1>2, <1>3
    <2>3. \A v \in Worker : worker'[r][v] \in {"leave", "compose", "finish", "done"} =>
             worker[r][v] \in {"leave", "compose", "finish", "done"}
      BY <1>2, <1>3
    <2> QED
      BY <1>1, <1>2, <2>1, <2>2, <2>3 DEF RunInv, LayersInv
  <1>12. \A q \in Request : q # r => SameRun(q)
    BY <1>2, <1>3, <1>7 DEF SameRun
  <1> QED
    BY <1>2, <1>8, <1>9, <1>10, <1>11, <1>12, PoolStep DEF RunInv

(* What is known of a run whose frame is being composed or delivered.        *)
LEMMA EndFacts ==
    ASSUME RendererInv, NEW r \in Request, NEW w \in Worker, worker[r][w] \in {"compose", "finish"}
    PROVE  /\ promise[r] = "running" /\ job[r] = "done"
           /\ w \in Ends(r) /\ Inside(r) = {}
           /\ \A v \in Worker : v # w => worker[r][v] \in {"none", "done"}
  <1>1. TypeOK /\ RunInv(r)
    BY DEF RendererInv
  <1>2. w \in Ends(r)
    BY DEF Ends
  <1>3. promise[r] = "running" /\ job[r] = "done" /\ Inside(r) = {}
    BY <1>1, <1>2 DEF TypeOK, RunInv, WorkersInv
  <1>4. ASSUME NEW v \in Worker, v # w PROVE worker[r][v] \in {"none", "done"}
    <2>1. v \notin Ends(r) /\ v \notin Inside(r)
      BY <1>1, <1>2, <1>3, <1>4 DEF RunInv, WorkersInv
    <2>2. worker[r][v] \in {"none", "queued", "loop", "claim", "render", "leave", "compose",
                            "finish", "done"}
      BY <1>1 DEF TypeOK
    <2> QED
      BY <2>1, <2>2 DEF Inside, Ends, InLoop
  <1> QED
    BY <1>2, <1>3, <1>4

LEMMA ComposeKeepsInv ==
    ASSUME RendererInv, NEW r \in Request, NEW w \in Worker, Compose(r, w)
    PROVE  RendererInv'
  <1>1. TypeOK /\ RunInv(r)
    BY DEF RendererInv
  <1>2. /\ worker[r][w] = "compose" /\ SetWorker(r, w, "finish")
        /\ UNCHANGED <<ownerVars, posted, promise, canceled, job, claimed, nextLayer,
                       remainingWorkers, rendered>>
        /\ AddResult(r, IF \A l \in LayerIndex : rendered[r][l] > 0 THEN "frame" ELSE "partial")
    BY DEF Compose
  <1>3. /\ worker' \in [Request -> [Worker -> {"none", "queued", "loop", "claim", "render",
                                                "leave", "compose", "finish", "done"}]]
        /\ worker'[r][w] = "finish"
        /\ \A v \in Worker : v # w => worker'[r][v] = worker[r][v]
        /\ \A q \in Request : q # r => worker'[q] = worker[q]
    BY <1>2, WorkerStep
  <1>4. /\ promise[r] = "running" /\ job[r] = "done"
        /\ w \in Ends(r) /\ Inside(r) = {}
        /\ \A v \in Worker : v # w => worker[r][v] \in {"none", "done"}
    BY <1>2, EndFacts
  <1>5. ~canceled[r] => \A l \in LayerIndex : rendered[r][l] = 1
    <2> SUFFICES ASSUME ~canceled[r], NEW l \in LayerIndex PROVE rendered[r][l] = 1
      OBVIOUS
    <2>1. nextLayer[r] >= use.layers
      BY <1>1, <1>2 DEF RunInv, LayersInv
    <2>2. l < nextLayer[r]
      <3>1. nextLayer[r] \in Nat /\ use.layers \in Nat
        BY <1>1, Bounds DEF TypeOK
      <3> QED
        BY <2>1, <3>1 DEF LayerIndex
    <2>3. \A v \in Worker : worker[r][v] # "render"
      BY <1>2, <1>4
    <2> QED
      BY <1>1, <2>2, <2>3 DEF RunInv, LayersInv
  <1>6. /\ output'[r] = IF canceled[r] THEN output[r] ELSE "frame"
        /\ output' \in [Request -> {"none", "answer", "frame", "partial"}]
        /\ \A q \in Request : q # r => output'[q] = output[q]
    <2>1. CASE canceled[r]
      BY <1>1, <1>2, <2>1 DEF TypeOK, AddResult
    <2>2. CASE ~canceled[r]
      <3>1. \A l \in LayerIndex : rendered[r][l] > 0
        BY <1>5, <2>2
      <3>2. output' = [output EXCEPT ![r] = "frame"]
        BY <1>2, <2>2, <3>1 DEF AddResult
      <3> QED
        BY <1>1, <2>2, <3>2 DEF TypeOK
    <2> QED
      BY <2>1, <2>2
  <1>7. TypeOK'
    BY <1>1, <1>2, <1>3, <1>6 DEF TypeOK, ownerVars, LayerIndex
  <1>8. Inside(r)' = Inside(r) /\ Ends(r)' = Ends(r)
    BY <1>2, <1>3 DEF Inside, Ends, InLoop
  <1>9. WorkersInv(r)'
    BY <1>1, <1>2, <1>4, <1>8 DEF RunInv, WorkersInv
  <1>10. LayersInv(r)'
    <2>1. LayerIndex' = LayerIndex /\ use' = use
      BY <1>2 DEF LayerIndex, ownerVars
    <2>2. \A v \in Worker : worker'[r][v] # "render" /\ worker[r][v] # "render"
      BY <1>2, <1>3, <1>4
    <2>3. \A v \in Worker : worker'[r][v] \in {"leave", "compose", "finish", "done"} =>
             worker[r][v] \in {"leave", "compose", "finish", "done"}
      BY <1>2, <1>3
    <2> QED
      BY <1>1, <1>2, <2>1, <2>2, <2>3 DEF RunInv, LayersInv
  <1>11. OutputInv(r)'
    <2>1. LayerIndex' = LayerIndex
      BY <1>2 DEF LayerIndex, ownerVars
    <2> QED
      BY <1>1, <1>2, <1>4, <1>5, <1>6, <1>8, <2>1 DEF RunInv, OutputInv
  <1>12. \A q \in Request : q # r => SameRun(q)
    BY <1>2, <1>3, <1>6 DEF SameRun
  <1> QED
    BY <1>2, <1>7, <1>9, <1>10, <1>11, <1>12, PoolStep DEF RunInv

LEMMA WorkerFinishesKeepsInv ==
    ASSUME RendererInv, NEW r \in Request, NEW w \in Worker, WorkerFinishes(r, w)
    PROVE  RendererInv'
  <1>1. TypeOK /\ RunInv(r)
    BY DEF RendererInv
  <1>2. /\ worker[r][w] = "finish" /\ SetWorker(r, w, "done") /\ FinishPromise(r)
        /\ UNCHANGED <<ownerVars, canceled, output, job, claimed, nextLayer, remainingWorkers,
                       rendered>>
    BY DEF WorkerFinishes
  <1>3. /\ worker' \in [Request -> [Worker -> {"none", "queued", "loop", "claim", "render",
                                                "leave", "compose", "finish", "done"}]]
        /\ worker'[r][w] = "done"
        /\ \A v \in Worker : v # w => worker'[r][v] = worker[r][v]
        /\ \A q \in Request : q # r => worker'[q] = worker[q]
    BY <1>2, WorkerStep
  <1>4. /\ promise[r] = "running" /\ job[r] = "done" /\ Inside(r) = {}
        /\ \A v \in Worker : v # w => worker[r][v] \in {"none", "done"}
    BY <1>2, EndFacts
  <1>5. /\ promise'[r] = "finished" /\ promise' \in [Request -> {"none", "running", "finished"}]
        /\ posted' \in BOOLEAN
        /\ \A q \in Request : q # r => promise'[q] = promise[q]
    BY <1>1, <1>2 DEF FinishPromise, TypeOK
  <1>6. TypeOK'
    BY <1>1, <1>2, <1>3, <1>5 DEF TypeOK, ownerVars, LayerIndex
  <1>7. \A v \in Worker : worker'[r][v] \in {"none", "done"}
    BY <1>3, <1>4
  <1>8. Inside(r)' = Inside(r) /\ Ends(r)' = {}
    BY <1>4, <1>7 DEF Inside, Ends, InLoop
  <1>9. WorkersInv(r)'
    BY <1>1, <1>2, <1>4, <1>5, <1>7, <1>8 DEF RunInv, WorkersInv
  <1>10. LayersInv(r)'
    <2>1. LayerIndex' = LayerIndex /\ use' = use
      BY <1>2 DEF LayerIndex, ownerVars
    <2>2. \A v \in Worker : worker'[r][v] # "render" /\ worker[r][v] # "render"
      BY <1>2, <1>4, <1>7
    <2>3. \A v \in Worker : worker'[r][v] \in {"leave", "compose", "finish", "done"} =>
             worker[r][v] \in {"leave", "compose", "finish", "done"}
      BY <1>2, <1>3
    <2> QED
      BY <1>1, <1>2, <2>1, <2>2, <2>3 DEF RunInv, LayersInv
  <1>11. OutputInv(r)'
    <2>1. LayerIndex' = LayerIndex
      BY <1>2 DEF LayerIndex, ownerVars
    <2> QED
      BY <1>1, <1>2, <1>8, <2>1 DEF RunInv, OutputInv
  <1>12. \A q \in Request : q # r => SameRun(q)
    BY <1>2, <1>3, <1>5 DEF SameRun
  <1> QED
    BY <1>2, <1>4, <1>6, <1>9, <1>10, <1>11, <1>12, PoolStep DEF RunInv

-----------------------------------------------------------------------------
(* The specification                                                         *)

LEMMA NextKeepsInv == RendererInv /\ [Next]_vars => RendererInv'
  <1> SUFFICES ASSUME RendererInv, [Next]_vars PROVE RendererInv'
    OBVIOUS
  <1>1. ASSUME NEW r \in Request, NEW w \in Worker, RenderStep(r, w) PROVE RendererInv'
    BY <1>1, LoopStepsKeepInv, ClaimKeepsInv, RenderKeepsInv, LeaveKeepsInv, ComposeKeepsInv,
       WorkerFinishesKeepsInv DEF RenderStep
  <1>2. CASE UNCHANGED vars
    <2>1. TypeOK /\ OwnerInv /\ \A r \in Request : RunInv(r)
      BY DEF RendererInv
    <2>2. TypeOK'
      BY <1>2, <2>1 DEF TypeOK, vars, ownerVars, runVars, layerVars, LayerIndex
    <2>3. OwnerInv'
      BY <1>2, <2>1 DEF OwnerInv, IsRunning, vars, ownerVars, runVars
    <2>4. \A r \in Request : RunInv(r)'
      BY <1>2, <2>1, OtherRuns DEF vars, ownerVars, runVars, layerVars, SameRun
    <2> QED
      BY <2>2, <2>3, <2>4 DEF RendererInv
  <1> QED
    BY <1>1, <1>2, RequestKeepsInv, CancelKeepsInv, FinishCurrentKeepsInv, PublishKeepsInv,
       PreflightKeepsInv DEF Next

(* The inductive invariant holds in every reachable state.                   *)
LEMMA RendererInvariant == Spec => []RendererInv
  BY InitHolds, NextKeepsInv, PTL DEF Spec

(* Every variable of the renderer keeps its type (AsyncFrameRenderer.cpp).   *)
THEOREM TypeCorrect == Spec => []TypeOK
  <1>1. RendererInv => TypeOK
    BY DEF RendererInv
  <1> QED
    BY <1>1, RendererInvariant, PTL

(* However many requests are made and whatever the pool does, the pool never *)
(* works for two runs at once: request() starts one only when the watcher's  *)
(* future has ended.                                                         *)
THEOREM NoRunsOverlap == Spec => []OneRunAtATime
  <1>1. RendererInv => OneRunAtATime
    <2> SUFFICES ASSUME RendererInv, NEW r \in Request, NEW q \in Request, r # q,
                        promise[r] = "running"
                 PROVE  promise[q] # "running" /\ \A w \in Worker : worker[q][w] \in {"none", "done"}
      BY DEF OneRunAtATime
    <2>1. TypeOK /\ OwnerInv /\ RunInv(q)
      BY DEF RendererInv
    <2>2. promise[q] # "running"
      BY <2>1 DEF OwnerInv
    <2>3. promise[q] \in {"none", "finished"}
      BY <2>1, <2>2 DEF TypeOK
    <2> QED
      BY <2>1, <2>2, <2>3 DEF RunInv, WorkersInv
  <1> QED
    BY <1>1, RendererInvariant, PTL

(* For any number of layers and threads, a frame is composed only when each  *)
(* layer has been rendered exactly once.                                     *)
THEOREM FramesComplete == Spec => []FramesAreComplete
  <1>1. RendererInv => FramesAreComplete
    BY DEF RendererInv, RunInv, OutputInv, FramesAreComplete
  <1> QED
    BY <1>1, RendererInvariant, PTL

(* busy() is true exactly while something runs, waits or is to be delivered. *)
THEOREM BusyIsTrue == Spec => []BusyMatchesWork
  <1>1. RendererInv => BusyMatchesWork
    BY DEF RendererInv, OwnerInv, BusyMatchesWork
  <1> QED
    BY <1>1, RendererInvariant, PTL

(* Results are published in the order of their requests, each under its id,  *)
(* even when a busyChanged slot makes new requests before publication.       *)
THEOREM ResultsInOrder == Spec => PublishedInOrder
  <1>1. RendererInv /\ [Next]_vars =>
          [lastCompleted' # lastCompleted =>
             lastCompleted' > lastCompleted /\ frame' = lastCompleted']_vars
    <2> SUFFICES ASSUME RendererInv, [Next]_vars, lastCompleted' # lastCompleted
                 PROVE  lastCompleted' > lastCompleted /\ frame' = lastCompleted'
      BY DEF vars
    <2>1. Publish
      <3>1. ASSUME NEW r \in Request, Preflight(r) PROVE FALSE
        BY <3>1 DEF Preflight, PreflightStarts, PreflightAnswers, PreflightFinishes,
           PreflightSpawns, ownerVars
      <3>2. ASSUME NEW r \in Request, NEW w \in Worker, RenderStep(r, w) PROVE FALSE
        BY <3>2 DEF RenderStep, WorkerStarts, LoopTest, ClaimLayer, RenderLayer, Leave, Compose,
           WorkerFinishes, ownerVars
      <3> QED
        BY <3>1, <3>2 DEF Next, vars, ownerVars, RequestFrame, Cancel, FinishCurrent
    <2>2. slot # 0 /\ lastCompleted < slot
      BY <2>1 DEF Publish, RendererInv, OwnerInv
    <2> QED
      BY <2>1, <2>2 DEF Publish
  <1> QED
    BY <1>1, RendererInvariant, PTL DEF Spec, PublishedInOrder

-----------------------------------------------------------------------------
(* The refinement                                                            *)

(* Unless everything was canceled, what is waiting or running is the newest  *)
(* request; while finishCurrent publishes, slots that do not call back leave *)
(* nothing else to wait or run.                                              *)
ServiceInv ==
    /\ frame = lastCompleted
    /\ ~discardRunning => nextRequest - 1 = IF pending # 0 THEN pending ELSE running
    /\ slot # 0 /\ ~use.reentrant => slot = running /\ pending = 0

Mapped == [Service!Next]_(Service!vars)

(* What the application sees of the service.                                 *)
Asked == IF use.reentrant THEN 0 ELSE nextRequest - 1
Wanted == IF use.reentrant \/ discardRunning \/ lastCompleted = nextRequest - 1
          THEN 0 ELSE nextRequest - 1
Shown == IF use.reentrant THEN 0 ELSE frame

LEMMA Views ==
    /\ Asked' = Asked + 1 /\ Wanted' = Asked' /\ Shown' = Shown => Mapped
    /\ Wanted # 0 /\ Shown' = Wanted /\ Wanted' = 0 /\ Asked' = Asked => Mapped
    /\ Asked' = Asked /\ Wanted' = Wanted /\ Shown' = Shown => Mapped
  <1>1. Asked' = Asked + 1 /\ Wanted' = Asked' /\ Shown' = Shown => Service!Ask
    BY DEF Asked, Wanted, Shown, Service!Ask
  <1>2. Wanted # 0 /\ Shown' = Wanted /\ Wanted' = 0 /\ Asked' = Asked => Service!Deliver
    BY DEF Asked, Wanted, Shown, Service!Deliver
  <1>3. Asked' = Asked /\ Wanted' = Wanted /\ Shown' = Shown => UNCHANGED Service!vars
    BY DEF Asked, Wanted, Shown, Service!vars
  <1> QED
    BY <1>1, <1>2, <1>3 DEF Mapped, Service!Next

LEMMA PoolIsInvisible ==
    ASSUME RendererInv, ServiceInv, UNCHANGED ownerVars
    PROVE  ServiceInv' /\ Mapped
  BY DEF ServiceInv, ownerVars, Mapped, Service!vars

LEMMA ServiceStep == RendererInv /\ ServiceInv /\ [Next]_vars => ServiceInv' /\ Mapped
  <1> SUFFICES ASSUME RendererInv, ServiceInv, [Next]_vars PROVE ServiceInv' /\ Mapped
    OBVIOUS
  <1>1. TypeOK /\ OwnerInv
    BY DEF RendererInv
  <1>2. /\ nextRequest \in Nat \ {0} /\ pending \in Nat /\ running \in Nat /\ slot \in Nat
        /\ lastCompleted \in Nat /\ use.requests \in Nat
        /\ discardRunning \in BOOLEAN /\ use.reentrant \in BOOLEAN
    BY <1>1, Bounds, ConstantsAssumption DEF TypeOK
  <1>3. lastCompleted <= running /\ running < nextRequest /\ (slot # 0 => lastCompleted < slot)
    BY <1>1 DEF OwnerInv
  <1>4. CASE RequestFrame
    <2>1. /\ nextRequest' = nextRequest + 1 /\ discardRunning' = FALSE
          /\ UNCHANGED <<lastCompleted, frame, slot, use>> /\ (slot = 0 \/ use.reentrant)
          /\ \/ pending' = nextRequest /\ running' = running
             \/ pending' = 0 /\ running' = nextRequest
      BY <1>4 DEF RequestFrame, StartNext, OwnerCalls
    <2>2. ServiceInv'
      BY <1>2, <2>1 DEF ServiceInv
    <2>3. CASE use.reentrant
      <3>1. Asked' = Asked /\ Wanted' = Wanted /\ Shown' = Shown
        BY <2>1, <2>3 DEF Asked, Wanted, Shown
      <3> QED
        BY <2>2, <3>1, Views
    <2>4. CASE ~use.reentrant
      <3>1. lastCompleted' # nextRequest' - 1 /\ ~use'.reentrant /\ ~discardRunning'
        BY <1>2, <1>3, <2>1, <2>4
      <3>2. Asked = nextRequest - 1 /\ Asked' = nextRequest' - 1 /\ Wanted' = nextRequest' - 1
              /\ Shown = frame /\ Shown' = frame'
        BY <2>4, <3>1 DEF Asked, Wanted, Shown
      <3>3. Asked' = Asked + 1 /\ Wanted' = Asked' /\ Shown' = Shown
        BY <1>2, <2>1, <3>2
      <3> QED
        BY <2>2, <3>3, Views
    <2> QED
      BY <2>2, <2>3, <2>4
  <1>5. CASE Cancel
    <2>1. /\ UNCHANGED <<nextRequest, running, lastCompleted, frame, slot, use>>
          /\ pending' = 0 /\ discardRunning' = TRUE
      BY <1>5 DEF Cancel
    <2>2. ServiceInv'
      BY <2>1 DEF ServiceInv
    <2>3. Mapped
      BY <2>1 DEF Mapped, Service!Next, Service!Withdraw
    <2> QED
      BY <2>2, <2>3
  <1>6. CASE FinishCurrent
    <2>1. /\ UNCHANGED <<nextRequest, discardRunning, lastCompleted, frame, use>> /\ slot = 0
          /\ \/ pending # 0 /\ running' = pending /\ pending' = 0 /\ slot' = slot
             \/ pending = 0 /\ UNCHANGED <<pending, running>> /\ slot' = running
      BY <1>6 DEF FinishCurrent, StartNext
    <2>2. ServiceInv'
      BY <1>2, <2>1 DEF ServiceInv
    <2>3. Mapped
      BY <2>1 DEF Mapped, Service!vars
    <2> QED
      BY <2>2, <2>3
  <1>7. CASE Publish
    <2>1. /\ slot # 0 /\ slot' = 0
          /\ UNCHANGED <<nextRequest, pending, running, discardRunning, use>>
      BY <1>7 DEF Publish
    <2>2. CASE UNCHANGED <<lastCompleted, frame>>
      BY <1>2, <2>1, <2>2 DEF ServiceInv, Mapped, Service!vars
    <2>3. CASE ~discardRunning /\ lastCompleted' = slot /\ frame' = slot
      <3>1. ServiceInv'
        BY <1>2, <2>1, <2>3 DEF ServiceInv
      <3>2. CASE use.reentrant
        <4>1. Asked' = Asked /\ Wanted' = Wanted /\ Shown' = Shown
          BY <2>1, <3>2 DEF Asked, Wanted, Shown
        <4> QED
          BY <3>1, <4>1, Views
      <3>3. CASE ~use.reentrant
        <4>1. slot = nextRequest - 1 /\ lastCompleted # nextRequest - 1
          BY <1>2, <1>3, <2>1, <2>3, <3>3 DEF ServiceInv
        <4>2. lastCompleted' = nextRequest' - 1 /\ ~use'.reentrant
          BY <2>1, <2>3, <3>3, <4>1
        <4>3. Wanted = nextRequest - 1 /\ Wanted' = 0 /\ Shown' = frame' /\ Asked' = Asked
          BY <2>1, <2>3, <3>3, <4>1, <4>2 DEF Asked, Wanted, Shown
        <4>4. Wanted # 0 /\ Shown' = Wanted
          BY <2>1, <2>3, <4>1, <4>3
        <4> QED
          BY <3>1, <4>3, <4>4, Views
      <3> QED
        BY <3>1, <3>2, <3>3
    <2> QED
      BY <1>7, <2>2, <2>3 DEF Publish
  <1>8. CASE \E r \in Request : Preflight(r) \/ \E w \in Worker : RenderStep(r, w)
    <2>1. UNCHANGED ownerVars
      BY <1>8 DEF Preflight, PreflightStarts, PreflightAnswers, PreflightFinishes,
         PreflightSpawns, RenderStep, WorkerStarts, LoopTest, ClaimLayer, RenderLayer, Leave,
         Compose, WorkerFinishes
    <2> QED
      BY <2>1, PoolIsInvisible
  <1>9. CASE UNCHANGED vars
    BY <1>9, PoolIsInvisible DEF vars
  <1> QED
    BY <1>4, <1>5, <1>6, <1>7, <1>8, <1>9 DEF Next

(* Seen by an application whose busyChanged slots do not call back, the      *)
(* renderer is a FrameService: only the newest request is ever delivered,    *)
(* once at most, and not after cancel().                                     *)
THEOREM RendererIsFrameService == Spec => ImplementsFrameService
  <1>1. Init => ServiceInv /\ Service!Init
    BY DEF Init, ServiceInv, Service!Init
  <1>2. RendererInv /\ ServiceInv /\ [Next]_vars => ServiceInv' /\ [Service!Next]_(Service!vars)
    BY ServiceStep DEF Mapped
  <1> QED
    BY <1>1, <1>2, RendererInvariant, PTL DEF Spec, ImplementsFrameService, Service!Spec
===============================================================================
