--------------------------- MODULE CanvasViewProofs ---------------------------
(***************************************************************************)
(* What holds of CanvasView for documents, viewports, layers and caches of  *)
(* any size: the types, that nothing is shown of an invalid document, that  *)
(* what is shown is the picture of now, that no pixel is drawn twice, and   *)
(* that a view at rest is complete.                                         *)
(***************************************************************************)
EXTENDS CanvasView, FiniteSetTheorems, TLAPS

ViewInv == TypeOK /\ InvalidShowsNothing

-----------------------------------------------------------------------------
(* What the shared steps do                                                  *)

LEMMA ScheduleFacts ==
    ASSUME TypeOK, UserActs, NEW allowed \in BOOLEAN, Schedule(allowed), asked' = asked
    PROVE  /\ pending' \in BOOLEAN /\ timers' \in Nat /\ (pending' => timers' > 0)
           /\ asked' + timers' <= MaxRequest
  <1>1. /\ MaxRequest \in Nat /\ asked \in Nat /\ timers \in Nat
        /\ pending \in BOOLEAN /\ (pending => timers > 0) /\ asked + timers < MaxRequest
    BY ConstantsAssumption DEF TypeOK, UserActs
  <1>2. CASE allowed /\ ~pending
    <2>1. pending' = TRUE /\ timers' = timers + 1
      BY <1>2 DEF Schedule
    <2> QED
      BY <1>1, <2>1
  <1>3. CASE ~(allowed /\ ~pending)
    <2>1. pending' = pending /\ timers' = timers
      BY <1>3 DEF Schedule
    <2> QED
      BY <1>1, <2>1
  <1> QED
    BY <1>2, <1>3

LEMMA GenerationFacts ==
    ASSUME TypeOK, NextGeneration PROVE generation' \in 0 .. MaxGeneration
  BY ConstantsAssumption DEF TypeOK, NextGeneration

LEMMA SnapshotFacts ==
    ASSUME TypeOK
    PROVE  RenderDocumentSnapshot \in {Nothing} \union
               [kind : {"snapshot"}, content : Content, board : Board, sound : BOOLEAN]
  BY DEF TypeOK, RenderDocumentSnapshot

LEMMA WithdrawFacts ==
    ASSUME TypeOK, Renderer!Withdraw \/ UNCHANGED rendererVars
    PROVE  asked' = asked /\ wanted' \in {0, asked'} /\ shown' \in 0 .. asked'
  BY DEF TypeOK, Renderer!Withdraw, rendererVars

LEMMA ViewInvInit == Init => ViewInv
  <1> SUFFICES ASSUME Init PROVE ViewInv
    OBVIOUS
  <1>1. InvalidShowsNothing
    BY DEF Init, InvalidShowsNothing
  <1>2. MaxGeneration \in Nat /\ MaxRequest \in Nat /\ 0 \in Frame /\ HomeViewport \in Viewport
    BY ConstantsAssumption
  <1>3. asked = 0 /\ wanted = 0 /\ shown = 0 /\ timers = 0 /\ generation = 0 /\ pending = FALSE
    BY DEF Init, Renderer!Init
  <1>4. /\ generation \in 0 .. MaxGeneration
        /\ asked \in Nat /\ asked + timers <= MaxRequest
        /\ wanted \in {0, asked} /\ shown \in 0 .. asked
    BY <1>2, <1>3
  <1>5. /\ bound = "none" /\ frame = 0 /\ viewport = HomeViewport /\ snapshot = Nothing
        /\ sound = TRUE /\ attached = FALSE /\ valid = FALSE /\ failed = FALSE
        /\ width \in Width /\ content \in Content /\ board \in Board /\ sampling \in Sampling
    BY ConstantsAssumption DEF Init, Sampling
  <1>6. TypeOK
    BY <1>2, <1>3, <1>4, <1>5 DEF TypeOK
  <1> QED
    BY <1>1, <1>6 DEF ViewInv

-----------------------------------------------------------------------------
(* The document                                                              *)

LEMMA BindStep == ASSUME ViewInv, Bind PROVE ViewInv'
  <1>1. TypeOK
    BY DEF ViewInv
  <1>2. pending' \in BOOLEAN /\ timers' \in Nat /\ (pending' => timers' > 0)
          /\ asked' + timers' <= MaxRequest
          /\ generation' \in 0 .. MaxGeneration
          /\ asked' = asked /\ wanted' \in {0, asked'} /\ shown' \in 0 .. asked'
    BY <1>1, ScheduleFacts, GenerationFacts, WithdrawFacts DEF Bind
  <1>3. 0 \in Frame /\ HomeViewport \in Viewport
    BY ConstantsAssumption
  <1> QED
    BY <1>1, <1>2, <1>3 DEF Bind, TypeOK, ViewInv, InvalidShowsNothing, DropSnapshot

LEMMA UnbindStep == ASSUME ViewInv, Unbind PROVE ViewInv'
  <1>1. TypeOK
    BY DEF ViewInv
  <1>2. asked' = asked /\ wanted' \in {0, asked'} /\ shown' \in 0 .. asked'
    BY <1>1, WithdrawFacts DEF Unbind
  <1>3. 0 \in Frame /\ HomeViewport \in Viewport
    BY ConstantsAssumption
  <1> QED
    BY <1>1, <1>2, <1>3
       DEF Unbind, TypeOK, ViewInv, InvalidShowsNothing, DropSnapshot, ClearTileCache

LEMMA AroundStep == ASSUME ViewInv, FileGoes \/ DocumentChanges PROVE ViewInv'
  <1>1. TypeOK /\ InvalidShowsNothing
    BY DEF ViewInv
  <1>2. /\ content' \in Content /\ sound' \in BOOLEAN /\ attached' \in BOOLEAN
        /\ UNCHANGED <<bound, width, valid, frame, board, sampling, viewport, generation, snapshot,
                       pending, timers, asked, wanted, shown, failed, tileCache, layerTileCache,
                       framePixels>>
    BY <1>1 DEF TypeOK, FileGoes, DocumentChanges, rendererVars, cacheVars
  <1>3. TypeOK'
    BY <1>1, <1>2 DEF TypeOK
  <1>4. InvalidShowsNothing'
    BY <1>1, <1>2 DEF InvalidShowsNothing
  <1> QED
    BY <1>3, <1>4 DEF ViewInv

LEMMA ShowNewContentFacts ==
    ASSUME TypeOK, UserActs, ShowNewContent
    PROVE  /\ valid' = TRUE /\ snapshot' = Nothing
           /\ generation' \in 0 .. MaxGeneration
           /\ pending' \in BOOLEAN /\ timers' \in Nat /\ (pending' => timers' > 0)
           /\ asked' + timers' <= MaxRequest
           /\ asked' = asked /\ wanted' \in {0, asked'} /\ shown' \in 0 .. asked'
  <1>1. /\ NextGeneration /\ Schedule(TRUE) /\ UNCHANGED rendererVars /\ asked' = asked
        /\ valid' = TRUE /\ snapshot' = Nothing
    BY DEF ShowNewContent, DropSnapshot, rendererVars
  <1> QED
    BY <1>1, ScheduleFacts, GenerationFacts, WithdrawFacts

LEMMA RefreshStep == ASSUME ViewInv, Refresh PROVE ViewInv'
  <1>1. TypeOK /\ UserActs /\ UNCHANGED <<documentVars, frame, board, sampling, viewport, failed>>
    BY DEF ViewInv, Refresh
  <1>2. CASE ShowNewContent
    BY <1>1, <1>2, ShowNewContentFacts DEF TypeOK, ViewInv, InvalidShowsNothing, documentVars
  <1>3. CASE /\ valid' = FALSE /\ ClearTileCache
             /\ UNCHANGED rendererVars \/ Renderer!Withdraw
             /\ UNCHANGED <<generation, snapshot, pending, timers>>
    <2>1. asked' = asked /\ wanted' \in {0, asked'} /\ shown' \in 0 .. asked'
      BY <1>1, <1>3, WithdrawFacts
    <2> QED
      BY <1>1, <1>3, <2>1 DEF TypeOK, ViewInv, InvalidShowsNothing, documentVars, ClearTileCache
  <1> QED
    BY <1>2, <1>3 DEF Refresh

LEMMA EditDocumentStep == ASSUME ViewInv, EditDocument PROVE ViewInv'
  <1>1. TypeOK /\ UserActs /\ ShowNewContent
          /\ content' \in Content /\ width' \in Width /\ frame' \in Frame
          /\ UNCHANGED <<bound, sound, attached, board, sampling, viewport, failed>>
    BY DEF ViewInv, EditDocument
  <1> QED
    BY <1>1, ShowNewContentFacts DEF TypeOK, ViewInv, InvalidShowsNothing

(* The other calls clear the caches, or leave them and the validity alone.   *)
LEMMA PresentationStep ==
    ASSUME ViewInv,
           \/ RefreshPreview \/ SetFrame \/ SetSmoothRendering \/ SetRenderArtboardId
           \/ MoveViewport
    PROVE  ViewInv'
  <1>1. TypeOK
    BY DEF ViewInv
  <1>2. /\ UserActs /\ (Renderer!Withdraw \/ UNCHANGED rendererVars)
        /\ Schedule(TRUE) \/ Schedule(valid)
        /\ NextGeneration \/ generation' = generation
        /\ UNCHANGED <<documentVars, valid, failed>>
        /\ ClearTileCache \/ UNCHANGED cacheVars
        /\ snapshot' \in {Nothing, snapshot}
        /\ frame' \in Frame /\ board' \in Board /\ sampling' \in Sampling /\ viewport' \in Viewport
    BY <1>1 DEF TypeOK, RefreshPreview, SetFrame, SetSmoothRendering, SetRenderArtboardId,
       MoveViewport, DropSnapshot
  <1>3. asked' = asked /\ wanted' \in {0, asked'} /\ shown' \in 0 .. asked'
    BY <1>1, <1>2, WithdrawFacts
  <1>4. /\ pending' \in BOOLEAN /\ timers' \in Nat /\ (pending' => timers' > 0)
        /\ asked' + timers' <= MaxRequest
    <2>1. valid \in BOOLEAN
      BY <1>1 DEF TypeOK
    <2> QED
      BY <1>1, <1>2, <1>3, <2>1, ScheduleFacts
  <1>5. generation' \in 0 .. MaxGeneration
    BY <1>1, <1>2, GenerationFacts DEF TypeOK
  <1>6. TypeOK'
    BY <1>1, <1>2, <1>3, <1>4, <1>5 DEF TypeOK, documentVars
  <1>7. InvalidShowsNothing'
    BY <1>2 DEF ViewInv, InvalidShowsNothing, ClearTileCache, cacheVars
  <1> QED
    BY <1>6, <1>7 DEF ViewInv

-----------------------------------------------------------------------------
(* Rendering                                                                 *)

LEMMA StartScheduledRenderStep == ASSUME ViewInv, StartScheduledRender PROVE ViewInv'
  <1>1. TypeOK /\ InvalidShowsNothing
    BY DEF ViewInv
  <1>2. /\ timers > 0 /\ timers' = timers - 1 /\ pending' = FALSE
        /\ UNCHANGED <<documentVars, valid, frame, board, sampling, viewport, generation,
                       framePixels>>
        /\ snapshot' \in {snapshot, RenderDocumentSnapshot}
        /\ (Renderer!Ask /\ failed' = FALSE) \/ UNCHANGED <<rendererVars, failed>>
        /\ valid \/ UNCHANGED <<tileCache, layerTileCache>>
    BY DEF StartScheduledRender, DocumentReady
  <1>3. /\ asked' \in Nat /\ asked' + timers' <= MaxRequest /\ timers' \in Nat
        /\ wanted' \in {0, asked'} /\ shown' \in 0 .. asked'
    BY <1>1, <1>2, ConstantsAssumption DEF TypeOK, Renderer!Ask, rendererVars
  <1>4. TypeOK'
    BY <1>1, <1>2, <1>3, SnapshotFacts DEF TypeOK, documentVars, rendererVars
  <1>5. InvalidShowsNothing'
    BY <1>1, <1>2 DEF InvalidShowsNothing
  <1> QED
    BY <1>4, <1>5 DEF ViewInv

(* A result is kept only by a view of a valid document.                      *)
LEMMA ApplyAsyncRenderStep == ASSUME ViewInv, ApplyAsyncRender PROVE ViewInv'
  <1>1. TypeOK /\ InvalidShowsNothing
    BY DEF ViewInv
  <1>2. /\ Renderer!Deliver
        /\ UNCHANGED <<documentVars, valid, frame, board, sampling, viewport, generation, snapshot,
                       pending, timers, payload>>
        /\ failed' \in {failed, TRUE} /\ (valid \/ UNCHANGED cacheVars)
    BY DEF ApplyAsyncRender, AcceptsResult
  <1>3. asked' = asked /\ wanted' = 0 /\ shown' \in 0 .. asked'
    BY <1>1, <1>2 DEF Renderer!Deliver, TypeOK
  <1>4. TypeOK'
    BY <1>1, <1>2, <1>3 DEF TypeOK, documentVars
  <1>5. InvalidShowsNothing'
    BY <1>1, <1>2 DEF InvalidShowsNothing, cacheVars
  <1> QED
    BY <1>4, <1>5 DEF ViewInv

-----------------------------------------------------------------------------
LEMMA ViewInvariance == Spec => []ViewInv
  <1>1. ViewInv /\ [Next]_vars => ViewInv'
    <2> SUFFICES ASSUME ViewInv, [Next]_vars PROVE ViewInv'
      OBVIOUS
    <2>1. CASE UNCHANGED vars
      BY <2>1 DEF ViewInv, TypeOK, InvalidShowsNothing, vars, documentVars, rendererVars, cacheVars
    <2> QED
      BY <2>1, BindStep, UnbindStep, AroundStep, RefreshStep, EditDocumentStep, PresentationStep,
         StartScheduledRenderStep, ApplyAsyncRenderStep DEF Next
  <1> QED
    BY ViewInvInit, <1>1, PTL DEF Spec

(* Every variable keeps its type, and a pending render has its timer.        *)
THEOREM TypeCorrect == Spec => []TypeOK
  <1>1. ViewInv => TypeOK
    BY DEF ViewInv
  <1> QED
    BY <1>1, ViewInvariance, PTL

(* A view without a valid document shows nothing of an earlier one, also     *)
(* when a render it had asked for comes in late (CanvasItem::refreshAsync,   *)
(* applyAsyncRender).                                                        *)
THEOREM InvalidShowsNothingCorrect == Spec => []InvalidShowsNothing
  <1>1. ViewInv => InvalidShowsNothing
    BY DEF ViewInv
  <1> QED
    BY <1>1, ViewInvariance, PTL

-----------------------------------------------------------------------------
(* What the caches hold                                                      *)

IsTile(e) ==
    e = [layer |-> e.layer, tile |-> e.tile, generation |-> e.generation, look |-> e.look,
         lastUse |-> e.lastUse]

Cached == tileCache \union layerTileCache

UsedAs(e, k) == [e EXCEPT !.lastUse = k]
Renumbered(cache, n) == {UsedAs(e, n[e]) : e \in cache}

(* The numbers Numbered gives: how many tiles were used no later.            *)
Numbering(cache, use) == [e \in cache |-> Cardinality({f \in cache : use[f] <= use[e]})]

LEMMA UsedAsFacts ==
    ASSUME NEW e, IsTile(e), NEW k
    PROVE  /\ IsTile(UsedAs(e, k)) /\ UsedAs(e, k).lastUse = k
           /\ UsedAs(e, k).layer = e.layer /\ UsedAs(e, k).tile = e.tile
           /\ UsedAs(e, k).generation = e.generation /\ UsedAs(e, k).look = e.look
  <1>1. e = [layer |-> e.layer, tile |-> e.tile, generation |-> e.generation, look |-> e.look,
             lastUse |-> e.lastUse]
    BY DEF IsTile
  <1>2. UsedAs(e, k) = [layer |-> e.layer, tile |-> e.tile, generation |-> e.generation,
                        look |-> e.look, lastUse |-> k]
    BY <1>1 DEF UsedAs
  <1> QED
    BY <1>2 DEF IsTile

LEMMA RenumberedFacts ==
    ASSUME NEW cache, \A e \in cache : IsTile(e), NEW n, NEW d \in Renumbered(cache, n)
    PROVE  \E e \in cache : /\ IsTile(d) /\ d = UsedAs(e, n[e]) /\ d.lastUse = n[e]
                            /\ d.layer = e.layer /\ d.tile = e.tile
                            /\ d.generation = e.generation /\ d.look = e.look
  <1>1. PICK e \in cache : d = UsedAs(e, n[e])
    BY DEF Renumbered
  <1> QED
    BY <1>1, UsedAsFacts

(* Using tiles and receiving new ones renumbers what is kept.                *)
TouchUses(cache) ==
    [e \in cache |->
        LET hits == {r \in Requests[width][viewport] :
                        IsCurrent(e, r.tile) /\ HasCachedTile(r.tile)}
        IN  IF hits = {} THEN e.lastUse
            ELSE Cardinality(cache) + 1 + e.layer
                   + (Layers + 1) * (CHOOSE r \in hits : TRUE).place]

LEMMA TouchedIsRenumbered ==
    ASSUME NEW cache
    PROVE  Touched(cache) = Renumbered(cache, Numbering(cache, TouchUses(cache)))
  <1> DEFINE Hits(e) == {r \in Requests[width][viewport] :
                           IsCurrent(e, r.tile) /\ HasCachedTile(r.tile)}
             Use(e) == IF Hits(e) = {} THEN e.lastUse
                       ELSE Cardinality(cache) + 1 + e.layer
                              + (Layers + 1) * (CHOOSE r \in Hits(e) : TRUE).place
             use == TouchUses(cache)
  <1>1. Touched(cache) = {[e EXCEPT !.lastUse = Cardinality({f \in cache : Use(f) <= Use(e)})] :
                            e \in cache}
    BY Zenon DEF Touched, Numbered
  <1>2. use = [e \in cache |-> Use(e)]
    BY Zenon DEF TouchUses
  <1> HIDE DEF Use, use
  <1>3. \A e \in cache : use[e] = Use(e)
    BY <1>2
  <1>4. ASSUME NEW e \in cache
        PROVE  Cardinality({f \in cache : Use(f) <= Use(e)}) = Numbering(cache, use)[e]
    <2>1. {f \in cache : Use(f) <= Use(e)} = {f \in cache : use[f] <= use[e]}
      BY <1>3
    <2> QED
      BY <2>1 DEF Numbering
  <1>5. Touched(cache) = Renumbered(cache, Numbering(cache, use))
    BY <1>1, <1>4, Zenon DEF Renumbered, UsedAs
  <1> QED
    BY <1>5 DEF use

(* The tiles of a result, and the cached ones they leave.                    *)
Results(cache, layers) == {Rendered(l, r, cache) : l \in layers, r \in payload.requests}
Left(cache) == WithoutOverlap(cache, {r.tile : r \in payload.requests})
Kept(cache, layers, limit) == Trimmed(Left(cache) \union Results(cache, layers), limit)
LastUses(cache) == [e \in cache |-> e.lastUse]

LEMMA ReceivedIsRenumbered ==
    ASSUME NEW cache, NEW layers, NEW limit
    PROVE  /\ Kept(cache, layers, limit) \subseteq Left(cache) \union Results(cache, layers)
           /\ Received(cache, layers, limit)
                = Renumbered(Kept(cache, layers, limit),
                             Numbering(Kept(cache, layers, limit),
                                       LastUses(Kept(cache, layers, limit))))
  <1> DEFINE kept == Kept(cache, layers, limit)
             use == LastUses(kept)
  <1>1. Received(cache, layers, limit)
            = {[e EXCEPT !.lastUse = Cardinality({f \in kept : f.lastUse <= e.lastUse})] : e \in kept}
    BY DEF Received, Numbered, Left, Results, Kept
  <1>2. kept \subseteq Left(cache) \union Results(cache, layers)
    BY DEF Trimmed, Kept
  <1> HIDE DEF kept
  <1>3. ASSUME NEW e \in kept
        PROVE  Cardinality({f \in kept : f.lastUse <= e.lastUse}) = Numbering(kept, use)[e]
    <2>1. \A f \in kept : use[f] = f.lastUse
      BY DEF LastUses
    <2> HIDE DEF use
    <2>2. {f \in kept : f.lastUse <= e.lastUse} = {f \in kept : use[f] <= use[e]}
      BY <2>1
    <2> QED
      BY <2>2 DEF Numbering
  <1>4. Received(cache, layers, limit) = Renumbered(kept, Numbering(kept, use))
    BY <1>1, <1>3, Zenon DEF Renumbered, UsedAs
  <1> QED
    BY <1>2, <1>4 DEF kept

-----------------------------------------------------------------------------
(* What is shown is the picture of now: of the snapshot the view has, at its *)
(* frame, artboard and sampling.  This goes for the tiles and the request    *)
(* marked with the current generation; none is of a later one.               *)

IsPictureOfNow(look) ==
    snapshot # Nothing /\ snapshot.board = board /\ look = Look(snapshot, frame, sampling)

IsTrue(generationOf, look) ==
    /\ generationOf \in 0 .. generation
    /\ generationOf = generation => IsPictureOfNow(look)

PictureInv ==
    /\ snapshot # Nothing => snapshot.board = board
    /\ \A e \in Cached : IsTile(e) /\ IsTrue(e.generation, e.look)
    /\ framePixels # Nothing => IsPictureOfNow(framePixels.look)
    /\ wanted # 0 => IsTrue(payload.generation, payload.look)

(* A step to a new generation leaves nothing to show.                        *)
LEMMA NewPicture ==
    ASSUME TypeOK, PictureInv, NextGeneration, framePixels' = Nothing,
           snapshot' # Nothing => snapshot' = snapshot /\ board' = board,
           Cached' \subseteq Cached,
           wanted' # 0 => wanted # 0 /\ payload' = payload
    PROVE  PictureInv'
  <1>1. generation \in Nat /\ generation' = generation + 1
    BY ConstantsAssumption DEF TypeOK, NextGeneration
  <1>2. ASSUME NEW g \in 0 .. generation PROVE g \in 0 .. generation' /\ g # generation'
    BY <1>1
  <1>3. ASSUME NEW e \in Cached' PROVE IsTile(e) /\ IsTrue(e.generation, e.look)'
    <2>1. IsTile(e) /\ e.generation \in 0 .. generation
      BY <1>3 DEF PictureInv, IsTrue
    <2> QED
      BY <1>2, <2>1 DEF IsTrue
  <1>4. ASSUME wanted' # 0 PROVE IsTrue(payload.generation, payload.look)'
    <2>1. payload' = payload /\ payload.generation \in 0 .. generation
      BY <1>4 DEF PictureInv, IsTrue
    <2> QED
      BY <1>2, <2>1 DEF IsTrue
  <1> QED
    BY <1>3, <1>4 DEF PictureInv, IsTile

(* A step that keeps the picture may withdraw the request and drop tiles.    *)
LEMMA SamePicture ==
    ASSUME PictureInv, UNCHANGED <<generation, snapshot, board, frame, sampling>>,
           Cached' \subseteq Cached, framePixels' \in {Nothing, framePixels},
           wanted' # 0 => wanted # 0 /\ payload' = payload
    PROVE  PictureInv'
  <1>1. ASSUME NEW e \in Cached' PROVE IsTile(e) /\ IsTrue(e.generation, e.look)'
    BY <1>1 DEF PictureInv, IsTrue, IsPictureOfNow, Look
  <1>2. ASSUME wanted' # 0 PROVE IsTrue(payload.generation, payload.look)'
    BY <1>2 DEF PictureInv, IsTrue, IsPictureOfNow, Look
  <1>3. framePixels' # Nothing => IsPictureOfNow(framePixels.look)'
    BY DEF PictureInv, IsPictureOfNow, Look
  <1> QED
    BY <1>1, <1>2, <1>3 DEF PictureInv, IsTile

LEMMA PictureStart == ASSUME TypeOK, PictureInv, StartScheduledRender PROVE PictureInv'
  <1>1. CASE UNCHANGED <<snapshot, tileCache, layerTileCache, rendererVars, payload, failed>>
    <2>1. UNCHANGED <<generation, snapshot, board, frame, sampling, wanted, payload, framePixels,
                      tileCache, layerTileCache>>
      BY <1>1 DEF StartScheduledRender, rendererVars
    <2>2. Cached' = Cached
      BY <2>1 DEF Cached
    <2> QED
      BY <2>1, <2>2, SamePicture
  <1>2. CASE ~UNCHANGED <<snapshot, tileCache, layerTileCache, rendererVars, payload, failed>>
    <2>1. /\ snapshot' = RenderDocumentSnapshot
          /\ tileCache' = Touched(tileCache) /\ layerTileCache' = Touched(layerTileCache)
          /\ UNCHANGED <<generation, board, frame, sampling, framePixels>>
          /\ \/ /\ payload'.generation = generation
                /\ payload'.look = Look(snapshot', frame, sampling)
             \/ UNCHANGED <<rendererVars, payload>>
      BY <1>2 DEF StartScheduledRender
    <2>2. snapshot # Nothing => snapshot' = snapshot
      BY <2>1 DEF RenderDocumentSnapshot
    <2>3. snapshot' # Nothing /\ (snapshot = Nothing => snapshot'.board = board)
      BY <2>1 DEF RenderDocumentSnapshot, Nothing
    <2>4. ASSUME NEW look, IsPictureOfNow(look) PROVE IsPictureOfNow(look)'
      BY <2>1, <2>2, <2>4 DEF IsPictureOfNow, Look
    <2>5. ASSUME NEW e \in Cached' PROVE IsTile(e) /\ IsTrue(e.generation, e.look)'
      <3>1. PICK cache \in {tileCache, layerTileCache} : e \in Touched(cache)
        BY <2>1 DEF Cached
      <3> DEFINE n == Numbering(cache, TouchUses(cache))
      <3>2. Touched(cache) = Renumbered(cache, n)
        BY TouchedIsRenumbered
      <3>3. \A c \in cache : IsTile(c) /\ IsTrue(c.generation, c.look)
        BY <3>1 DEF PictureInv, Cached
      <3>4. PICK c \in cache : IsTile(e) /\ e.generation = c.generation /\ e.look = c.look
        <4>1. e \in Renumbered(cache, n)
          BY <3>1, <3>2
        <4>2. \A c \in cache : IsTile(c)
          BY <3>3
        <4> QED
          BY <4>1, <4>2, RenumberedFacts
      <3>5. IsTrue(c.generation, c.look)
        BY <3>3
      <3> QED
        BY <2>1, <2>4, <3>4, <3>5 DEF IsTrue
    <2>6. framePixels' # Nothing => IsPictureOfNow(framePixels.look)'
      BY <2>1, <2>4 DEF PictureInv
    <2>7. ASSUME wanted' # 0 PROVE IsTrue(payload.generation, payload.look)'
      <3>1. CASE /\ payload'.generation = generation
                 /\ payload'.look = Look(snapshot', frame, sampling)
        <4>1. snapshot' # Nothing /\ snapshot'.board = board
          BY <2>2, <2>3 DEF PictureInv
        <4>2. generation \in 0 .. generation
          BY DEF TypeOK
        <4> QED
          BY <2>1, <3>1, <4>1, <4>2 DEF IsTrue, IsPictureOfNow, Look
      <3>2. CASE UNCHANGED <<rendererVars, payload>>
        BY <2>1, <2>4, <2>7, <3>2 DEF PictureInv, IsTrue, rendererVars
      <3> QED
        BY <2>1, <3>1, <3>2
    <2>8. snapshot'.board = board'
      BY <2>1, <2>2, <2>3 DEF PictureInv
    <2> QED
      BY <2>5, <2>6, <2>7, <2>8 DEF PictureInv, IsTile
  <1> QED
    BY <1>1, <1>2

(* A result is accepted only if it was asked for in this generation: then it *)
(* is a picture of now like the tiles it joins.                              *)
LEMMA PictureApply == ASSUME TypeOK, PictureInv, ApplyAsyncRender PROVE PictureInv'
  <1>1. /\ wanted # 0 /\ wanted' = 0
        /\ UNCHANGED <<generation, snapshot, board, frame, sampling, payload>>
    BY DEF ApplyAsyncRender, Renderer!Deliver
  <1>2. CASE UNCHANGED cacheVars
    <2>1. Cached' = Cached /\ framePixels' = framePixels
      BY <1>2 DEF Cached, cacheVars
    <2> QED
      BY <1>1, <2>1, SamePicture
  <1>3. CASE AcceptsResult /\ ApplyTiles
    <2>1. payload.generation = generation /\ IsPictureOfNow(payload.look)
      BY <1>1, <1>3 DEF AcceptsResult, PictureInv, IsTrue
    <2>2. generation \in 0 .. generation
      BY DEF TypeOK
    <2>3. ASSUME NEW cache \in {tileCache, layerTileCache}, NEW layers, NEW limit,
                 NEW e \in Received(cache, layers, limit)
          PROVE  IsTile(e) /\ IsTrue(e.generation, e.look)
      <3> DEFINE kept == Kept(cache, layers, limit)
                 n == Numbering(kept, LastUses(kept))
      <3>1. /\ kept \subseteq Left(cache) \union Results(cache, layers)
            /\ Received(cache, layers, limit) = Renumbered(kept, n)
        BY ReceivedIsRenumbered
      <3> HIDE DEF kept, n
      <3>2. ASSUME NEW c \in kept PROVE IsTile(c) /\ IsTrue(c.generation, c.look)
        <4>1. CASE c \in Left(cache)
          <5>1. c \in Cached
            BY <4>1 DEF Left, WithoutOverlap, Cached
          <5> QED
            BY <5>1 DEF PictureInv
        <4>2. CASE c \in Results(cache, layers)
          <5>1. PICK l \in layers, r \in payload.requests : c = Rendered(l, r, cache)
            BY <4>2 DEF Results
          <5> QED
            BY <2>1, <2>2, <5>1 DEF Rendered, IsTile, IsTrue
        <4> QED
          BY <3>1, <3>2, <4>1, <4>2
      <3>3. PICK c \in kept : IsTile(e) /\ e.generation = c.generation /\ e.look = c.look
        <4>1. e \in Renumbered(kept, n)
          BY <2>3, <3>1
        <4>2. \A c \in kept : IsTile(c)
          BY <3>2
        <4> QED
          BY <4>1, <4>2, RenumberedFacts
      <3> QED
        BY <3>2, <3>3
    <2>4. \A e \in Cached' : IsTile(e) /\ IsTrue(e.generation, e.look)
      BY <1>3, <2>3 DEF ApplyTiles, Cached
    <2>5. framePixels' # Nothing => IsPictureOfNow(framePixels'.look)
      <3> DEFINE complete == {e \in tileCache' : IsCurrent(e, CompleteTile)}
      <3>1. framePixels' = IF complete = {} THEN Nothing
                           ELSE [kind |-> "picture", look |-> (CHOOSE e \in complete : TRUE).look]
        BY <1>3 DEF ApplyTiles
      <3>2. \A e \in complete : IsPictureOfNow(e.look)
        BY <2>4 DEF Cached, IsCurrent, IsTrue
      <3> HIDE DEF complete
      <3>3. complete # {} => (CHOOSE e \in complete : TRUE) \in complete
        OBVIOUS
      <3> QED
        BY <3>1, <3>2, <3>3
    <2> QED
      BY <1>1, <2>4, <2>5 DEF PictureInv, IsTile, IsTrue, IsPictureOfNow, Look
  <1> QED
    BY <1>2, <1>3 DEF ApplyAsyncRender

(* The other calls drop the picture, or keep it.                             *)
LEMMA PictureDropped ==
    ASSUME TypeOK, PictureInv,
           \/ Bind \/ (Refresh /\ ShowNewContent) \/ EditDocument \/ RefreshPreview
           \/ SetFrame \/ SetSmoothRendering \/ SetRenderArtboardId
    PROVE  PictureInv'
  <1>1. NextGeneration /\ framePixels' = Nothing
    BY DEF Bind, Refresh, EditDocument, RefreshPreview, SetFrame, SetSmoothRendering,
       SetRenderArtboardId, ShowNewContent, ClearTileCache
  <1>2. snapshot' # Nothing => snapshot' = snapshot /\ board' = board
    BY DEF Bind, Refresh, EditDocument, RefreshPreview, SetFrame, SetSmoothRendering,
       SetRenderArtboardId, ShowNewContent, DropSnapshot
  <1>3. tileCache' \in {{}, tileCache} /\ layerTileCache' \in {{}, layerTileCache}
    BY DEF Bind, Refresh, EditDocument, RefreshPreview, SetFrame, SetSmoothRendering,
       SetRenderArtboardId, ShowNewContent, ClearTileCache
  <1>4. wanted' # 0 => wanted # 0 /\ payload' = payload
    BY DEF Bind, Refresh, EditDocument, RefreshPreview, SetFrame, SetSmoothRendering,
       SetRenderArtboardId, ShowNewContent, Renderer!Withdraw, rendererVars
  <1>5. Cached' \subseteq Cached
    BY <1>3 DEF Cached
  <1> QED
    BY <1>1, <1>2, <1>4, <1>5, NewPicture

LEMMA PictureKept ==
    ASSUME PictureInv, \/ FileGoes \/ DocumentChanges \/ MoveViewport
                       \/ (Refresh /\ ~ShowNewContent) \/ UNCHANGED vars
    PROVE  PictureInv'
  <1>1. UNCHANGED <<generation, snapshot, board, frame, sampling, payload>>
    BY DEF FileGoes, DocumentChanges, MoveViewport, Refresh, vars
  <1>2. /\ tileCache' \in {{}, tileCache} /\ layerTileCache' \in {{}, layerTileCache}
        /\ framePixels' \in {Nothing, framePixels}
    BY DEF FileGoes, DocumentChanges, MoveViewport, Refresh, vars, cacheVars, ClearTileCache
  <1>3. wanted' # 0 => wanted # 0
    BY DEF FileGoes, DocumentChanges, MoveViewport, Refresh, vars, rendererVars,
       Renderer!Withdraw
  <1>4. Cached' \subseteq Cached
    BY <1>2 DEF Cached
  <1> QED
    BY <1>1, <1>2, <1>3, <1>4, SamePicture

LEMMA PictureUnbind == ASSUME Unbind PROVE PictureInv'
  BY DEF Unbind, DropSnapshot, ClearTileCache, Renderer!Withdraw, PictureInv, Cached

LEMMA PictureStep == ASSUME TypeOK, PictureInv, [Next]_vars PROVE PictureInv'
  <1>1. CASE UNCHANGED vars
    BY <1>1, PictureKept
  <1>2. CASE Refresh
    BY <1>2, PictureDropped, PictureKept
  <1>3. CASE \/ Bind \/ EditDocument \/ RefreshPreview
             \/ SetFrame \/ SetSmoothRendering \/ SetRenderArtboardId
    BY <1>3, PictureDropped
  <1>4. CASE FileGoes \/ DocumentChanges \/ MoveViewport
    BY <1>4, PictureKept
  <1>5. CASE Unbind
    BY <1>5, PictureUnbind
  <1>6. CASE StartScheduledRender \/ ApplyAsyncRender
    BY <1>6, PictureStart, PictureApply
  <1> QED
    BY <1>1, <1>2, <1>3, <1>4, <1>5, <1>6 DEF Next

LEMMA PictureInvariance == Spec => [](ViewInv /\ PictureInv)
  <1>1. Init => PictureInv
    BY DEF Init, Renderer!Init, PictureInv, Cached
  <1>2. ViewInv /\ PictureInv /\ [Next]_vars => PictureInv'
    BY PictureStep DEF ViewInv
  <1> QED
    BY <1>1, <1>2, ViewInvariance, PTL DEF Spec

(* Whatever requests, cancellations, edits and settings cross on the way, a  *)
(* tile marked with the current generation and framePixels() show the        *)
(* snapshot of now (CanvasItem::startScheduledRender, applyAsyncRender).     *)
THEOREM CurrentTilesShowTheSnapshotCorrect == Spec => []CurrentTilesShowTheSnapshot
  <1>1. PictureInv => CurrentTilesShowTheSnapshot
    <2> SUFFICES ASSUME PictureInv PROVE CurrentTilesShowTheSnapshot
      OBVIOUS
    <2> DEFINE current == {c \in Cached : c.generation = generation}
               looks == {e.look : e \in current}
                        \union (IF framePixels = Nothing THEN {} ELSE {framePixels.look})
    <2>1. ASSUME NEW look \in looks PROVE IsPictureOfNow(look)
      <3>1. ASSUME NEW e \in current PROVE IsPictureOfNow(e.look)
        BY DEF PictureInv, IsTrue
      <3> QED
        BY <3>1 DEF PictureInv
    <2> HIDE DEF looks
    <2>2. looks # {} => /\ snapshot # Nothing /\ snapshot.board = board
                        /\ looks = {Look(snapshot, frame, sampling)}
      BY <2>1 DEF IsPictureOfNow
    <2> QED
      BY <2>2 DEF CurrentTilesShowTheSnapshot, looks, Cached
  <1> QED
    BY <1>1, PictureInvariance, PTL

-----------------------------------------------------------------------------
(* No pixel is drawn twice: the tiles of a request lie side by side, and     *)
(* what arrives replaces every tile it overlaps.                             *)

Apart(S) == \A a, b \in S : a # b => ~Overlap(a.tile, b.tile)

TilesInv == Apart(tileCache) /\ (wanted # 0 => Apart(payload.requests))

(* An image is no larger than the set, and as large if nothing coincides.    *)
LEMMA ImageSize ==
    ASSUME NEW S, IsFiniteSet(S), NEW T, NEW f \in [S -> T], T = {f[x] : x \in S}
    PROVE  /\ IsFiniteSet(T) /\ Cardinality(T) <= Cardinality(S)
           /\ (\A x, y \in S : f[x] = f[y] => x = y) => Cardinality(T) = Cardinality(S)
  <1>1. f \in Surjection(S, T)
    BY DEF Surjection
  <1>2. (\A x, y \in S : f[x] = f[y] => x = y) => f \in Injection(S, T)
    BY DEF Injection, IsInjective
  <1> QED
    BY <1>1, <1>2, FS_Surjection

LEMMA MaxOfTwo == ASSUME NEW a \in Int, NEW b \in Int
                  PROVE  Max({a, b}) \in Int /\ Max({a, b}) >= a /\ Max({a, b}) >= b
  <1>1. \E x \in {a, b} : \A y \in {a, b} : x >= y
    OBVIOUS
  <1>2. Max({a, b}) \in {a, b} /\ \A y \in {a, b} : Max({a, b}) >= y
    BY <1>1 DEF Max
  <1> QED
    BY <1>2

LEMMA MinOfTwo == ASSUME NEW a \in Int, NEW b \in Int
                  PROVE  Min({a, b}) \in Int /\ Min({a, b}) <= a /\ Min({a, b}) <= b
  <1>1. \E x \in {a, b} : \A y \in {a, b} : x <= y
    OBVIOUS
  <1>2. Min({a, b}) \in {a, b} /\ \A y \in {a, b} : Min({a, b}) <= y
    BY <1>1 DEF Min
  <1> QED
    BY <1>2

LEMMA LevelOfDetailType == ASSUME NEW scale \in Nat \ {0}
                           PROVE  LevelOfDetail(scale) \in Nat \ {0}
  <1> DEFINE S == {d \in LevelsOfDetail : d <= scale}
  <1>1. S \subseteq {1, 2, 4, 8} /\ 1 \in S
    BY DEF LevelsOfDetail
  <1>2. \E x \in S : \A y \in S : x >= y
    <2>1. CASE 8 \in S
      BY <1>1, <2>1
    <2>2. CASE 8 \notin S /\ 4 \in S
      BY <1>1, <2>2
    <2>3. CASE 8 \notin S /\ 4 \notin S /\ 2 \in S
      BY <1>1, <2>3
    <2>4. CASE 8 \notin S /\ 4 \notin S /\ 2 \notin S
      BY <1>1, <2>4
    <2> QED
      BY <2>1, <2>2, <2>3, <2>4
  <1> HIDE DEF S
  <1>3. Max(S) \in S
    BY <1>2 DEF Max
  <1> QED
    BY <1>1, <1>3 DEF LevelOfDetail, S

(* A tile ends where the next of its level of detail begins, or earlier.     *)
LEMMA TilesInOrder ==
    ASSUME NEW w \in Nat, NEW lod \in Nat \ {0}, NEW k \in Int, NEW l \in Int, k < l
    PROVE  /\ TileAt(w, k, lod).right \in Int /\ TileAt(w, l, lod).left \in Int
           /\ TileAt(w, k, lod).right <= TileAt(w, l, lod).left
  <1> DEFINE span == RenderTilePixelSize * lod
             end == (k + 1) * span
             begin == l * span
  <1>1. span \in Nat
    BY ConstantsAssumption
  <1>2. TileAt(w, k, lod).right = Min({end, w}) /\ TileAt(w, l, lod).left = Max({begin, 0})
    BY DEF TileAt
  <1> HIDE DEF span
  <1>3. end \in Int /\ begin \in Int /\ end <= begin
    <2>1. k + 1 \in Int /\ k + 1 <= l /\ span \in Int /\ span >= 0
      BY <1>1
    <2>2. ASSUME NEW i \in Int, NEW j \in Int, i <= j, NEW n \in Int, n >= 0
          PROVE  i * n \in Int /\ j * n \in Int /\ i * n <= j * n
      BY <2>2
    <2> QED
      BY <2>1, <2>2
  <1> HIDE DEF begin, end
  <1>4. Min({end, w}) \in Int /\ Min({end, w}) <= end
    BY <1>3, MinOfTwo
  <1>5. Max({begin, 0}) \in Int /\ Max({begin, 0}) >= begin
    BY <1>3, MaxOfTwo
  <1> QED
    BY <1>2, <1>3, <1>4, <1>5

LEMMA CandidateFacts ==
    ASSUME NEW w \in Width, NEW v \in Viewport, NEW t \in Candidates(w, v)
    PROVE  /\ \E k \in Int : t = TileAt(w, k, LevelOfDetail(v.scale))
           /\ t.left \in Int /\ t.right \in Int /\ t.left < t.right
  <1> DEFINE lod == LevelOfDetail(v.scale)
             span == RenderTilePixelSize * lod
             seen == VisibleSpan(w, v)
             columns == (seen.left \div span) - 1 .. ((seen.right - 1) \div span) + 1
  <1>1. t \in {TileAt(w, k, lod) : k \in columns} /\ t.left < t.right
    BY DEF Candidates
  <1>2. columns \subseteq Int /\ lod \in Nat \ {0} /\ w \in Nat
    BY ConstantsAssumption, LevelOfDetailType
  <1> HIDE DEF lod, columns
  <1>3. PICK k \in columns : t = TileAt(w, k, lod)
    BY <1>1
  <1>4. /\ TileAt(w, k, lod).right \in Int /\ TileAt(w, k, lod).left \in Int
    <2>1. k \in Int /\ k - 1 \in Int /\ k + 1 \in Int /\ k - 1 < k /\ k < k + 1
      BY <1>2
    <2> QED
      BY <1>2, <2>1, TilesInOrder
  <1> QED
    BY <1>1, <1>2, <1>3, <1>4 DEF lod

(* Candidates of one level of detail are the same or apart.                  *)
LEMMA CandidatesLieApart ==
    ASSUME NEW w \in Width, NEW u \in Viewport, NEW v \in Viewport,
           LevelOfDetail(u.scale) = LevelOfDetail(v.scale),
           NEW s \in Candidates(w, u), NEW t \in Candidates(w, v), s # t
    PROVE  ~Overlap(s, t)
  <1> DEFINE lod == LevelOfDetail(v.scale)
  <1>1. PICK k \in Int : s = TileAt(w, k, lod)
    BY CandidateFacts
  <1>2. PICK l \in Int : t = TileAt(w, l, lod)
    BY CandidateFacts
  <1>3. lod \in Nat \ {0} /\ w \in Nat /\ k # l
    BY <1>1, <1>2, ConstantsAssumption, LevelOfDetailType
  <1> HIDE DEF lod
  <1>4. CASE k < l
    <2>1. s.right \in Int /\ t.left \in Int /\ s.right <= t.left
      BY <1>1, <1>2, <1>3, <1>4, TilesInOrder
    <2> QED
      BY <2>1 DEF Overlap
  <1>5. CASE l < k
    <2>1. t.right \in Int /\ s.left \in Int /\ t.right <= s.left
      BY <1>1, <1>2, <1>3, <1>5, TilesInOrder
    <2> QED
      BY <2>1 DEF Overlap
  <1> QED
    BY <1>3, <1>4, <1>5

LEMMA SpanType ==
    ASSUME NEW w \in Width, NEW v \in Viewport
    PROVE  /\ VisibleSpan(w, v).left \in Int /\ VisibleSpan(w, v).right \in Int
           /\ VisibleSpan(w, v).left >= 0 /\ VisibleSpan(w, v).right <= w
  <1> DEFINE begin == v.left
             end == v.left + ItemWidth * v.scale
  <1>1. begin \in Int /\ end \in Int /\ w \in Int
    BY ConstantsAssumption
  <1> HIDE DEF begin, end
  <1>2. Max({begin, 0}) \in Int /\ Max({begin, 0}) >= begin /\ Max({begin, 0}) >= 0
    BY <1>1, MaxOfTwo
  <1>3. Min({end, w}) \in Int /\ Min({end, w}) <= w
    BY <1>1, MinOfTwo
  <1> QED
    BY <1>2, <1>3 DEF VisibleSpan, begin, end

(* The requests are the candidates with less than so many before them.       *)
LEMMA RequestFacts ==
    ASSUME NEW w \in Width, NEW v \in Viewport
    PROVE  \E place \in [Candidates(w, v) -> SUBSET Candidates(w, v)] :
             /\ \A t \in Candidates(w, v) : t \notin place[t]
             /\ VisibleTileRequests(w, v) =
                  IF VisibleSpan(w, v).left >= VisibleSpan(w, v).right THEN {}
                  ELSE {r \in {[tile |-> t, place |-> Cardinality(place[t])] :
                                  t \in Candidates(w, v)} : r.place < MaximumResidentTiles}
  <1> DEFINE seen == VisibleSpan(w, v)
             Distance(t) == LET d == t.left + t.right - seen.left - seen.right
                            IN  IF d < 0 THEN -d ELSE d
             Nearer(t, u) == \/ Distance(t) < Distance(u)
                             \/ Distance(t) = Distance(u) /\ t.left < u.left
             place == [t \in Candidates(w, v) |-> {u \in Candidates(w, v) : Nearer(u, t)}]
  <1>1. VisibleTileRequests(w, v) =
          IF seen.left >= seen.right THEN {}
          ELSE {r \in {[tile |-> t, place |-> Cardinality({u \in Candidates(w, v) : Nearer(u, t)})] :
                          t \in Candidates(w, v)} : r.place < MaximumResidentTiles}
    BY Zenon DEF VisibleTileRequests
  <1>2. ASSUME NEW t \in Candidates(w, v) PROVE ~Nearer(t, t)
    <2>1. t.left \in Int /\ t.right \in Int
      BY CandidateFacts
    <2>2. seen.left \in Int /\ seen.right \in Int
      BY SpanType
    <2> HIDE DEF seen
    <2>3. Distance(t) \in Int
      BY <2>1, <2>2
    <2> HIDE DEF Distance
    <2> QED
      BY <2>1, <2>3
  <1> HIDE DEF Nearer, seen
  <1>3. \A t \in Candidates(w, v) : t \notin place[t]
    BY <1>2
  <1>4. {[tile |-> t, place |-> Cardinality({u \in Candidates(w, v) : Nearer(u, t)})] :
            t \in Candidates(w, v)}
          = {[tile |-> t, place |-> Cardinality(place[t])] : t \in Candidates(w, v)}
    OBVIOUS
  <1>5. place \in [Candidates(w, v) -> SUBSET Candidates(w, v)]
    OBVIOUS
  <1> HIDE DEF place
  <1> QED
    BY <1>1, <1>3, <1>4, <1>5 DEF seen

LEMMA CandidatesFinite ==
    ASSUME NEW w \in Width, NEW v \in Viewport PROVE IsFiniteSet(Candidates(w, v))
  <1> DEFINE lod == LevelOfDetail(v.scale)
             span == RenderTilePixelSize * lod
             seen == VisibleSpan(w, v)
             first == (seen.left \div span) - 1
             last == ((seen.right - 1) \div span) + 1
             tiles == {TileAt(w, k, lod) : k \in first .. last}
             f == [k \in first .. last |-> TileAt(w, k, lod)]
  <1>1. Candidates(w, v) \in SUBSET tiles
    BY DEF Candidates
  <1>2. first \in Int /\ last \in Int
    <2>1. seen.left \in Int /\ seen.right - 1 \in Int
      BY SpanType
    <2>2. span \in Nat \ {0}
      <3>1. lod \in Nat \ {0}
        BY ConstantsAssumption, LevelOfDetailType
      <3> HIDE DEF lod
      <3> QED
        BY <3>1, ConstantsAssumption
    <2> HIDE DEF span, seen
    <2> QED
      BY <2>1, <2>2
  <1> HIDE DEF first, last
  <1>3. IsFiniteSet(first .. last)
    BY <1>2, FS_Interval
  <1>4. f \in [first .. last -> tiles] /\ tiles = {f[k] : k \in first .. last}
    OBVIOUS
  <1> HIDE DEF f, tiles
  <1>5. IsFiniteSet(tiles)
    BY <1>3, <1>4, ImageSize
  <1> QED
    BY <1>1, <1>5, FS_Subset

LEMMA RequestType ==
    ASSUME NEW w \in Width, NEW v \in Viewport
    PROVE  /\ IsFiniteSet(VisibleTileRequests(w, v))
           /\ \A r \in VisibleTileRequests(w, v) : r.tile \in Candidates(w, v) /\ r.place \in Nat
  <1>1. PICK place \in [Candidates(w, v) -> SUBSET Candidates(w, v)] :
          VisibleTileRequests(w, v) \subseteq
            {[tile |-> t, place |-> Cardinality(place[t])] : t \in Candidates(w, v)}
    BY RequestFacts
  <1> DEFINE all == {[tile |-> t, place |-> Cardinality(place[t])] : t \in Candidates(w, v)}
             f == [t \in Candidates(w, v) |-> [tile |-> t, place |-> Cardinality(place[t])]]
  <1>2. IsFiniteSet(Candidates(w, v))
    BY CandidatesFinite
  <1>3. f \in [Candidates(w, v) -> all] /\ all = {f[t] : t \in Candidates(w, v)}
    OBVIOUS
  <1> HIDE DEF f, all
  <1>4. IsFiniteSet(all)
    BY <1>2, <1>3, ImageSize
  <1>5. IsFiniteSet(VisibleTileRequests(w, v))
    <2>1. VisibleTileRequests(w, v) \in SUBSET all
      BY <1>1 DEF all
    <2> QED
      BY <1>4, <2>1, FS_Subset
  <1>6. ASSUME NEW r \in VisibleTileRequests(w, v)
        PROVE  r.tile \in Candidates(w, v) /\ r.place \in Nat
    <2>1. PICK t \in Candidates(w, v) : r = [tile |-> t, place |-> Cardinality(place[t])]
      BY <1>1
    <2>2. Cardinality(place[t]) \in Nat
      BY <1>2, FS_Subset, FS_CardinalityType
    <2> QED
      BY <2>1, <2>2
  <1> QED
    BY <1>5, <1>6

LEMMA RequestsLieApart ==
    ASSUME NEW w \in Width, NEW v \in Viewport PROVE Apart(VisibleTileRequests(w, v))
  <1>1. PICK place : VisibleTileRequests(w, v) \subseteq
                       {[tile |-> t, place |-> Cardinality(place[t])] : t \in Candidates(w, v)}
    BY RequestFacts
  <1> SUFFICES ASSUME NEW r \in VisibleTileRequests(w, v), NEW s \in VisibleTileRequests(w, v),
                      r # s
               PROVE  ~Overlap(r.tile, s.tile)
    BY DEF Apart
  <1>2. PICK t \in Candidates(w, v) : r = [tile |-> t, place |-> Cardinality(place[t])]
    BY <1>1
  <1>3. PICK u \in Candidates(w, v) : s = [tile |-> u, place |-> Cardinality(place[u])]
    BY <1>1
  <1>4. t # u
    BY <1>2, <1>3
  <1> QED
    BY <1>2, <1>3, <1>4, CandidatesLieApart

LEMMA RenumberedApart ==
    ASSUME NEW cache, \A e \in cache : IsTile(e), Apart(cache), NEW n
    PROVE  Apart(Renumbered(cache, n))
  <1> SUFFICES ASSUME NEW a \in Renumbered(cache, n), NEW b \in Renumbered(cache, n), a # b
               PROVE  ~Overlap(a.tile, b.tile)
    BY DEF Apart
  <1>1. PICK c \in cache : a = UsedAs(c, n[c]) /\ a.tile = c.tile
    BY RenumberedFacts
  <1>2. PICK d \in cache : b = UsedAs(d, n[d]) /\ b.tile = d.tile
    BY RenumberedFacts
  <1>3. c # d
    BY <1>1, <1>2
  <1> QED
    BY <1>1, <1>2, <1>3 DEF Apart

LEMMA TilesStart == ASSUME TypeOK, PictureInv, TilesInv, StartScheduledRender PROVE TilesInv'
  <1>1. Apart(tileCache)'
    <2>1. CASE tileCache' = tileCache
      BY <2>1 DEF TilesInv, Apart
    <2>2. CASE tileCache' = Touched(tileCache)
      <3>1. \A e \in tileCache : IsTile(e)
        BY DEF PictureInv, Cached
      <3>2. Apart(Touched(tileCache))
        BY <3>1, TouchedIsRenumbered, RenumberedApart DEF TilesInv
      <3> QED
        BY <2>2, <3>2 DEF Apart
    <2> QED
      BY <2>1, <2>2 DEF StartScheduledRender
  <1>2. CASE UNCHANGED <<rendererVars, payload>>
    BY <1>1, <1>2 DEF TilesInv, Apart, rendererVars
  <1>3. CASE payload'.requests
                = {r \in Requests[width][viewport] : ~HasCachedTile(r.tile)}
    <2>1. width \in Width /\ viewport \in Viewport
      BY DEF TypeOK
    <2>2. Requests[width][viewport] = VisibleTileRequests(width, viewport)
      BY <2>1 DEF Requests
    <2>3. payload'.requests \subseteq VisibleTileRequests(width, viewport)
      BY <1>3, <2>2
    <2>4. Apart(VisibleTileRequests(width, viewport))
      BY <2>1, RequestsLieApart
    <2>5. Apart(payload'.requests)
      BY <2>3, <2>4 DEF Apart
    <2> QED
      BY <1>1, <2>5 DEF TilesInv, Apart
  <1> QED
    BY <1>2, <1>3 DEF StartScheduledRender

(* A result that is accepted, and what it leaves of the cache.               *)
ResultTiles == Results(tileCache, {0})
Mixed == Left(tileCache) \union ResultTiles
KeptTiles == Kept(tileCache, {0}, MaximumResidentTiles)

LEMMA KeptFacts ==
    ASSUME ApplyTiles
    PROVE  /\ KeptTiles \subseteq Mixed
           /\ tileCache' = Renumbered(KeptTiles, Numbering(KeptTiles, LastUses(KeptTiles)))
  BY ReceivedIsRenumbered DEF ApplyTiles, KeptTiles, Mixed, ResultTiles

LEMMA MixedLieApart ==
    ASSUME PictureInv, TilesInv, wanted # 0
    PROVE  Apart(Mixed) /\ \A e \in Mixed : IsTile(e)
  <1>1. ASSUME NEW a \in ResultTiles
        PROVE  \E r \in payload.requests : a = Rendered(0, r, tileCache) /\ a.tile = r.tile
    BY DEF ResultTiles, Results, Rendered
  <1>2. ASSUME NEW a \in ResultTiles, NEW b \in ResultTiles, a # b PROVE ~Overlap(a.tile, b.tile)
    <2>1. Apart(payload.requests)
      BY DEF TilesInv
    <2> QED
      BY <1>1, <1>2, <2>1 DEF Apart
  <1>3. ASSUME NEW a \in Left(tileCache), NEW b \in ResultTiles
        PROVE  ~Overlap(a.tile, b.tile) /\ ~Overlap(b.tile, a.tile)
    <2>1. b.tile \in {r.tile : r \in payload.requests}
      BY <1>1
    <2>2. ~Overlap(a.tile, b.tile)
      BY <2>1 DEF Left, WithoutOverlap
    <2> QED
      BY <2>2 DEF Overlap
  <1>4. ASSUME NEW a \in Left(tileCache), NEW b \in Left(tileCache), a # b
        PROVE  ~Overlap(a.tile, b.tile)
    BY <1>4 DEF Left, WithoutOverlap, TilesInv, Apart
  <1>5. \A e \in Left(tileCache) : IsTile(e)
    BY DEF Left, WithoutOverlap, PictureInv, Cached
  <1>6. \A e \in ResultTiles : IsTile(e)
    BY DEF ResultTiles, Results, Rendered, IsTile
  <1>7. \A a, b \in Mixed : a # b => ~Overlap(a.tile, b.tile)
    BY <1>2, <1>3, <1>4 DEF Mixed
  <1> QED
    BY <1>5, <1>6, <1>7 DEF Mixed, Apart

LEMMA TilesApply == ASSUME PictureInv, TilesInv, ApplyAsyncRender PROVE TilesInv'
  <1>1. wanted # 0 /\ wanted' = 0
    BY DEF ApplyAsyncRender, Renderer!Deliver
  <1>2. CASE UNCHANGED cacheVars
    BY <1>1, <1>2 DEF TilesInv, Apart, cacheVars
  <1>3. CASE AcceptsResult /\ ApplyTiles
    <2> DEFINE n == Numbering(KeptTiles, LastUses(KeptTiles))
    <2>1. KeptTiles \subseteq Mixed /\ tileCache' = Renumbered(KeptTiles, n)
      BY <1>3, KeptFacts
    <2>2. Apart(KeptTiles) /\ \A e \in KeptTiles : IsTile(e)
      <3>1. Apart(Mixed) /\ \A e \in Mixed : IsTile(e)
        BY <1>1, MixedLieApart
      <3> QED
        BY <2>1, <3>1 DEF Apart
    <2> HIDE DEF n
    <2>3. Apart(Renumbered(KeptTiles, n))
      BY <2>2, RenumberedApart
    <2> QED
      BY <1>1, <2>1, <2>3 DEF TilesInv, Apart
  <1> QED
    BY <1>2, <1>3 DEF ApplyAsyncRender

(* The other calls drop tiles or the request.                                *)
LEMMA TilesKept ==
    ASSUME TilesInv, [Next]_vars, ~StartScheduledRender, ~ApplyAsyncRender PROVE TilesInv'
  <1>1. /\ tileCache' \in {{}, tileCache}
        /\ wanted' # 0 => wanted # 0 /\ payload' = payload
    <2>1. CASE UNCHANGED vars
      BY <2>1 DEF vars, rendererVars, cacheVars
    <2>2. CASE Bind \/ Unbind \/ FileGoes \/ DocumentChanges
      BY <2>2 DEF Bind, Unbind, FileGoes, DocumentChanges, ClearTileCache, Renderer!Withdraw,
         rendererVars, cacheVars
    <2>3. CASE Refresh \/ EditDocument
      BY <2>3 DEF Refresh, EditDocument, ShowNewContent, ClearTileCache, Renderer!Withdraw,
         rendererVars
    <2>4. CASE RefreshPreview \/ SetFrame \/ SetSmoothRendering \/ SetRenderArtboardId
      BY <2>4 DEF RefreshPreview, SetFrame, SetSmoothRendering, SetRenderArtboardId,
         ClearTileCache, Renderer!Withdraw, rendererVars
    <2>5. CASE MoveViewport
      BY <2>5 DEF MoveViewport, rendererVars, cacheVars
    <2> QED
      BY <2>1, <2>2, <2>3, <2>4, <2>5 DEF Next
  <1> QED
    BY <1>1 DEF TilesInv, Apart

LEMMA TilesInvariance == Spec => [](ViewInv /\ PictureInv /\ TilesInv)
  <1>1. Init => TilesInv
    BY DEF Init, Renderer!Init, TilesInv, Apart
  <1>2. ViewInv /\ PictureInv /\ TilesInv /\ [Next]_vars => TilesInv'
    BY TilesStart, TilesApply, TilesKept DEF ViewInv
  <1> QED
    BY <1>1, <1>2, PictureInvariance, PTL DEF Spec

(* The tiles of the scene graph never overlap, of whatever generation and    *)
(* level of detail they are (CanvasItem::applyAsyncRender drops what a new   *)
(* tile overlaps; visibleTileRequests lays the tiles side by side).          *)
THEOREM TilesDoNotOverlapCorrect == Spec => []TilesDoNotOverlap
  <1>1. TilesInv => TilesDoNotOverlap
    BY DEF TilesInv, Apart, TilesDoNotOverlap
  <1> QED
    BY <1>1, TilesInvariance, PTL

-----------------------------------------------------------------------------
(* Numbering keeps the tiles apart and their order.                          *)

(* The numbers of a numbering keep the order of the uses.                    *)
LEMMA NumberingFacts ==
    ASSUME NEW cache, IsFiniteSet(cache), NEW use \in [cache -> Int]
    PROVE  /\ \A e \in cache : Numbering(cache, use)[e] \in 1 .. Cardinality(cache)
           /\ \A d, e \in cache :
                use[d] < use[e] => Numbering(cache, use)[d] < Numbering(cache, use)[e]
  <1> DEFINE Before(e) == {f \in cache : use[f] <= use[e]}
  <1>1. ASSUME NEW e \in cache
        PROVE  /\ IsFiniteSet(Before(e)) /\ Cardinality(Before(e)) \in 1 .. Cardinality(cache)
               /\ Numbering(cache, use)[e] = Cardinality(Before(e))
    <2>1. Before(e) \in SUBSET cache /\ e \in Before(e)
      OBVIOUS
    <2>2. Numbering(cache, use)[e] = Cardinality(Before(e))
      BY DEF Numbering
    <2> HIDE DEF Before
    <2>3. IsFiniteSet(Before(e)) /\ Cardinality(Before(e)) <= Cardinality(cache)
      BY <2>1, FS_Subset
    <2>4. Cardinality(Before(e)) \in Nat /\ Cardinality(cache) \in Nat
      BY <2>3, FS_CardinalityType
    <2>5. Cardinality(Before(e)) # 0
      BY <2>1, <2>3, FS_EmptySet
    <2> QED
      BY <2>2, <2>3, <2>4, <2>5
  <1>2. ASSUME NEW d \in cache, NEW e \in cache, use[d] < use[e]
        PROVE  Cardinality(Before(d)) < Cardinality(Before(e))
    <2>1. use[d] \in Int /\ use[e] \in Int
      OBVIOUS
    <2>2. Before(d) \in SUBSET Before(e)
      BY <1>2
    <2>3. e \in Before(e) /\ e \notin Before(d)
      BY <1>2, <2>1
    <2> HIDE DEF Before
    <2>4. /\ Cardinality(Before(d)) <= Cardinality(Before(e))
          /\ Cardinality(Before(e)) # Cardinality(Before(d))
      BY <1>1, <2>2, <2>3, FS_Subset
    <2>5. Cardinality(Before(d)) \in Int /\ Cardinality(Before(e)) \in Int
      BY <1>1
    <2> QED
      BY <2>4, <2>5
  <1> QED
    BY <1>1, <1>2

NotEmpty(e) == e.tile.left \in Int /\ e.tile.right \in Int /\ e.tile.left < e.tile.right

(* Tiles that lie apart are told from each other by where they lie.          *)
LEMMA TilesDiffer ==
    ASSUME NEW S, Apart(S), NEW a \in S, NEW b \in S, NotEmpty(a), a.tile = b.tile
    PROVE  a = b
  BY DEF Apart, Overlap, NotEmpty

LEMMA RenumberedSize ==
    ASSUME NEW cache, IsFiniteSet(cache), Apart(cache),
           \A e \in cache : IsTile(e) /\ NotEmpty(e), NEW n
    PROVE  /\ IsFiniteSet(Renumbered(cache, n))
           /\ Cardinality(Renumbered(cache, n)) = Cardinality(cache)
  <1> DEFINE f == [e \in cache |-> UsedAs(e, n[e])]
  <1>1. Renumbered(cache, n) = {f[e] : e \in cache}
    BY DEF Renumbered
  <1>2. ASSUME NEW a \in cache, NEW b \in cache, f[a] = f[b] PROVE a = b
    <2>1. a.tile = b.tile
      BY <1>2, UsedAsFacts
    <2> QED
      BY <2>1, TilesDiffer
  <1>3. f \in [cache -> Renumbered(cache, n)]
    BY DEF Renumbered
  <1> HIDE DEF f
  <1>4. /\ IsFiniteSet(Renumbered(cache, n))
        /\ (\A a, b \in cache : f[a] = f[b] => a = b)
             => Cardinality(Renumbered(cache, n)) = Cardinality(cache)
    BY <1>1, <1>3, ImageSize
  <1> QED
    BY <1>2, <1>4

-----------------------------------------------------------------------------
(* The requests of a viewport cover what is seen of the document.            *)

LEMMA DivisionFacts ==
    ASSUME NEW x \in Int, NEW n \in Nat \ {0}
    PROVE  x \div n \in Int /\ (x \div n) * n <= x /\ x < (x \div n + 1) * n
  OBVIOUS

LEMMA DivisionOrder ==
    ASSUME NEW x \in Int, NEW y \in Int, x <= y, NEW n \in Nat \ {0}
    PROVE  x \div n <= y \div n
  <1> DEFINE i == x \div n
             j == y \div n
  <1>1. i \in Int /\ i * n <= x
    BY DivisionFacts
  <1>2. j \in Int /\ y < (j + 1) * n
    BY DivisionFacts
  <1> HIDE DEF i, j
  <1>3. i * n < (j + 1) * n
    BY <1>1, <1>2
  <1>4. i < j + 1
    <2>1. ASSUME NEW k \in Int, k <= i PROVE k * n <= i * n
      BY <1>1, <2>1
    <2> QED
      BY <1>1, <1>2, <1>3, <2>1
  <1> QED
    BY <1>1, <1>2, <1>4 DEF i, j

LEMMA TileOfPixel ==
    ASSUME NEW w \in Width, NEW v \in Viewport,
           NEW x \in VisibleSpan(w, v).left .. VisibleSpan(w, v).right - 1
    PROVE  \E t \in Candidates(w, v) : t.left <= x /\ x < t.right
  <1> DEFINE lod == LevelOfDetail(v.scale)
             span == RenderTilePixelSize * lod
             begin == VisibleSpan(w, v).left
             end == VisibleSpan(w, v).right
             k == x \div span
             columns == (begin \div span) - 1 .. ((end - 1) \div span) + 1
             t == TileAt(w, k, lod)
  <1>1. begin \in Int /\ end \in Int /\ begin >= 0 /\ end <= w /\ w \in Nat
    BY ConstantsAssumption, SpanType
  <1>2. span \in Nat \ {0}
    <2>1. lod \in Nat \ {0}
      BY ConstantsAssumption, LevelOfDetailType
    <2> HIDE DEF lod
    <2> QED
      BY <2>1, ConstantsAssumption
  <1>3. Candidates(w, v) = {s \in {TileAt(w, l, lod) : l \in columns} : s.left < s.right}
    BY DEF Candidates
  <1>4. x \in begin .. end - 1
    OBVIOUS
  <1>5. t.left = Max({k * span, 0}) /\ t.right = Min({(k + 1) * span, w})
    BY DEF TileAt
  <1> HIDE DEF begin, end, lod, span, t
  <1>6. x \in Int /\ begin <= x /\ x <= end - 1 /\ x >= 0 /\ x < w /\ end - 1 \in Int
    BY <1>1, <1>4
  <1>7. k \in Int /\ k * span <= x /\ x < (k + 1) * span
    BY <1>2, <1>6, DivisionFacts
  <1>8. k \in columns
    <2>1. begin \div span <= x \div span /\ x \div span <= (end - 1) \div span
      BY <1>1, <1>2, <1>6, DivisionOrder
    <2>2. begin \div span \in Int /\ (end - 1) \div span \in Int
      BY <1>1, <1>2, <1>6, DivisionFacts
    <2> QED
      BY <1>7, <2>1, <2>2
  <1> HIDE DEF k
  <1>9. t.left <= x /\ x < t.right
    <2> DEFINE a == k * span
               b == (k + 1) * span
    <2>1. a \in Int /\ b \in Int /\ a <= x /\ x < b
      BY <1>2, <1>7
    <2> HIDE DEF a, b
    <2>2. Max({a, 0}) \in {a, 0}
      <3>1. \E m \in {a, 0} : \A l \in {a, 0} : m >= l
        BY <2>1
      <3> QED
        BY <3>1 DEF Max
    <2>3. Min({b, w}) \in {b, w}
      <3>1. \E m \in {b, w} : \A l \in {b, w} : m <= l
        BY <1>1, <2>1
      <3> QED
        BY <3>1 DEF Min
    <2>4. t.left \in {a, 0} /\ t.right \in {b, w}
      BY <1>5, <2>2, <2>3 DEF a, b
    <2> QED
      BY <1>6, <2>1, <2>4
  <1>10. t \in Candidates(w, v)
    <2>1. t.left \in Int /\ t.right \in Int
      <3>1. k - 1 \in Int /\ k + 1 \in Int /\ k - 1 < k /\ k < k + 1
        BY <1>7
      <3>2. lod \in Nat \ {0}
        BY ConstantsAssumption, LevelOfDetailType DEF lod
      <3> QED
        BY <1>1, <1>7, <3>1, <3>2, TilesInOrder DEF t
    <2>2. t.left < t.right
      BY <1>6, <1>9, <2>1
    <2> QED
      BY <1>3, <1>8, <2>2 DEF t
  <1> QED
    BY <1>9, <1>10

(* A cache with room for the candidates is asked for all of them.            *)
LEMMA AllIsRequested ==
    ASSUME NEW w \in Width, NEW v \in Viewport,
           Cardinality(Candidates(w, v)) <= MaximumResidentTiles,
           VisibleSpan(w, v).left < VisibleSpan(w, v).right, NEW t \in Candidates(w, v)
    PROVE  \E r \in VisibleTileRequests(w, v) : r.tile = t
  <1> DEFINE all == Candidates(w, v)
  <1>1. PICK place \in [all -> SUBSET all] :
             /\ t \notin place[t]
             /\ VisibleTileRequests(w, v) =
                  IF VisibleSpan(w, v).left >= VisibleSpan(w, v).right THEN {}
                  ELSE {r \in {[tile |-> s, place |-> Cardinality(place[s])] : s \in all} :
                          r.place < MaximumResidentTiles}
    BY RequestFacts
  <1>2. ~(VisibleSpan(w, v).left >= VisibleSpan(w, v).right)
    <2>1. VisibleSpan(w, v).left \in Int /\ VisibleSpan(w, v).right \in Int
      BY SpanType
    <2> QED
      BY <2>1
  <1>3. IsFiniteSet(all)
    BY CandidatesFinite
  <1> HIDE DEF all
  <1>4. place[t] \in SUBSET all /\ t \in all
    BY <1>1 DEF all
  <1>5. IsFiniteSet(place[t]) /\ Cardinality(place[t]) <= Cardinality(all)
          /\ Cardinality(all) # Cardinality(place[t])
    BY <1>1, <1>3, <1>4, FS_Subset
  <1>6. Cardinality(place[t]) \in Nat /\ Cardinality(all) \in Nat
    BY <1>3, <1>5, FS_CardinalityType
  <1>7. Cardinality(place[t]) < MaximumResidentTiles
    BY <1>5, <1>6, ConstantsAssumption DEF all
  <1> DEFINE r == [tile |-> t, place |-> Cardinality(place[t])]
  <1>8. r \in VisibleTileRequests(w, v)
    BY <1>1, <1>2, <1>4, <1>7
  <1> QED
    BY <1>8

-----------------------------------------------------------------------------
(* When nothing is under way, the view is complete.  This holds while the    *)
(* view stays at one level of detail, and the cache has room for the tiles   *)
(* of two viewports: the one that is shown, and an earlier one whose result  *)
(* comes in late.                                                            *)

OneLevelOfDetail == \A u, v \in Viewport : LevelOfDetail(u.scale) = LevelOfDetail(v.scale)

RoomForTwo ==
    \A w \in Width, u, v \in Viewport :
        Cardinality(Candidates(w, u) \union Candidates(w, v)) <= MaximumResidentTiles

Wanted == Requests[width][viewport]
InUse(e) == \E r \in Wanted : IsCurrent(e, r.tile)
Answers(tile) == \E r \in payload.requests : r.tile = tile
AnswerIsCurrent == wanted # 0 /\ payload.generation = generation

(* Cached tiles are numbered by their last uses.                             *)
CacheInv ==
    /\ IsFiniteSet(tileCache)
    /\ \A e \in tileCache :
            NotEmpty(e) /\ e.layer \in Nat /\ e.lastUse \in 1 .. Cardinality(tileCache)

(* The newest request asked for tiles of one viewport.                       *)
RequestInv ==
    AnswerIsCurrent => \E u \in Viewport : payload.requests \subseteq Requests[width][u]

UsedLast == \A d, e \in tileCache : InUse(e) /\ ~InUse(d) => d.lastUse < e.lastUse

(* What the viewport wants is there, or will be with the answer to the       *)
(* newest request; until then nothing was used after it.                     *)
CompleteInv ==
    (DocumentReady /\ ~pending) =>
        /\ failed \/ \A r \in Wanted : HasCachedTile(r.tile) \/ (AnswerIsCurrent /\ Answers(r.tile))
        /\ wanted # 0 => UsedLast

LEMMA WantedFacts ==
    ASSUME TypeOK
    PROVE  /\ Wanted = VisibleTileRequests(width, viewport)
           /\ \A r \in Wanted : r.tile \in Candidates(width, viewport) /\ r.place \in Nat
  <1>1. width \in Width /\ viewport \in Viewport
    BY DEF TypeOK
  <1>2. Wanted = VisibleTileRequests(width, viewport)
    BY <1>1 DEF Wanted, Requests
  <1> QED
    BY <1>1, <1>2, RequestType

(* A scheduled render uses what the viewport wants after all the rest.       *)
LEMMA TouchUsesFacts ==
    ASSUME TypeOK, CacheInv
    PROVE  /\ TouchUses(tileCache) \in [tileCache -> Int]
           /\ \A e \in tileCache : IF InUse(e)
                                   THEN TouchUses(tileCache)[e] > Cardinality(tileCache)
                                   ELSE TouchUses(tileCache)[e] = e.lastUse
  <1> DEFINE Hits(e) == {r \in Wanted : IsCurrent(e, r.tile) /\ HasCachedTile(r.tile)}
             hit(e) == CHOOSE r \in Hits(e) : TRUE
             use == TouchUses(tileCache)
             size == Cardinality(tileCache)
  <1>1. use = [e \in tileCache |-> IF Hits(e) = {} THEN e.lastUse
                                   ELSE size + 1 + e.layer + (Layers + 1) * hit(e).place]
    BY Zenon DEF TouchUses, Wanted
  <1>2. \A e \in tileCache : Hits(e) = {} <=> ~InUse(e)
    BY DEF InUse, HasCachedTile
  <1>3. ASSUME NEW e \in tileCache, Hits(e) # {} PROVE hit(e).place \in Nat
    <2>1. hit(e) \in Hits(e)
      BY <1>3
    <2> HIDE DEF hit
    <2> QED
      BY <2>1, WantedFacts
  <1>4. size \in Nat /\ Layers \in Nat
    BY FS_CardinalityType, ConstantsAssumption DEF CacheInv
  <1>5. \A e \in tileCache : e.layer \in Nat /\ e.lastUse \in Int
    BY <1>4 DEF CacheInv
  <1> HIDE DEF hit, Hits, use, size
  <1>6. ASSUME NEW e \in tileCache, Hits(e) # {}
        PROVE  use[e] \in Int /\ use[e] > size
    <2> DEFINE later == (Layers + 1) * hit(e).place
    <2>1. later \in Nat
      BY <1>3, <1>4, <1>6
    <2>2. use[e] = size + 1 + e.layer + later
      BY <1>1, <1>6
    <2> HIDE DEF later
    <2> QED
      BY <1>4, <1>5, <2>1, <2>2
  <1>7. ASSUME NEW e \in tileCache, Hits(e) = {}
        PROVE  use[e] \in Int /\ use[e] = e.lastUse
    BY <1>1, <1>5, <1>7
  <1>8. use \in [tileCache -> Int]
    BY <1>1, <1>6, <1>7
  <1> QED
    BY <1>2, <1>6, <1>7, <1>8 DEF use, size

LEMMA CacheNumbered ==
    ASSUME NEW cache, IsFiniteSet(cache), Apart(cache),
           \A e \in cache : IsTile(e) /\ NotEmpty(e) /\ e.layer \in Nat,
           NEW use \in [cache -> Int],
           tileCache' = Renumbered(cache, Numbering(cache, use))
    PROVE  CacheInv'
  <1> DEFINE n == Numbering(cache, use)
  <1>1. IsFiniteSet(tileCache') /\ Cardinality(tileCache') = Cardinality(cache)
    BY RenumberedSize
  <1>2. \A e \in cache : n[e] \in 1 .. Cardinality(cache)
    BY NumberingFacts
  <1> HIDE DEF n
  <1>3. ASSUME NEW d \in tileCache'
        PROVE  NotEmpty(d) /\ d.layer \in Nat /\ d.lastUse \in 1 .. Cardinality(tileCache')
    <2>1. PICK e \in cache : d.lastUse = n[e] /\ d.layer = e.layer /\ d.tile = e.tile
      BY RenumberedFacts DEF n
    <2> QED
      BY <1>1, <1>2, <2>1 DEF NotEmpty
  <1> QED
    BY <1>1, <1>3 DEF CacheInv, NotEmpty

LEMMA CacheStart ==
    ASSUME TypeOK, PictureInv, TilesInv, CacheInv, StartScheduledRender PROVE CacheInv'
  <1>1. CASE tileCache' = tileCache
    BY <1>1 DEF CacheInv, NotEmpty
  <1>2. CASE tileCache' = Touched(tileCache)
    <2>1. tileCache' = Renumbered(tileCache, Numbering(tileCache, TouchUses(tileCache)))
      BY <1>2, TouchedIsRenumbered
    <2>2. IsFiniteSet(tileCache) /\ Apart(tileCache)
            /\ \A e \in tileCache : IsTile(e) /\ NotEmpty(e) /\ e.layer \in Nat
      BY DEF PictureInv, Cached, TilesInv, CacheInv
    <2> QED
      BY <2>1, <2>2, TouchUsesFacts, CacheNumbered
  <1> QED
    BY <1>1, <1>2 DEF StartScheduledRender

LEMMA ResultFacts ==
    ASSUME TypeOK, CacheInv, NEW u \in Viewport, payload.requests \subseteq Requests[width][u]
    PROVE  /\ IsFiniteSet(ResultTiles)
           /\ \A e \in ResultTiles :
                /\ IsTile(e) /\ NotEmpty(e) /\ e.layer \in Nat
                /\ e.lastUse \in Int /\ e.lastUse > Cardinality(tileCache)
                /\ \E r \in payload.requests : e.tile = r.tile
                /\ e.tile \in Candidates(width, u)
  <1> DEFINE f == [r \in payload.requests |-> Rendered(0, r, tileCache)]
  <1>1. width \in Width /\ Requests[width][u] = VisibleTileRequests(width, u)
    BY DEF TypeOK, Requests
  <1>2. IsFiniteSet(payload.requests)
    BY <1>1, RequestType, FS_Subset
  <1>3. ResultTiles = {Rendered(0, r, tileCache) : r \in payload.requests}
    BY DEF ResultTiles, Results
  <1>4. f \in [payload.requests -> ResultTiles] /\ ResultTiles = {f[r] : r \in payload.requests}
    BY <1>3
  <1> HIDE DEF f
  <1>5. IsFiniteSet(ResultTiles)
    BY <1>2, <1>4, ImageSize
  <1>6. ASSUME NEW e \in ResultTiles
        PROVE  /\ IsTile(e) /\ NotEmpty(e) /\ e.layer \in Nat
               /\ e.lastUse \in Int /\ e.lastUse > Cardinality(tileCache)
               /\ \E r \in payload.requests : e.tile = r.tile
               /\ e.tile \in Candidates(width, u)
    <2>1. PICK r \in payload.requests : e = Rendered(0, r, tileCache)
      BY <1>3
    <2>2. r.tile \in Candidates(width, u) /\ r.place \in Nat
      BY <1>1, RequestType
    <2>3. Cardinality(tileCache) \in Nat
      BY FS_CardinalityType DEF CacheInv
    <2>4. e = [layer |-> 0, tile |-> r.tile, generation |-> generation, look |-> payload.look,
               lastUse |-> Cardinality(tileCache) + 1 + 0 * MaximumResidentTiles + r.place]
      BY <2>1 DEF Rendered
    <2>5. NotEmpty(e)
      BY <1>1, <2>2, <2>4, CandidateFacts DEF NotEmpty
    <2> DEFINE last == Cardinality(tileCache) + 1 + 0 * MaximumResidentTiles + r.place
    <2>6. last \in Int /\ last > Cardinality(tileCache)
      BY <2>2, <2>3, ConstantsAssumption
    <2> HIDE DEF last
    <2> QED
      BY <2>2, <2>4, <2>5, <2>6 DEF IsTile, last
  <1> QED
    BY <1>5, <1>6

LEMMA CacheApply ==
    ASSUME TypeOK, PictureInv, TilesInv, CacheInv, RequestInv, ApplyAsyncRender
    PROVE  CacheInv'
  <1>1. wanted # 0
    BY DEF ApplyAsyncRender, Renderer!Deliver
  <1>2. CASE UNCHANGED cacheVars
    BY <1>2 DEF CacheInv, NotEmpty, cacheVars
  <1>3. CASE AcceptsResult /\ ApplyTiles
    <2>1. PICK u \in Viewport : payload.requests \subseteq Requests[width][u]
      BY <1>1, <1>3 DEF RequestInv, AnswerIsCurrent, AcceptsResult
    <2>2. /\ IsFiniteSet(ResultTiles)
          /\ \A e \in ResultTiles :
                IsTile(e) /\ NotEmpty(e) /\ e.layer \in Nat /\ e.lastUse \in Int
      BY <2>1, ResultFacts
    <2>3. IsFiniteSet(tileCache) /\ Left(tileCache) \in SUBSET tileCache
      BY DEF CacheInv, Left, WithoutOverlap
    <2>4. \A e \in Left(tileCache) :
                IsTile(e) /\ NotEmpty(e) /\ e.layer \in Nat /\ e.lastUse \in Int
      BY <2>3 DEF CacheInv, PictureInv, Cached
    <2>5. IsFiniteSet(Mixed)
      BY <2>2, <2>3, FS_Subset, FS_Union DEF Mixed
    <2>6. KeptTiles \in SUBSET Mixed
            /\ tileCache' = Renumbered(KeptTiles, Numbering(KeptTiles, LastUses(KeptTiles)))
      BY <1>3, KeptFacts
    <2>7. IsFiniteSet(KeptTiles)
      BY <2>5, <2>6, FS_Subset
    <2>8. Apart(KeptTiles)
      <3>1. Apart(Mixed)
        BY <1>1, MixedLieApart
      <3> QED
        BY <2>6, <3>1 DEF Apart
    <2>9. \A e \in KeptTiles :
                IsTile(e) /\ NotEmpty(e) /\ e.layer \in Nat /\ e.lastUse \in Int
      BY <2>2, <2>4, <2>6 DEF Mixed
    <2>10. LastUses(KeptTiles) \in [KeptTiles -> Int]
      BY <2>9 DEF LastUses
    <2> QED
      BY <2>6, <2>7, <2>8, <2>9, <2>10, CacheNumbered
  <1> QED
    BY <1>2, <1>3 DEF ApplyAsyncRender

(* The other calls keep or clear the cache, keep or outdate the request, and *)
(* schedule a render, make the view unready, or change nothing of all this.  *)
LEMMA OtherSteps ==
    ASSUME TypeOK, PictureInv, [Next]_vars, ~StartScheduledRender, ~ApplyAsyncRender
    PROVE  /\ tileCache' \in {{}, tileCache}
           /\ AnswerIsCurrent' => AnswerIsCurrent /\ payload' = payload /\ width' = width
           /\ \/ pending' \/ ~DocumentReady'
              \/ /\ DocumentReady /\ ~pending
                 /\ UNCHANGED <<width, viewport, generation, wanted, payload, failed, tileCache>>
  <1>1. CASE UNCHANGED vars
    BY <1>1 DEF vars, documentVars, rendererVars, cacheVars, AnswerIsCurrent, DocumentReady
  <1>2. CASE FileGoes \/ DocumentChanges
    BY <1>2 DEF FileGoes, DocumentChanges, rendererVars, cacheVars, AnswerIsCurrent, DocumentReady
  <1>3. CASE Unbind
    BY <1>3 DEF Unbind, ClearTileCache, Renderer!Withdraw, AnswerIsCurrent, DocumentReady
  <1>4. CASE Refresh /\ ~ShowNewContent
    BY <1>4 DEF Refresh, ClearTileCache, Renderer!Withdraw, AnswerIsCurrent, DocumentReady,
       documentVars, rendererVars
  <1>5. CASE MoveViewport
    <2>1. pending' \/ ~DocumentReady'
      BY <1>5 DEF MoveViewport, Schedule, TypeOK, DocumentReady, documentVars
    <2>2. tileCache' = tileCache /\ AnswerIsCurrent' = AnswerIsCurrent
            /\ payload' = payload /\ width' = width
      BY <1>5 DEF MoveViewport, AnswerIsCurrent, documentVars, rendererVars, cacheVars
    <2> QED
      BY <2>1, <2>2
  <1>6. CASE \/ Bind \/ (Refresh /\ ShowNewContent) \/ EditDocument \/ RefreshPreview
             \/ SetFrame \/ SetSmoothRendering \/ SetRenderArtboardId
    <2>1. NextGeneration /\ tileCache' \in {{}, tileCache}
      BY <1>6 DEF Bind, Refresh, EditDocument, RefreshPreview, SetFrame, SetSmoothRendering,
         SetRenderArtboardId, ShowNewContent, ClearTileCache
    <2>2. pending' \/ ~DocumentReady'
      <3>1. CASE Bind \/ (Refresh /\ ShowNewContent) \/ EditDocument \/ RefreshPreview
        BY <3>1 DEF Bind, Refresh, EditDocument, RefreshPreview, ShowNewContent, Schedule, TypeOK
      <3>2. CASE SetFrame \/ SetSmoothRendering \/ SetRenderArtboardId
        BY <3>2 DEF SetFrame, SetSmoothRendering, SetRenderArtboardId, Schedule, TypeOK,
           DocumentReady, documentVars
      <3> QED
        BY <1>6, <3>1, <3>2
    <2>3. wanted' # 0 => wanted # 0 /\ payload' = payload
      BY <1>6 DEF Bind, Refresh, EditDocument, RefreshPreview, SetFrame, SetSmoothRendering,
         SetRenderArtboardId, ShowNewContent, Renderer!Withdraw, rendererVars
    <2>4. ~AnswerIsCurrent'
      <3> SUFFICES ASSUME wanted' # 0 PROVE payload'.generation # generation'
        BY DEF AnswerIsCurrent
      <3>1. payload' = payload /\ payload.generation \in 0 .. generation
        BY <2>3 DEF PictureInv, IsTrue
      <3>2. generation \in Nat /\ generation' = generation + 1
        BY <2>1, ConstantsAssumption DEF TypeOK, NextGeneration
      <3> QED
        BY <3>1, <3>2
    <2> QED
      BY <2>1, <2>2, <2>4
  <1> QED
    BY <1>1, <1>2, <1>3, <1>4, <1>5, <1>6 DEF Next

LEMMA CacheStep ==
    ASSUME TypeOK, PictureInv, TilesInv, CacheInv, RequestInv, [Next]_vars PROVE CacheInv'
  <1>1. ASSUME tileCache' \in {{}, tileCache} PROVE CacheInv'
    <2>1. IsFiniteSet({})
      BY FS_EmptySet
    <2> QED
      BY <1>1, <2>1 DEF CacheInv, NotEmpty
  <1> QED
    BY <1>1, CacheStart, CacheApply, OtherSteps

LEMMA RequestStep ==
    ASSUME TypeOK, PictureInv, RequestInv, [Next]_vars PROVE RequestInv'
  <1>1. CASE StartScheduledRender
    <2>1. width' = width /\ generation' = generation /\ viewport \in Viewport
      BY <1>1 DEF StartScheduledRender, documentVars, TypeOK
    <2>2. CASE UNCHANGED <<rendererVars, payload>>
      BY <2>1, <2>2 DEF RequestInv, AnswerIsCurrent, rendererVars
    <2>3. CASE payload'.requests = {r \in Requests[width][viewport] : ~HasCachedTile(r.tile)}
      BY <2>1, <2>3 DEF RequestInv, Requests
    <2> QED
      BY <1>1, <2>2, <2>3 DEF StartScheduledRender
  <1>2. CASE ApplyAsyncRender
    BY <1>2 DEF ApplyAsyncRender, Renderer!Deliver, RequestInv, AnswerIsCurrent
  <1>3. CASE AnswerIsCurrent' => AnswerIsCurrent /\ payload' = payload /\ width' = width
    BY <1>3 DEF RequestInv, Requests
  <1> QED
    BY <1>1, <1>2, <1>3, OtherSteps

LEMMA CompleteStart ==
    ASSUME TypeOK, PictureInv, TilesInv, CacheInv, CompleteInv, StartScheduledRender
    PROVE  CompleteInv'
  <1>1. Wanted' = Wanted /\ generation' = generation /\ DocumentReady' = DocumentReady
    BY DEF StartScheduledRender, Wanted, Requests, documentVars, DocumentReady
  <1>2. CASE ~(pending /\ DocumentReady)
    <2>1. UNCHANGED <<tileCache, wanted, payload, failed>> /\ (DocumentReady => ~pending)
      BY <1>2 DEF StartScheduledRender, rendererVars
    <2> QED
      BY <1>1, <2>1
         DEF CompleteInv, HasCachedTile, IsCurrent, AnswerIsCurrent, Answers, InUse, UsedLast
  <1>3. CASE pending /\ DocumentReady
    <2> DEFINE use == TouchUses(tileCache)
               n == Numbering(tileCache, use)
               missing == {r \in Wanted : ~HasCachedTile(r.tile)}
    <2>1. /\ tileCache' = Renumbered(tileCache, n)
          /\ missing # {} => /\ wanted' = asked + 1
                             /\ payload'.generation = generation /\ payload'.requests = missing
      BY <1>3, TouchedIsRenumbered DEF StartScheduledRender, Renderer!Ask, Wanted
    <2>2. \A e \in tileCache : IsTile(e)
      BY DEF PictureInv, Cached
    <2>3. ASSUME NEW r \in Wanted, HasCachedTile(r.tile) PROVE HasCachedTile(r.tile)'
      <3>1. PICK e \in tileCache : IsCurrent(e, r.tile)
        BY <2>3 DEF HasCachedTile
      <3>2. UsedAs(e, n[e]) \in tileCache'
        BY <2>1 DEF Renumbered
      <3>3. UsedAs(e, n[e]).tile = e.tile /\ UsedAs(e, n[e]).generation = e.generation
        BY <2>2, UsedAsFacts
      <3> QED
        BY <1>1, <3>1, <3>2, <3>3 DEF HasCachedTile, IsCurrent
    <2>4. ASSUME NEW r \in Wanted, ~HasCachedTile(r.tile)
          PROVE  (AnswerIsCurrent /\ Answers(r.tile))'
      <3>1. r \in missing
        BY <2>4
      <3>2. wanted' # 0
        BY <2>1, <3>1 DEF TypeOK
      <3> QED
        BY <1>1, <2>1, <3>1, <3>2 DEF AnswerIsCurrent, Answers
    <2>5. UsedLast'
      <3> SUFFICES ASSUME NEW d \in tileCache', NEW e \in tileCache', InUse(e)', ~InUse(d)'
                   PROVE  d.lastUse < e.lastUse
        BY DEF UsedLast
      <3> HIDE DEF use
      <3>1. PICK c \in tileCache : /\ d.lastUse = n[c]
                                   /\ d.tile = c.tile /\ d.generation = c.generation
        BY <2>1, <2>2, RenumberedFacts
      <3>2. PICK f \in tileCache : /\ e.lastUse = n[f]
                                   /\ e.tile = f.tile /\ e.generation = f.generation
        BY <2>1, <2>2, RenumberedFacts
      <3>3. InUse(f) /\ ~InUse(c)
        BY <1>1, <3>1, <3>2 DEF InUse, IsCurrent
      <3>4. use \in [tileCache -> Int] /\ use[f] > Cardinality(tileCache) /\ use[c] = c.lastUse
        BY <3>3, TouchUsesFacts DEF use
      <3>5. c.lastUse \in 1 .. Cardinality(tileCache) /\ Cardinality(tileCache) \in Nat
        BY FS_CardinalityType DEF CacheInv
      <3>6. use[c] < use[f]
        BY <3>4, <3>5
      <3>7. n[c] < n[f]
        BY <3>4, <3>6, NumberingFacts DEF CacheInv
      <3> QED
        BY <3>1, <3>2, <3>7
    <2> QED
      BY <1>1, <2>3, <2>4, <2>5 DEF CompleteInv, UsedLast
  <1> QED
    BY <1>2, <1>3

(* What is wanted and what arrives is not trimmed: it was used last, and     *)
(* there is room for it.                                                     *)
LEMMA UsedIsKept ==
    ASSUME TypeOK, PictureInv, TilesInv, CacheInv, UsedLast, RoomForTwo, wanted # 0,
           NEW u \in Viewport, payload.requests \subseteq Requests[width][u],
           NEW e \in Mixed, e \in ResultTiles \/ InUse(e)
    PROVE  e \in KeptTiles
  <1> DEFINE top == {d \in Mixed : d \in ResultTiles \/ InUse(d)}
             above == {d \in Mixed : d.lastUse > e.lastUse}
             room == Candidates(width, u) \union Candidates(width, viewport)
             f == [d \in top |-> d.tile]
             tiles == {d.tile : d \in top}
  <1>1. width \in Width /\ viewport \in Viewport
    BY DEF TypeOK
  <1>2. /\ IsFiniteSet(ResultTiles)
        /\ \A d \in ResultTiles :
                /\ NotEmpty(d) /\ d.tile \in Candidates(width, u)
                /\ d.lastUse \in Int /\ d.lastUse > Cardinality(tileCache)
    BY ResultFacts
  <1>3. /\ Left(tileCache) \subseteq tileCache /\ Cardinality(tileCache) \in Nat
        /\ \A d \in tileCache : NotEmpty(d) /\ d.lastUse \in 1 .. Cardinality(tileCache)
    BY FS_CardinalityType DEF Left, WithoutOverlap, CacheInv
  <1>4. IsFiniteSet(Mixed)
    BY <1>2, <1>3, FS_Subset, FS_Union DEF Mixed, CacheInv
  <1>5. above \in SUBSET (top \ {e})
    <2> SUFFICES ASSUME NEW d \in Mixed, d.lastUse > e.lastUse, d \notin ResultTiles, ~InUse(d)
                 PROVE  FALSE
      <3>1. e.lastUse \in Int
        BY <1>2, <1>3 DEF Mixed
      <3> QED
        BY <3>1
    <2>1. d \in tileCache /\ d.lastUse \in Int /\ d.lastUse <= Cardinality(tileCache)
      BY <1>3 DEF Mixed
    <2>2. CASE e \in ResultTiles
      BY <1>2, <1>3, <2>1, <2>2
    <2>3. CASE e \notin ResultTiles
      <3>1. e \in tileCache /\ InUse(e)
        BY <1>3, <2>3 DEF Mixed
      <3> QED
        BY <1>3, <2>1, <3>1 DEF UsedLast
    <2> QED
      BY <2>2, <2>3
  <1>6. IsFiniteSet(top) /\ e \in top
    BY <1>4, FS_Subset
  <1>7. Cardinality(top) <= MaximumResidentTiles
    <2>1. tiles \in SUBSET room
      <3>1. ASSUME NEW d \in top PROVE d.tile \in room
        <4>1. CASE d \in ResultTiles
          BY <1>2, <4>1
        <4>2. CASE InUse(d)
          BY <4>2, WantedFacts DEF InUse, IsCurrent
        <4> QED
          BY <4>1, <4>2
      <3> HIDE DEF top, room
      <3> QED
        BY <3>1
    <2>2. ASSUME NEW a \in top, NEW b \in top, f[a] = f[b] PROVE a = b
      <3>1. a.tile = b.tile /\ a \in Mixed /\ b \in Mixed
        BY <2>2
      <3>2. NotEmpty(a)
        BY <1>2, <1>3, <3>1 DEF Mixed
      <3> QED
        BY <3>1, <3>2, MixedLieApart, TilesDiffer
    <2>3. f \in [top -> tiles] /\ tiles = {f[d] : d \in top}
      OBVIOUS
    <2> HIDE DEF f, tiles, top
    <2>4. (\A a, b \in top : f[a] = f[b] => a = b) => Cardinality(tiles) = Cardinality(top)
      BY <1>6, <2>3, ImageSize
    <2>5. Cardinality(tiles) = Cardinality(top)
      BY <2>2, <2>4
    <2>6. IsFiniteSet(room) /\ Cardinality(room) <= MaximumResidentTiles
      BY <1>1, CandidatesFinite, FS_Union DEF RoomForTwo
    <2> HIDE DEF room
    <2>7. IsFiniteSet(tiles) /\ Cardinality(tiles) <= Cardinality(room)
      BY <2>1, <2>6, FS_Subset
    <2>8. Cardinality(tiles) \in Int /\ Cardinality(room) \in Int /\ MaximumResidentTiles \in Int
      BY <2>6, <2>7, FS_CardinalityType, ConstantsAssumption
    <2> QED
      BY <2>5, <2>6, <2>7, <2>8
  <1> HIDE DEF top, above
  <1>8. /\ IsFiniteSet(top \ {e}) /\ Cardinality(top \ {e}) = Cardinality(top) - 1
        /\ Cardinality(top) \in Nat
    BY <1>6, FS_RemoveElement, FS_CardinalityType
  <1>9. Cardinality(above) <= Cardinality(top \ {e}) /\ Cardinality(above) \in Nat
    BY <1>5, <1>8, FS_Subset, FS_CardinalityType
  <1>10. Cardinality(above) < MaximumResidentTiles
    BY <1>7, <1>8, <1>9, ConstantsAssumption
  <1> QED
    BY <1>10 DEF KeptTiles, Kept, Trimmed, Mixed, ResultTiles, above

LEMMA CompleteApply ==
    ASSUME TypeOK, PictureInv, TilesInv, CacheInv, RequestInv, CompleteInv, ApplyAsyncRender,
           OneLevelOfDetail, RoomForTwo
    PROVE  CompleteInv'
  <1>1. /\ wanted # 0 /\ wanted' = 0
        /\ Wanted' = Wanted /\ generation' = generation /\ DocumentReady' = DocumentReady
        /\ pending' = pending
    BY DEF ApplyAsyncRender, Renderer!Deliver, Wanted, Requests, documentVars, DocumentReady
  <1> SUFFICES ASSUME DocumentReady, ~pending, ~failed', NEW r \in Wanted
               PROVE  HasCachedTile(r.tile)'
    BY <1>1 DEF CompleteInv
  <1>2. CASE ~AcceptsResult
    <2>1. ~AnswerIsCurrent /\ failed' = failed /\ tileCache' = tileCache
      BY <1>2 DEF ApplyAsyncRender, AcceptsResult, AnswerIsCurrent, DocumentReady, cacheVars
    <2>2. HasCachedTile(r.tile)
      BY <2>1 DEF CompleteInv
    <2> QED
      BY <1>1, <2>1, <2>2 DEF HasCachedTile, IsCurrent
  <1>3. CASE AcceptsResult /\ failed'
    BY <1>3
  <1>4. CASE AcceptsResult /\ ApplyTiles /\ failed' = failed
    <2>1. PICK u \in Viewport : payload.requests \subseteq Requests[width][u]
      BY <1>1, <1>4 DEF RequestInv, AnswerIsCurrent, AcceptsResult
    <2>2. UsedLast /\ (HasCachedTile(r.tile) \/ Answers(r.tile))
      BY <1>1, <1>4 DEF CompleteInv, UsedLast
    <2>3. width \in Width /\ viewport \in Viewport
            /\ Requests[width][u] = VisibleTileRequests(width, u)
      BY DEF TypeOK, Requests
    <2>4. \E e \in Mixed : /\ e \in ResultTiles \/ InUse(e)
                           /\ IsCurrent(e, r.tile)
      <3>1. CASE Answers(r.tile)
        <4>1. PICK s \in payload.requests : s.tile = r.tile
          BY <3>1 DEF Answers
        <4>2. Rendered(0, s, tileCache) \in ResultTiles
          BY DEF ResultTiles, Results
        <4>3. IsCurrent(Rendered(0, s, tileCache), r.tile)
          BY <4>1 DEF Rendered, IsCurrent
        <4> QED
          BY <4>2, <4>3 DEF Mixed
      <3>2. CASE HasCachedTile(r.tile) /\ ~Answers(r.tile)
        <4>1. PICK e \in tileCache : IsCurrent(e, r.tile)
          BY <3>2 DEF HasCachedTile
        <4>2. ASSUME NEW s \in payload.requests PROVE ~Overlap(e.tile, s.tile)
          <5>1. s.tile \in Candidates(width, u)
            BY <2>1, <2>3, RequestType
          <5>2. e.tile = r.tile /\ r.tile \in Candidates(width, viewport)
            BY <4>1, WantedFacts DEF IsCurrent
          <5>3. LevelOfDetail(viewport.scale) = LevelOfDetail(u.scale)
            BY <2>3 DEF OneLevelOfDetail
          <5>4. e.tile # s.tile
            BY <3>2, <5>2 DEF Answers
          <5> QED
            BY <2>3, <5>1, <5>2, <5>3, <5>4, CandidatesLieApart
        <4>3. e \in Left(tileCache)
          BY <4>2 DEF Left, WithoutOverlap
        <4> QED
          BY <4>1, <4>3 DEF Mixed, InUse
      <3> QED
        BY <2>2, <3>1, <3>2
    <2>5. PICK e \in Mixed : (e \in ResultTiles \/ InUse(e)) /\ IsCurrent(e, r.tile)
      BY <2>4
    <2>6. e \in KeptTiles
      BY <1>1, <2>1, <2>2, <2>5, UsedIsKept
    <2> DEFINE n == Numbering(KeptTiles, LastUses(KeptTiles))
    <2>7. UsedAs(e, n[e]) \in tileCache'
      BY <1>4, <2>6, KeptFacts DEF Renumbered
    <2>8. UsedAs(e, n[e]).tile = e.tile /\ UsedAs(e, n[e]).generation = e.generation
      BY <1>1, <2>5, MixedLieApart, UsedAsFacts
    <2> QED
      BY <1>1, <2>5, <2>7, <2>8 DEF HasCachedTile, IsCurrent
  <1> QED
    BY <1>2, <1>3, <1>4 DEF ApplyAsyncRender

LEMMA CompleteStep ==
    ASSUME TypeOK, PictureInv, TilesInv, CacheInv, RequestInv, CompleteInv, [Next]_vars,
           OneLevelOfDetail, RoomForTwo
    PROVE  CompleteInv'
  <1>1. CASE pending' \/ ~DocumentReady'
    BY <1>1 DEF CompleteInv
  <1>2. CASE /\ DocumentReady /\ ~pending
             /\ UNCHANGED <<width, viewport, generation, wanted, payload, failed, tileCache>>
    <2>1. Wanted' = Wanted /\ (AnswerIsCurrent' <=> AnswerIsCurrent)
      BY <1>2 DEF Wanted, Requests, AnswerIsCurrent
    <2>2. ASSUME NEW t PROVE (Answers(t)' <=> Answers(t)) /\ (HasCachedTile(t)' <=> HasCachedTile(t))
      BY <1>2 DEF Answers, HasCachedTile, IsCurrent
    <2>3. ASSUME NEW e PROVE InUse(e)' <=> InUse(e)
      BY <1>2, <2>1 DEF InUse, IsCurrent
    <2> QED
      BY <1>2, <2>1, <2>2, <2>3 DEF CompleteInv, UsedLast
  <1> QED
    BY <1>1, <1>2, CompleteStart, CompleteApply, OtherSteps

(* Then a view at rest shows all its viewport wants.                         *)
LEMMA CompleteIsShown ==
    ASSUME TypeOK, CompleteInv, RoomForTwo PROVE PresentationIsComplete
  <1> SUFFICES ASSUME DocumentReady, ~Rendering, ~failed, NEW x \in VisiblePixels
               PROVE  IsShown(x)
    BY DEF PresentationIsComplete
  <1>1. width \in Width /\ viewport \in Viewport
    BY DEF TypeOK
  <1> DEFINE seen == VisibleSpan(width, viewport)
  <1>2. x \in seen.left .. seen.right - 1
    BY DEF VisiblePixels
  <1>3. PICK t \in Candidates(width, viewport) : t.left <= x /\ x < t.right
    BY <1>1, <1>2, TileOfPixel
  <1>4. Cardinality(Candidates(width, viewport)) <= MaximumResidentTiles
    <2>1. Candidates(width, viewport) \union Candidates(width, viewport)
            = Candidates(width, viewport)
      OBVIOUS
    <2>2. Cardinality(Candidates(width, viewport) \union Candidates(width, viewport))
            <= MaximumResidentTiles
      BY <1>1, Zenon DEF RoomForTwo
    <2> QED
      BY <2>1, <2>2
  <1>5. seen.left < seen.right
    <2>1. seen.left \in Int /\ seen.right \in Int
      BY <1>1, SpanType
    <2> HIDE DEF seen
    <2> QED
      BY <1>2, <2>1
  <1>6. PICK r \in Wanted : r.tile = t
    BY <1>1, <1>4, <1>5, AllIsRequested, WantedFacts
  <1>7. PICK e \in tileCache : IsCurrent(e, t)
    BY <1>6 DEF CompleteInv, Rendering, AnswerIsCurrent, HasCachedTile
  <1>8. ASSUME NEW c, IsCurrent(c, t) PROVE Covers(c, x)
    BY <1>3, <1>8 DEF IsCurrent, Covers
  <1>9. CASE CanPresentLayerTiles
    <2>1. e \in {c \in tileCache : c.generation = generation} /\ e.tile = t
      BY <1>7 DEF IsCurrent
    <2>2. \A l \in 1 .. Layers : \E c \in layerTileCache : IsCurrent(c, t) /\ c.layer = l
      BY <1>9, <2>1 DEF CanPresentLayerTiles
    <2> QED
      BY <1>8, <1>9, <2>2 DEF IsShown
  <1>10. CASE ~CanPresentLayerTiles
    BY <1>7, <1>8, <1>10 DEF IsShown
  <1> QED
    BY <1>9, <1>10

AtRestInv == TypeOK /\ PictureInv /\ TilesInv /\ CacheInv /\ RequestInv /\ CompleteInv

(* Once rendering() is false and the last render did not fail, the viewport  *)
(* shows its whole part of the document, if all viewports have one level of  *)
(* detail and m_tileCache has room for two of them: no result of an earlier  *)
(* viewport or picture then takes the place of a tile that is wanted         *)
(* (CanvasItem::startScheduledRender, applyAsyncRender, trimTileCache).      *)
THEOREM PresentationIsCompleteCorrect ==
    ASSUME OneLevelOfDetail, RoomForTwo PROVE Spec => []PresentationIsComplete
  <1>1. Init => CacheInv /\ RequestInv /\ CompleteInv
    BY FS_EmptySet DEF Init, Renderer!Init, CacheInv, RequestInv, AnswerIsCurrent, CompleteInv,
       DocumentReady
  <1>2. AtRestInv /\ [Next]_vars => CacheInv' /\ RequestInv' /\ CompleteInv'
    BY CacheStep, RequestStep, CompleteStep DEF AtRestInv
  <1>3. AtRestInv => PresentationIsComplete
    BY CompleteIsShown DEF AtRestInv
  <1>4. ViewInv => TypeOK
    BY DEF ViewInv
  <1>5. AtRestInv <=> TypeOK /\ PictureInv /\ TilesInv /\ CacheInv /\ RequestInv /\ CompleteInv
    BY DEF AtRestInv
  <1> QED
    BY <1>1, <1>2, <1>3, <1>4, <1>5, TilesInvariance, PTL DEF Spec
===============================================================================
