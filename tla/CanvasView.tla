------------------------------ MODULE CanvasView ------------------------------
(***************************************************************************)
(* CanvasItem as a view of a document: it takes immutable snapshots, asks   *)
(* the asynchronous renderer for the tiles its viewport misses, and keeps   *)
(* what arrives in two bounded caches.  Everything here runs on the thread  *)
(* that owns the item, so an action is one call or one event; the renderer  *)
(* is its promise, FrameService.  The plane is modelled by one axis.        *)
(***************************************************************************)
EXTENDS Integers, FiniteSets, FiniteSetsExt

CONSTANTS RenderTilePixelSize,
          MaximumResidentTiles,
          MaximumResidentLayerTiles,
          Width,          \* extents of the documents, in pixels
          ItemWidth,      \* extent of the item, in pixels
          Viewport,       \* panning and zoom: [left, scale], scale = 1 / zoom
          HomeViewport,   \* the viewport after resetView()
          Layers,         \* visible layers of the document, all source-over
          Content, Frame,
          Board,          \* artboards to render, "all" for the whole document
          Binding,        \* how documents are bound: "memory", "file"
          RenderFails,    \* renders may end in an error
          MaxGeneration,  \* bound: content generations
          MaxRequest      \* bound: render requests

ASSUME ConstantsAssumption ==
    /\ RenderTilePixelSize \in Nat \ {0} /\ Width \subseteq Nat \ {0} /\ ItemWidth \in Nat \ {0}
    /\ MaximumResidentTiles \in Nat \ {0} /\ MaximumResidentLayerTiles \in Nat \ {0}
    /\ Viewport \subseteq [left : Int, scale : Nat \ {0}] /\ HomeViewport \in Viewport
    /\ Layers \in Nat \ {0}
    /\ 0 \in Frame /\ Frame \subseteq Nat /\ "all" \in Board
    /\ Binding \subseteq {"memory", "file"} /\ RenderFails \in BOOLEAN
    /\ MaxGeneration \in Nat /\ MaxRequest \in Nat

VARIABLES
    \* the document, and whether it validates and its file session lives
    bound, width, content, sound, attached,
    \* what the view shows of it
    valid,        \* m_documentValid, as of the last refresh
    frame, board, sampling, viewport,
    generation,   \* m_contentGeneration
    snapshot,     \* m_renderSnapshot
    \* the render schedule
    pending,      \* m_renderSchedulePending
    timers,       \* single-shot timers on their way
    asked, wanted, shown,   \* the renderer
    payload,      \* what the newest request asked for
    failed,       \* history: the newest request ended in an error
    \* the caches
    tileCache, layerTileCache, framePixels

documentVars == <<bound, width, content, sound, attached>>
cacheVars == <<tileCache, layerTileCache, framePixels>>
rendererVars == <<asked, wanted, shown>>
vars == <<documentVars, valid, frame, board, sampling, viewport, generation, snapshot,
          pending, timers, rendererVars, payload, failed, cacheVars>>

Renderer == INSTANCE FrameService

Nothing == [kind |-> "nothing"]
Sampling == {"Smooth", "Nearest"}

-----------------------------------------------------------------------------
(* Tiles *)

(* lodForZoom(): the display never gets fewer samples than it has pixels.   *)
LevelsOfDetail == {1, 2, 4, 8}      \* stands for the powers of two up to 2 ^ 21
LevelOfDetail(scale) == Max({d \in LevelsOfDetail : d <= scale})

VisibleSpan(w, v) ==
    [left |-> Max({v.left, 0}), right |-> Min({v.left + ItemWidth * v.scale, w})]

(* The k-th tile of a level of detail, clipped to the document. *)
TileAt(w, k, lod) ==
    LET span == RenderTilePixelSize * lod
        left == Max({k * span, 0})
        right == Min({(k + 1) * span, w})
    IN  [left |-> left, right |-> right, output |-> (right - left + lod - 1) \div lod]

(* The tiles of a viewport and of one ring around it.                        *)
Candidates(w, v) ==
    LET lod == LevelOfDetail(v.scale)
        span == RenderTilePixelSize * lod
        seen == VisibleSpan(w, v)
        columns == (seen.left \div span) - 1 .. ((seen.right - 1) \div span) + 1
    IN  {t \in {TileAt(w, k, lod) : k \in columns} : t.left < t.right}

(* They are requested nearest to the centre of the view first, and no more   *)
(* than the cache can hold; the place of a request is the number of          *)
(* candidates before it.                                                     *)
VisibleTileRequests(w, v) ==
    LET seen == VisibleSpan(w, v)
        Distance(t) == LET d == t.left + t.right - seen.left - seen.right
                       IN  IF d < 0 THEN -d ELSE d
        Nearer(t, u) == Distance(t) < Distance(u)
                            \/ (Distance(t) = Distance(u) /\ t.left < u.left)
        requests == {[tile |-> t, place |-> Cardinality({u \in Candidates(w, v) : Nearer(u, t)})] :
                        t \in Candidates(w, v)}
    IN  IF seen.left >= seen.right THEN {}
        ELSE {r \in requests : r.place < MaximumResidentTiles}

Overlap(t, u) == t.left < u.right /\ u.left < t.right

Requests == [w \in Width |-> [v \in Viewport |-> VisibleTileRequests(w, v)]]

(* The picture a snapshot gives. *)
Look(snap, f, s) == [content |-> snap.content, board |-> snap.board, frame |-> f, sampling |-> s]

IsCurrent(e, t) == e.generation = generation /\ e.tile = t

(* Mutant of HasCachedTile: a tile of any generation will do. *)
HasTileOfAnyGeneration(t) == \E e \in tileCache : e.tile = t

HasCachedTile(t) == \E e \in tileCache : IsCurrent(e, t)

DocumentReady == bound # "none" /\ valid /\ attached

Init ==
    /\ bound = "none" /\ width \in Width /\ content \in Content /\ sound = TRUE /\ attached = FALSE
    /\ valid = FALSE
    /\ frame = 0 /\ viewport = HomeViewport
    /\ board = "all" /\ sampling = "Smooth"
    /\ generation = 0 /\ snapshot = Nothing
    /\ pending = FALSE /\ timers = 0
    /\ Renderer!Init
    /\ payload = Nothing /\ failed = FALSE
    /\ tileCache = {} /\ layerTileCache = {} /\ framePixels = Nothing

-----------------------------------------------------------------------------
(* Steps the calls share *)

UserActs == asked + timers < MaxRequest
NextGeneration == generation < MaxGeneration /\ generation' = generation + 1

(* Mutant of Schedule: not while a render is running. *)
ScheduleWhenIdle(allowed) ==
    IF allowed /\ ~pending /\ wanted = 0
    THEN pending' = TRUE /\ timers' = timers + 1
    ELSE UNCHANGED <<pending, timers>>

(* scheduleVisibleRender(), for a view that may schedule. *)
Schedule(allowed) ==
    IF allowed /\ ~pending
    THEN pending' = TRUE /\ timers' = timers + 1
    ELSE UNCHANGED <<pending, timers>>

ClearTileCache == tileCache' = {} /\ layerTileCache' = {} /\ framePixels' = Nothing
DropSnapshot == snapshot' = Nothing

-----------------------------------------------------------------------------
(* The document *)

(* bindDocument(): the document validates. *)
Bind ==
    /\ UserActs /\ NextGeneration
    /\ bound' \in Binding /\ width' \in Width
    /\ content' \in Content /\ sound' = TRUE /\ attached' = TRUE
    /\ valid' = TRUE /\ frame' = 0 /\ viewport' = HomeViewport
    /\ Renderer!Withdraw
    /\ DropSnapshot /\ ClearTileCache
    /\ Schedule(TRUE)
    /\ UNCHANGED <<board, sampling, payload, failed>>

Unbind ==
    /\ bound # "none"
    /\ bound' = "none" /\ attached' = FALSE
    /\ valid' = FALSE /\ frame' = 0 /\ viewport' = HomeViewport
    /\ Renderer!Withdraw
    /\ pending' = FALSE
    /\ DropSnapshot /\ ClearTileCache
    /\ UNCHANGED <<width, content, sound, board, sampling, generation, timers, payload, failed>>

(* The owner of the file closes it, or a failed COMMIT detaches it. *)
FileGoes ==
    /\ bound = "file" /\ attached
    /\ attached' = FALSE
    /\ UNCHANGED <<bound, width, content, sound, valid, frame, board, sampling, viewport, generation,
                   snapshot, pending, timers, rendererVars, payload, failed, cacheVars>>

(* Code that owns the document changes it behind the view. *)
DocumentChanges ==
    /\ bound = "memory"
    /\ content' \in Content /\ sound' \in BOOLEAN
    /\ UNCHANGED <<bound, width, attached, valid, frame, board, sampling, viewport, generation,
                   snapshot, pending, timers, rendererVars, payload, failed, cacheVars>>

(* The part of refreshAsync() a document that validates reaches. *)
ShowNewContent ==
    /\ NextGeneration
    /\ valid' = TRUE
    /\ DropSnapshot /\ framePixels' = Nothing
    /\ Schedule(TRUE)
    /\ UNCHANGED <<rendererVars, tileCache, layerTileCache>>

Refresh ==
    /\ UserActs
    /\ IF bound # "none" /\ attached /\ sound
       THEN ShowNewContent
       ELSE /\ valid' = FALSE
            /\ ClearTileCache
            /\ IF bound # "none" /\ attached THEN UNCHANGED rendererVars ELSE Renderer!Withdraw
            /\ UNCHANGED <<generation, snapshot, pending, timers>>
    /\ UNCHANGED <<documentVars, frame, board, sampling, viewport, payload, failed>>

(* editDocument(): an accepted edit, which may leave fewer frames or, when    *)
(* the canvas makes room for what is painted, a wider document.              *)
EditDocument ==
    /\ UserActs
    /\ bound # "none" /\ attached /\ sound
    /\ content' \in Content /\ width' \in {w \in Width : w >= width}
    /\ frame' \in {f \in Frame : f <= frame}
    /\ ShowNewContent
    /\ UNCHANGED <<bound, sound, attached, board, sampling, viewport, payload, failed>>

(* The detached document's owner keeps it valid. *)
RefreshPreview ==
    /\ UserActs /\ NextGeneration
    /\ bound = "memory" /\ valid
    /\ Renderer!Withdraw
    /\ DropSnapshot /\ ClearTileCache
    /\ Schedule(TRUE)
    /\ UNCHANGED <<documentVars, valid, frame, board, sampling, viewport, payload, failed>>

-----------------------------------------------------------------------------
(* The presentation *)

SetFrame ==
    /\ UserActs /\ NextGeneration
    /\ bound # "none"
    /\ frame' \in Frame \ {frame}
    /\ Renderer!Withdraw
    /\ ClearTileCache
    /\ Schedule(valid)
    /\ UNCHANGED <<documentVars, valid, board, sampling, viewport, snapshot, payload, failed>>

(* Mutant of SetSmoothRendering: the generation stays. *)
SetSmoothRenderingOnly ==
    /\ UserActs
    /\ sampling' \in Sampling \ {sampling}
    /\ ClearTileCache
    /\ Schedule(valid)
    /\ UNCHANGED <<documentVars, valid, frame, board, viewport, generation, snapshot,
                   rendererVars, payload, failed>>

SetSmoothRendering ==
    /\ UserActs /\ NextGeneration
    /\ sampling' \in Sampling \ {sampling}
    /\ ClearTileCache
    /\ Schedule(valid)
    /\ UNCHANGED <<documentVars, valid, frame, board, viewport, snapshot, rendererVars, payload,
                   failed>>

SetRenderArtboardId ==
    /\ UserActs /\ NextGeneration
    /\ board' \in Board \ {board}
    /\ Renderer!Withdraw
    /\ DropSnapshot /\ ClearTileCache
    /\ Schedule(valid)
    /\ UNCHANGED <<documentVars, valid, frame, sampling, viewport, payload, failed>>

(* Panning, zooming, fitting, another item size. *)
MoveViewport ==
    /\ UserActs
    /\ viewport' \in Viewport \ {viewport}
    /\ Schedule(valid)
    /\ UNCHANGED <<documentVars, valid, frame, board, sampling, generation, snapshot,
                   rendererVars, payload, failed, cacheVars>>

-----------------------------------------------------------------------------
(* Rendering *)

(* Of m_tileUseCounter the order counts: the tiles of a cache are numbered   *)
(* anew, in the order of their uses, when some are used, added or dropped.   *)
Numbered(cache, Use(_)) ==
    {[e EXCEPT !.lastUse = Cardinality({f \in cache : Use(f) <= Use(e)})] : e \in cache}

(* Cached tiles that are wanted again become the most recently used; of the  *)
(* layers of one tile the lower is the first to go.                          *)
Touched(cache) ==
    LET Hits(e) == {r \in Requests[width][viewport] :
                        IsCurrent(e, r.tile) /\ HasCachedTile(r.tile)}
        Use(e) == IF Hits(e) = {} THEN e.lastUse
                  ELSE Cardinality(cache) + 1 + e.layer
                         + (Layers + 1) * (CHOOSE r \in Hits(e) : TRUE).place
    IN  Numbered(cache, Use)

(* renderDocumentSnapshot() *)
RenderDocumentSnapshot ==
    IF snapshot = Nothing
    THEN [kind |-> "snapshot", content |-> content, board |-> board, sound |-> sound]
    ELSE snapshot

StartScheduledRender ==
    /\ timers > 0 /\ timers' = timers - 1
    /\ pending' = FALSE
    /\ IF pending /\ DocumentReady
       THEN LET missing == {r \in Requests[width][viewport] : ~HasCachedTile(r.tile)}
            IN  /\ snapshot' = RenderDocumentSnapshot
                /\ tileCache' = Touched(tileCache)
                /\ layerTileCache' = Touched(layerTileCache)
                /\ IF missing # {}
                   THEN /\ Renderer!Ask
                        /\ payload' = [kind |-> "request", generation |-> generation,
                                       requests |-> missing, sound |-> snapshot'.sound,
                                       look |-> Look(snapshot', frame, sampling)]
                        /\ failed' = FALSE
                   ELSE UNCHANGED <<rendererVars, payload, failed>>
       ELSE UNCHANGED <<snapshot, tileCache, layerTileCache, rendererVars, payload, failed>>
    /\ UNCHANGED <<documentVars, valid, frame, board, sampling, viewport, generation,
                   framePixels>>

(* Trimming drops the least recently used. *)
Trimmed(cache, limit) ==
    {e \in cache : Cardinality({f \in cache : f.lastUse > e.lastUse}) < limit}

(* Mutant of WithoutOverlap: only replaces the current version of a tile. *)
WithoutSame(cache, tiles) == {e \in cache : \A t \in tiles : ~IsCurrent(e, t)}

WithoutOverlap(cache, tiles) == {e \in cache : \A t \in tiles : ~Overlap(e.tile, t)}

(* Layer 0 is the composed picture.  Tiles arrive layer by layer. *)
Rendered(layer, r, cache) ==
    [layer |-> layer, tile |-> r.tile, generation |-> generation, look |-> payload.look,
     lastUse |-> Cardinality(cache) + 1 + layer * MaximumResidentTiles + r.place]

Received(cache, layers, limit) ==
    LET tiles == {r.tile : r \in payload.requests}
        new == {Rendered(l, r, cache) : l \in layers, r \in payload.requests}
    IN  Numbered(Trimmed(WithoutOverlap(cache, tiles) \union new, limit), LAMBDA e : e.lastUse)

(* The tile that covers the whole document in full resolution. *)
CompleteTile == [left |-> 0, right |-> width, output |-> width]

ApplyTiles ==
    LET complete == {e \in tileCache' : IsCurrent(e, CompleteTile)}
    IN  /\ tileCache' = Received(tileCache, {0}, MaximumResidentTiles)
        /\ layerTileCache' = Received(layerTileCache, 1 .. Layers, MaximumResidentLayerTiles)
        /\ framePixels' = IF complete = {} THEN Nothing
                          ELSE [kind |-> "picture", look |-> (CHOOSE e \in complete : TRUE).look]

(* Mutant of AcceptsResult: whatever became of the document. *)
AcceptsGeneration == payload.generation = generation

AcceptsResult == payload.generation = generation /\ bound # "none" /\ valid

(* The renderer's finished signal; it is emitted for the newest request only.*)
ApplyAsyncRender ==
    /\ Renderer!Deliver
    /\ \/ /\ ~AcceptsResult
          /\ UNCHANGED <<failed, cacheVars>>
       \/ /\ AcceptsResult /\ (~payload.sound \/ RenderFails)
          /\ failed' = TRUE
          /\ UNCHANGED cacheVars
       \/ /\ AcceptsResult /\ payload.sound
          /\ ApplyTiles
          /\ UNCHANGED failed
    /\ UNCHANGED <<documentVars, valid, frame, board, sampling, viewport, generation, snapshot,
                   pending, timers, payload>>

-----------------------------------------------------------------------------

Next ==
    \/ Bind \/ Unbind \/ FileGoes \/ DocumentChanges
    \/ Refresh \/ EditDocument \/ RefreshPreview
    \/ SetFrame \/ SetSmoothRendering \/ SetRenderArtboardId \/ MoveViewport
    \/ StartScheduledRender \/ ApplyAsyncRender

Spec == Init /\ [][Next]_vars

(* Timers fire, and the renderer answers what is wanted of it. *)
Fairness == WF_vars(StartScheduledRender) /\ WF_vars(ApplyAsyncRender)
FairSpec == Spec /\ Fairness

-----------------------------------------------------------------------------
(* Properties *)

(* Every variable but the caches ranges over the values the code can store   *)
(* in it; every timer on its way has its request.                            *)
TypeOK ==
    /\ bound \in {"none"} \union Binding /\ width \in Width
    /\ content \in Content /\ sound \in BOOLEAN /\ attached \in BOOLEAN
    /\ valid \in BOOLEAN
    /\ frame \in Frame /\ board \in Board /\ sampling \in Sampling /\ viewport \in Viewport
    /\ generation \in 0 .. MaxGeneration
    /\ snapshot \in {Nothing} \union
            [kind : {"snapshot"}, content : Content, board : Board, sound : BOOLEAN]
    /\ pending \in BOOLEAN /\ timers \in Nat /\ (pending => timers > 0)
    /\ asked \in Nat /\ asked + timers <= MaxRequest
    /\ wanted \in {0, asked} /\ shown \in 0 .. asked
    /\ failed \in BOOLEAN

(* What the scene graph draws: layer by layer if every current tile has all  *)
(* its layers, the composed tiles otherwise (canPresentLayerTiles).          *)
CanPresentLayerTiles ==
    LET current == {e \in tileCache : e.generation = generation}
    IN  /\ current # {}
        /\ \A e \in current, l \in 1 .. Layers :
                \E c \in layerTileCache : IsCurrent(c, e.tile) /\ c.layer = l

(* The pixels x whose current picture is on the screen. *)
Covers(e, x) == e.generation = generation /\ e.tile.left <= x /\ x < e.tile.right
IsShown(x) ==
    IF CanPresentLayerTiles
    THEN \A l \in 1 .. Layers : \E e \in layerTileCache : e.layer = l /\ Covers(e, x)
    ELSE \E e \in tileCache : Covers(e, x)

VisiblePixels == LET seen == VisibleSpan(width, viewport) IN seen.left .. seen.right - 1

(* rendering(): the renderer may stay busy longer than it is wanted. *)
Rendering == pending \/ wanted # 0

(* Once rendering() is false and the last render did not fail, every pixel   *)
(* of the viewport shows the current picture (callers wait for rendering or  *)
(* renderCompleted to know that, docs/API.md).                               *)
PresentationIsComplete ==
    (DocumentReady /\ ~Rendering /\ ~failed) => \A x \in VisiblePixels : IsShown(x)

(* A tile marked with the current generation, and framePixels(), show the    *)
(* one snapshot of this generation at the current frame, artboard and        *)
(* sampling, whatever requests, cancellations and changes crossed on the way *)
(* (the generation checks of startScheduledRender and applyAsyncRender).     *)
CurrentTilesShowTheSnapshot ==
    LET looks == {e.look : e \in {c \in tileCache \union layerTileCache :
                                    c.generation = generation}}
              \union (IF framePixels = Nothing THEN {} ELSE {framePixels.look})
    IN  looks # {} =>
            /\ snapshot # Nothing /\ snapshot.board = board
            /\ looks = {Look(snapshot, frame, sampling)}

(* No two cached tiles cover the same pixel, of whatever level of detail and *)
(* generation they are: the scene graph would blend one over the other.      *)
TilesDoNotOverlap ==
    \A e, f \in tileCache : e # f => ~Overlap(e.tile, f.tile)

(* A view without a valid document shows no pixel of an earlier one, even    *)
(* when a render it had asked for is delivered late (refreshAsync clears the *)
(* caches without cancelling when the document no longer validates).         *)
InvalidShowsNothing ==
    ~valid => tileCache = {} /\ layerTileCache = {} /\ framePixels = Nothing

(* What a viewport shows of a ready document gets drawn, unless the viewport *)
(* moves on, the document goes, or its render fails.                         *)
VisibleIsShown ==
    \A v \in Viewport :
        (DocumentReady /\ viewport = v) ~>
            (viewport # v \/ ~DocumentReady \/ failed \/ \A x \in VisiblePixels : IsShown(x))

===============================================================================
