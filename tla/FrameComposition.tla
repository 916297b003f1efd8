---------------------------- MODULE FrameComposition ----------------------------
(***************************************************************************)
(* What FrameRenderer makes of a document at a frame: tiles of every layer, *)
(* composed artboard by artboard.  A picture is kept as what is painted at  *)
(* each position of the world, group by group from bottom to top; how       *)
(* colours, masks and filters mix is left out, and an asset covers all that *)
(* is rendered.                                                             *)
(* Videos run at one frame a second and show nothing after their last       *)
(* frame.  A batch is refused alike for whatever reason.                     *)
(* Transforms are finite numbers that the renderer multiplies and samples;  *)
(* which products still are finite is left to constants, and so is which    *)
(* filters their code takes.                                                *)
(***************************************************************************)
EXTENDS Document

CONSTANTS
    TransformFits(_, _, _),  \* of a layer at a place, with a motion, at a frame
    MaskFits(_, _, _, _),    \* and of a mask of it
    FiltersApply(_, _)       \* the filters of an appearance, to an asset

Region(origin, width) == [origin |-> origin, width |-> width]
EndOf(region) == region.origin + region.width
Covers(x, region) == region.origin <= x /\ x < EndOf(region)
Inside(inner, outer) == outer.origin <= inner.origin /\ EndOf(inner) <= EndOf(outer)

(* The canvas and all artboards.                                             *)
DocumentViewRegion(d) ==
    LET parts == {Region(d.origin, d.width)} \union ToSet(d.boards)
        left == Min({part.origin : part \in parts})
    IN  IF ViewFits(d) THEN Region(left, Max({EndOf(part) : part \in parts}) - left) ELSE Region(0, 0)

ValidRequest(d, region) ==
    /\ region.width > 0
    /\ IF d.infinite THEN EndOf(region) <= CoordinateMax ELSE Inside(region, DocumentViewRegion(d))

-----------------------------------------------------------------------------
(* Layers                                                                    *)

(* A video starts with the range of its layer.                               *)
HasVideoFrame(d, layer, f) ==
    LET asset == Found(d.assets, layer.asset)
        end == IF layer.playback[2] = 0 THEN Len(asset.parts) ELSE layer.playback[2]
        elapsed == f - (IF layer.range = <<>> THEN 0 ELSE layer.range[1])
    IN  /\ LayerExistsAt(d, layer, f) /\ HasKind(d, layer.asset, "Video")
        /\ end <= Len(asset.parts)
        /\ layer.playback[1] + elapsed \div d.rate < end

(* sampleLayerAt(): an artboard hides its layers.                            *)
IsVisibleAt(d, layer, f) ==
    /\ layer.visible /\ LayerExistsAt(d, layer, f)
    /\ layer.kind = "Video" => HasVideoFrame(d, layer, f)
    /\ Has(d.boards, layer.board) => Found(d.boards, layer.board).visible

(* The masks prepareMask() dereferences.                                     *)
MasksResolve(d, layer) ==
    \A id \in MaskIds(layer) : HasKind(d, id, "Raster") \/ HasKind(d, id, "Vector")

(* What a valid document may ask for in vain.  Validation asks that the      *)
(* numbers of a transform and of its motion be finite, not what they make.   *)
Fits(d, layer, f) ==
    /\ TransformFits(layer.x, layer.motion, f)
    /\ \A id \in MaskIds(layer) : MaskFits(layer.x, layer.motion, id, f)
    /\ FiltersApply(layer.appearance, Found(d.assets, ResolveAssetAt(d, layer, f)))

(* An embedding has no tiles, and neither has a layer that is not seen.      *)
RenderLayer(d, f, i) ==
    LET layer == d.layers[i]
        spatial == layer.kind # "IpAdapter"
        visible == IsVisibleAt(d, layer, f)
        shows == IF spatial /\ visible THEN ResolveAssetAt(d, layer, f) ELSE 0
    IN  [index |-> i, id |-> layer.id, visible |-> visible, spatial |-> spatial,
         artwork |-> IsArtwork(layer), board |-> layer.board,
         clipped |-> layer.appearance.clipped, fill |-> layer.appearance.fill,
         opacity |-> layer.opacity, blend |-> layer.blend, shows |-> shows,
         ok |-> spatial /\ visible => shows # 0 /\ MasksResolve(d, layer) /\ Fits(d, layer, f)]

(* A layer of another artboard in the render of one.                         *)
Omitted(i) ==
    [index |-> i, id |-> 0, visible |-> FALSE, spatial |-> TRUE, artwork |-> TRUE, board |-> 0,
     clipped |-> FALSE, fill |-> 1, opacity |-> 1, blend |-> 0, shows |-> 0, ok |-> TRUE]

-----------------------------------------------------------------------------
(* composeFrameLayers()                                                      *)

ComposableBoards(boards) ==
    /\ Distinct(boards)
    /\ \A board \in ToSet(boards) : board.id # 0 /\ board.width > 0 /\ EndOf(board) <= CoordinateMax

(* It asks again what validation asked of the document, of what is left of   *)
(* the document in the batch.                                                *)
ComposableLayer(batch, i) ==
    LET layer == batch.layers[i]
    IN  /\ layer.ok /\ layer.index = i
        /\ layer.opacity <= 1 /\ layer.fill <= 1 /\ layer.blend \in {0, 5}
        /\ layer.artwork /\ layer.clipped =>
                \E j \in 1 .. i - 1 : LET base == batch.layers[j]
                                      IN  base.artwork /\ ~base.clipped /\ base.board = layer.board
        /\ layer.board # 0 => Has(batch.boards, layer.board)
        /\ layer.spatial \/ ~layer.artwork

Composable(batch) ==
    ComposableBoards(batch.boards) /\ \A i \in DOMAIN batch.layers : ComposableLayer(batch, i)

(* The artwork of an artboard, or of none: a clipped layer is painted with   *)
(* the last unclipped one below it, and not without it.                      *)
Artwork(batch, board) ==
    LET layers == batch.layers
    IN  Kept(layers, {i \in DOMAIN layers : layers[i].artwork /\ layers[i].board = board})

Bases(content, i) == {j \in 1 .. i : ~content[j].clipped}
Base(content, i) == content[Max(Bases(content, i))]

Seen(content) ==
    {i \in DOMAIN content :
        content[i].visible /\ Bases(content, i) # {} /\ Base(content, i).visible}

Painted(batch, board) ==
    LET content == Artwork(batch, board)
    IN  Kept([i \in DOMAIN content |->
                [layer |-> content[i].id, shows |-> content[i].shows,
                 over |-> Base(content, i).id]],
             Seen(content))

Background(board) == [layer |-> 0, shows |-> board.background, over |-> 0]

(* The group of an artboard is cut to its region.                            *)
GroupAt(batch, board, x) ==
    IF board.visible /\ Covers(x, board)
    THEN <<Background(board)>> \o Painted(batch, board.id)
    ELSE <<>>

(* The groups of the artboards, and above them the artwork of none.          *)
PictureAt(batch, x) ==
    Append([b \in DOMAIN batch.boards |-> GroupAt(batch, batch.boards[b], x)], Painted(batch, 0))

Refused(status) == [status |-> status, at |-> <<>>]

Compose(batch, region) ==
    IF ~Composable(batch) THEN Refused("InvalidDocument")
    ELSE [status |-> "Success",
          at |-> [x \in region.origin .. EndOf(region) - 1 |-> PictureAt(batch, x)]]

-----------------------------------------------------------------------------
(* The functions callers use                                                 *)

Preflight(d, f, region) ==
    CASE ~Valid(d) -> "InvalidDocument"
      [] f >= d.frameCount -> "FrameOutOfRange"
      [] ~ValidRequest(d, region) -> "InvalidRegion"
      [] OTHER -> "Success"

RenderFrameRegion(d, f, region) ==
    LET status == Preflight(d, f, region)
    IN  IF status # "Success" THEN Refused(status)
        ELSE Compose([boards |-> d.boards,
                      layers |-> [i \in DOMAIN d.layers |-> RenderLayer(d, f, i)]], region)

RenderFrame(d, f) == RenderFrameRegion(d, f, DocumentViewRegion(d))

(* The background and the artwork of one artboard.                           *)
RenderArtboardRegion(d, f, id, region) ==
    CASE ~Valid(d) -> Refused("InvalidDocument")
      [] ~Has(d.boards, id) -> Refused("ArtboardNotFound")
      [] f >= d.frameCount -> Refused("FrameOutOfRange")
      [] ~ValidRequest(d, region) \/ ~Inside(region, Found(d.boards, id)) -> Refused("InvalidRegion")
      [] OTHER ->
            Compose([boards |-> <<Found(d.boards, id)>>,
                     layers |-> [i \in DOMAIN d.layers |->
                                    IF d.layers[i].board = id THEN RenderLayer(d, f, i) ELSE Omitted(i)]],
                    region)

RenderArtboard(d, f, id) ==
    LET board == Found(d.boards, id)
    IN  RenderArtboardRegion(d, f, id, Region(board.origin, board.width))
===============================================================================
