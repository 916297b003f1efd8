---------------------------- MODULE ControlNetEdits ----------------------------
(***************************************************************************)
(* The operations of DocumentEditor on ControlNet layers and their assets.  *)
(* Every kind has an insertion and a replacement of its assets, an          *)
(* insertion of its layers and a setter for one part of an asset.  An asset *)
(* is a sequence of parts: samples, segments, anchors or embedded values.   *)
(***************************************************************************)
EXTENDS LayerEdits

InsertControlAsset(d, kind, id, parts, at) == InsertTypedAsset(d, Visual(id, kind, parts), at)

InsertMlsdAsset(d, id, parts, at) == InsertControlAsset(d, "Mlsd", id, parts, at)
InsertCannyAsset(d, id, parts, at) == InsertControlAsset(d, "Canny", id, parts, at)
InsertScribbleAsset(d, id, parts, at) == InsertControlAsset(d, "Scribble", id, parts, at)
InsertLineArtAsset(d, id, parts, at) == InsertControlAsset(d, "LineArt", id, parts, at)
InsertNormalMapAsset(d, id, parts, at) == InsertControlAsset(d, "NormalMap", id, parts, at)
InsertShuffleAsset(d, id, parts, at) == InsertControlAsset(d, "Shuffle", id, parts, at)
InsertTileAsset(d, id, parts, at) == InsertControlAsset(d, "Tile", id, parts, at)
InsertReferenceAsset(d, id, parts, at) == InsertControlAsset(d, "Reference", id, parts, at)
InsertIpAdapterAsset(d, id, parts, at) == InsertControlAsset(d, "IpAdapter", id, parts, at)
InsertDepthAsset(d, id, parts, at) == InsertControlAsset(d, "Depth", id, parts, at)
InsertPoseAsset(d, id, parts, at) == InsertControlAsset(d, "Pose", id, parts, at)

ReplaceControlAsset(d, kind, id, parts) == ReplaceTypedAsset(d, id, Visual(id, kind, parts))

ReplaceMlsdAsset(d, id, parts) == ReplaceControlAsset(d, "Mlsd", id, parts)
ReplaceCannyAsset(d, id, parts) == ReplaceControlAsset(d, "Canny", id, parts)
ReplaceScribbleAsset(d, id, parts) == ReplaceControlAsset(d, "Scribble", id, parts)
ReplaceLineArtAsset(d, id, parts) == ReplaceControlAsset(d, "LineArt", id, parts)
ReplaceNormalMapAsset(d, id, parts) == ReplaceControlAsset(d, "NormalMap", id, parts)
ReplaceShuffleAsset(d, id, parts) == ReplaceControlAsset(d, "Shuffle", id, parts)
ReplaceTileAsset(d, id, parts) == ReplaceControlAsset(d, "Tile", id, parts)
ReplaceReferenceAsset(d, id, parts) == ReplaceControlAsset(d, "Reference", id, parts)
ReplaceIpAdapterAsset(d, id, parts) == ReplaceControlAsset(d, "IpAdapter", id, parts)
ReplaceDepthAsset(d, id, parts) == ReplaceControlAsset(d, "Depth", id, parts)
ReplacePoseAsset(d, id, parts) == ReplaceControlAsset(d, "Pose", id, parts)

-----------------------------------------------------------------------------
(* One part of an asset: a copy of the asset is changed and put back.        *)

HasPart(d, id, kind, index) == HasKind(d, id, kind) /\ index < Len(Found(d.assets, id).parts)
Part(d, id, index) == Found(d.assets, id).parts[index + 1]

SetPart(d, kind, id, index, refused, value) ==
    Checked(d, ~HasPart(d, id, kind, index) \/ refused,
            ReplaceControlAsset(d, kind, id,
                                ReplaceAt(Found(d.assets, id).parts, index + 1, value)))

SetMlsdSegment(d, id, index, value) == SetPart(d, "Mlsd", id, index, FALSE, value)
SetCannySample(d, id, index, value) == SetPart(d, "Canny", id, index, FALSE, value)
SetScribbleSample(d, id, index, value) == SetPart(d, "Scribble", id, index, FALSE, value)
SetLineArtSample(d, id, index, value) == SetPart(d, "LineArt", id, index, FALSE, value)
SetNormalMapSample(d, id, index, value) == SetPart(d, "NormalMap", id, index, FALSE, value)
SetShuffleSample(d, id, index, value) == SetPart(d, "Shuffle", id, index, FALSE, value)
SetTileSample(d, id, index, value) == SetPart(d, "Tile", id, index, FALSE, value)
SetReferenceSample(d, id, index, value) == SetPart(d, "Reference", id, index, FALSE, value)
SetDepthSample(d, id, index, value) == SetPart(d, "Depth", id, index, FALSE, value)

(* The first part of an embedding names its adapter and is not a value.      *)
SetIpAdapterValue(d, id, index, value) == SetPart(d, "IpAdapter", id, index, index = 0, value)

(* Anchors of a pose: a locked one does not move until it is unlocked.       *)
Anchors == {"here", "there", "hereLocked", "thereLocked"}
Position(anchor) == IF anchor \in {"here", "hereLocked"} THEN "here" ELSE "there"
Locked(anchor) == anchor \in {"hereLocked", "thereLocked"}

SetPoseAnchor(d, id, index, anchor) ==
    LET prior == Part(d, id, index)
    IN  SetPart(d, "Pose", id, index,
                \/ prior \notin Anchors
                \/ Locked(prior) /\ Position(prior) # Position(anchor),
                anchor)

SetPoseExpressionWeight(d, id, index, weight) ==
    SetPart(d, "Pose", id, index, Part(d, id, index) \in Anchors, weight)

-----------------------------------------------------------------------------
(* Layers                                                                    *)

\* A layer of this kind, with the properties and the settings of the one given.
OfType(kind, layer) ==
    [layer EXCEPT !.kind = kind, !.playback = NoPlayback,
                  !.setup = IF HasSetup(kind) THEN @ ELSE NoSetup]

InsertControlLayer(d, kind, layer, placements, at) ==
    LET typed == OfType(kind, layer)
    IN  IF layer.keyed THEN InsertKeyframedLayer(d, typed, placements, at)
        ELSE IF placements # <<>> THEN Outcome(d, "rejected")
        ELSE InsertLayer(d, typed, at)

InsertMlsdLayer(d, layer, placements, at) == InsertControlLayer(d, "Mlsd", layer, placements, at)
InsertCannyLayer(d, layer, placements, at) == InsertControlLayer(d, "Canny", layer, placements, at)
InsertScribbleLayer(d, layer, placements, at) ==
    InsertControlLayer(d, "Scribble", layer, placements, at)
InsertLineArtLayer(d, layer, placements, at) ==
    InsertControlLayer(d, "LineArt", layer, placements, at)
InsertNormalMapLayer(d, layer, placements, at) ==
    InsertControlLayer(d, "NormalMap", layer, placements, at)
InsertShuffleLayer(d, layer, placements, at) ==
    InsertControlLayer(d, "Shuffle", layer, placements, at)
InsertTileLayer(d, layer, placements, at) == InsertControlLayer(d, "Tile", layer, placements, at)
InsertReferenceLayer(d, layer, placements, at) ==
    InsertControlLayer(d, "Reference", layer, placements, at)
InsertIpAdapterLayer(d, layer, placements, at) ==
    InsertControlLayer(d, "IpAdapter", layer, placements, at)
InsertDepthLayer(d, layer, placements, at) == InsertControlLayer(d, "Depth", layer, placements, at)
InsertPoseLayer(d, layer, placements, at) == InsertControlLayer(d, "Pose", layer, placements, at)
InsertSemanticSegmentLayer(d, layer, placements, at) ==
    InsertControlLayer(d, "SemanticSegment", layer, placements, at)

IsKind(d, id, kind) == Has(d.layers, id) /\ Layer(d, id).kind = kind
IsControl(d, id) == Has(d.layers, id) /\ HasRole(Layer(d, id).kind)

(* "setup" stands for the settings only one kind of layer has.               *)
SetSetup(d, kind, id, setup) ==
    Checked(d, ~IsKind(d, id, kind),
            IF Layer(d, id).setup = setup THEN Outcome(d, "unchanged")
            ELSE ReplaceLayer(d, id, [Layer(d, id) EXCEPT !.setup = setup]))

SetReferenceSettings(d, id, settings) == SetSetup(d, "Reference", id, settings)
SetSemanticSegmentation(d, id, segmentation) == SetSetup(d, "SemanticSegment", id, segmentation)

SetControlNetSettings(d, id, settings) ==
    Checked(d, ~IsControl(d, id),
            IF Layer(d, id).control = settings THEN Outcome(d, "unchanged")
            ELSE ReplaceLayer(d, id, [Layer(d, id) EXCEPT !.control = settings]))

(* A patch is the settings with the fields it names.                         *)
PatchControlNetSettings(d, id, patch) ==
    Checked(d, ~IsControl(d, id),
            SetControlNetSettings(d, id, [f \in DOMAIN Layer(d, id).control |->
                IF f \in DOMAIN patch THEN patch[f] ELSE Layer(d, id).control[f]]))

(* A layer and the assets it refers to, replaced together.  The caller gives *)
(* each asset once.                                                          *)
WithAssets(d, assets) ==
    [d EXCEPT !.assets = [i \in DOMAIN @ |->
        IF Has(assets, @[i].id) THEN Found(assets, @[i].id) ELSE @[i]]]

SetControlNetParameters(d, id, layer, assets) ==
    LET prior == Layer(d, id)
        required == SourceAssets(d, prior)
    IN  Edit(d,
             \/ ~IsControl(d, id) \/ layer.kind # prior.kind \/ layer.id # id
             \/ <<layer.keyed, layer.asset, layer.index>> # <<prior.keyed, prior.asset, prior.index>>
             \/ Len(assets) # Cardinality(required)
             \/ {assets[i].id : i \in DOMAIN assets} # required
             \/ \E i \in DOMAIN assets : ~HasKind(d, assets[i].id, assets[i].kind),
             FALSE,
             WithLayer(WithAssets(d, assets), id, layer), {"layers", "assets"})
===============================================================================
