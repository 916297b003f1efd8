------------------------------ MODULE LayerEdits ------------------------------
(***************************************************************************)
(* The operations of DocumentEditor on layers and on the keyframes of       *)
(* keyframed layers.  Keyframes live in the frames, and every keyframed     *)
(* layer keeps an index of the frames that own one of its keyframes.        *)
(***************************************************************************)
EXTENDS DocumentEdits

SortedKeys(keys) == SortedBy(keys, [k \in DOMAIN keys |-> keys[k].layer])

(* std::lower_bound                                                          *)
InsertKey(keys, key) ==
    InsertAt(keys, Cardinality({k \in DOMAIN keys : keys[k].layer < key.layer}) + 1, key)

InsertFrameKeyframe(frames, f, key) ==
    IF HasFrame(frames, f)
    THEN [frames EXCEPT ![FrameOf(frames, f)].keys = InsertKey(@, key)]
    ELSE InsertAt(frames, Cardinality({i \in DOMAIN frames : frames[i].at < f}) + 1,
                  [at |-> f, keys |-> <<key>>])

InsertPlacements(frames, layer, placements) ==
    LET after[n \in 0 .. Len(placements)] ==
            IF n = 0 THEN frames
            ELSE InsertFrameKeyframe(after[n - 1], placements[n].at,
                                     [layer |-> layer, asset |-> placements[n].asset])
    IN  after[Len(placements)]

KeysWithout(keys, layers) == Kept(keys, {k \in DOMAIN keys : keys[k].layer \notin layers})

WithoutKeys(frames, layers) ==
    LET left == [i \in DOMAIN frames |-> [frames[i] EXCEPT !.keys = KeysWithout(@, layers)]]
    IN  Kept(left, {i \in DOMAIN left : left[i].keys # <<>>})

RemoveLayerKeyframes(frames, layer) == WithoutKeys(frames, {layer})

EraseFrameKeyframe(frames, f, layer) ==
    LET at == FrameOf(frames, f)
        keys == KeysWithout(frames[at].keys, {layer})
    IN  IF keys = <<>> THEN RemoveAt(frames, at) ELSE [frames EXCEPT ![at].keys = keys]

RelabelledKeys(keys, from, to) ==
    [k \in DOMAIN keys |-> [keys[k] EXCEPT !.layer = Renamed(@, from, to)]]

\* Mutant: the renamed keyframes stay where they are.
RenameLayerKeyframesInPlace(frames, from, to) ==
    [i \in DOMAIN frames |-> [frames[i] EXCEPT !.keys = RelabelledKeys(@, from, to)]]

RenameLayerKeyframes(frames, from, to) ==
    [i \in DOMAIN frames |->
        IF ~OwnsKey(frames[i], from) THEN frames[i]
        ELSE [frames[i] EXCEPT !.keys = SortedKeys(RelabelledKeys(@, from, to))]]

Layer(d, id) == Found(d.layers, id)
WithLayer(d, id, layer) == [d EXCEPT !.layers[Item(d.layers, id)] = layer]

(* rebuildLayerFrameIndex() after the frames became those given.             *)
Reindexed(d, frames, id) ==
    [d EXCEPT !.frames = frames,
              !.layers[Item(d.layers, id)].index =
                    IF Layer(d, id).keyed THEN OwnedFrames(frames, id) ELSE @]

KeyframePlacements(d, id) ==
    LET owned == OwnedFrames(d.frames, id)
    IN  [i \in DOMAIN owned |-> [at |-> owned[i], asset |-> KeyAsset(d, id, owned[i])]]

SortedPlacements(placements) == SortedBy(placements, [i \in DOMAIN placements |-> placements[i].at])

RaisedFor(d, layer) == IF NeedsCurrentFormat(layer) THEN Raised(d) ELSE d

-----------------------------------------------------------------------------
(* Layers                                                                    *)

CannotInsert(d, layer, at) ==
    layer.id = 0 \/ Has(d.layers, layer.id) \/ IsOutside(at, d.layers)

InsertLayer(d, layer, at) ==
    Edit(d, CannotInsert(d, layer, at), FALSE,
         [RaisedFor(d, layer) EXCEPT !.layers = Inserted(@, at, layer)], {"layers", "minor"})

InsertKeyframedLayer(d, layer, placements, at) ==
    LET held == [RaisedFor(d, layer) EXCEPT
                    !.layers = Inserted(@, at, [layer EXCEPT !.index = <<>>])]
    IN  Edit(d, ~layer.keyed \/ CannotInsert(d, layer, at), FALSE,
             Reindexed(held,
                       InsertPlacements(d.frames, layer.id, SortedPlacements(placements)),
                       layer.id),
             {"layers", "frames", "minor"})

InsertStaticLayer(d, layer, at) ==
    IF layer.kind \notin {"Bitmap", "Vector"} THEN Outcome(d, "rejected")
    ELSE InsertLayer(d, [layer EXCEPT !.keyed = FALSE, !.index = <<>>], at)

InsertDynamicLayer(d, layer, placements, at) ==
    IF layer.kind \notin {"Bitmap", "Vector"} THEN Outcome(d, "rejected")
    ELSE InsertKeyframedLayer(d, [layer EXCEPT !.keyed = TRUE, !.asset = 0], placements, at)

(* Keyframes follow a layer that changes its id and go with a layer that     *)
(* becomes static.                                                           *)
ReplaceLayer(d, id, layer) ==
    LET frames == IF layer.id = id THEN d.frames
                  ELSE RenameLayerKeyframes(d.frames, id, layer.id)
        held == WithLayer(RaisedFor(d, layer), id, layer)
    IN  Edit(d,
             \/ ~Has(d.layers, id) \/ layer.id = 0
             \/ layer.id # id /\ Has(d.layers, layer.id),
             FALSE,
             IF layer.keyed THEN Reindexed(held, frames, layer.id)
             ELSE [held EXCEPT !.frames = RemoveLayerKeyframes(frames, layer.id)],
             {"layers", "frames", "minor"})

(* Audio tracks share the ids of layers, but only layers are looked at.      *)
RenameLayer(d, id, to) ==
    Unchecked(d, ~Has(d.layers, id) \/ (id # to /\ (to = 0 \/ Has(d.layers, to))), id = to,
              Reindexed(WithLayer(d, id, [Layer(d, id) EXCEPT !.id = to]),
                        RenameLayerKeyframes(d.frames, id, to), to))

MoveLayer(d, id, to) ==
    LET from == Item(d.layers, id)
    IN  Unchecked(d, ~Has(d.layers, id) \/ to >= Len(d.layers), from = to + 1,
                  [d EXCEPT !.layers = MoveElement(@, from, to)])

RemoveLayer(d, id) ==
    Unchecked(d, ~Has(d.layers, id), FALSE,
              [d EXCEPT !.frames = RemoveLayerKeyframes(@, id),
                        !.layers = RemoveAt(@, Item(@, id))])

SetLayerName(d, id, name) ==
    Unchecked(d, ~Has(d.layers, id), Layer(d, id).name = name,
              WithLayer(d, id, [Layer(d, id) EXCEPT !.name = name]))

SetLayerVisible(d, id, visible) ==
    Unchecked(d, ~Has(d.layers, id), Layer(d, id).visible = visible,
              WithLayer(d, id, [Layer(d, id) EXCEPT !.visible = visible]))

SetLayerOpacity(d, id, opacity) ==
    Edit(d, ~Has(d.layers, id), Layer(d, id).opacity = opacity,
         WithLayer(d, id, [Layer(d, id) EXCEPT !.opacity = opacity]), {"layers"})

SetLayerTransform(d, id, x) ==
    Edit(d, ~Has(d.layers, id), Layer(d, id).x = x,
         WithLayer(d, id, [Layer(d, id) EXCEPT !.x = x]), {"layers"})

SetLayerBlendMode(d, id, blend) ==
    Edit(d, ~Has(d.layers, id), Layer(d, id).blend = blend,
         WithLayer(IF blend > 4 THEN Raised(d) ELSE d, id,
                   [Layer(d, id) EXCEPT !.blend = blend]),
         {"layers", "minor"})

\* Mutant: a refused appearance leaves the document in the newest format.
SetLayerAppearanceKeepsFormat(d, id, appearance) ==
    Edit(d, ~Has(d.layers, id), Layer(d, id).appearance = appearance,
         WithLayer(Raised(d), id, [Layer(d, id) EXCEPT !.appearance = appearance]),
         {"layers"})

SetLayerAppearance(d, id, appearance) ==
    Edit(d, ~Has(d.layers, id), Layer(d, id).appearance = appearance,
         WithLayer(Raised(d), id, [Layer(d, id) EXCEPT !.appearance = appearance]),
         {"layers", "minor"})

SetLayerFrameRange(d, id, range) ==
    Edit(d, ~Has(d.layers, id), Layer(d, id).range = range,
         WithLayer(IF range # <<>> THEN Raised(d) ELSE d, id,
                   [Layer(d, id) EXCEPT !.range = range]),
         {"layers", "minor"})

(* These two change a copy of the layer and replace it.                      *)
SetLayerMotion(d, id, motion) ==
    Checked(d, ~Has(d.layers, id),
            IF Layer(d, id).motion = motion THEN Outcome(d, "unchanged")
            ELSE ReplaceLayer(d, id, [Layer(d, id) EXCEPT !.motion = motion]))

SetVideoPlayback(d, id, playback) ==
    Checked(d, ~Has(d.layers, id) \/ Layer(d, id).kind # "Video",
            IF Layer(d, id).playback = playback THEN Outcome(d, "unchanged")
            ELSE ReplaceLayer(d, id, [Layer(d, id) EXCEPT !.playback = playback]))

-----------------------------------------------------------------------------
(* Sources and keyframes                                                     *)

SetStaticSource(d, id, asset) ==
    Edit(d, ~Has(d.layers, id), ~Layer(d, id).keyed /\ Layer(d, id).asset = asset,
         [WithLayer(d, id, [Layer(d, id) EXCEPT !.keyed = FALSE, !.asset = asset, !.index = <<>>])
            EXCEPT !.frames = RemoveLayerKeyframes(@, id)],
         {"layers", "frames"})

SetKeyframedSource(d, id, placements) ==
    LET sorted == SortedPlacements(placements)
    IN  Edit(d, ~Has(d.layers, id),
             Layer(d, id).keyed /\ KeyframePlacements(d, id) = sorted,
             Reindexed(WithLayer(d, id, [Layer(d, id) EXCEPT !.keyed = TRUE, !.asset = 0]),
                       InsertPlacements(RemoveLayerKeyframes(d.frames, id), id, sorted), id),
             {"layers", "frames"})

IsKeyframed(d, id) == Has(d.layers, id) /\ Layer(d, id).keyed

WithKeyAsset(frames, id, f, asset) ==
    LET at == FrameOf(frames, f)
    IN  [frames EXCEPT ![at].keys[KeyOf(frames[at], id)].asset = asset]

InsertKeyframe(d, id, f, asset) ==
    Edit(d, ~IsKeyframed(d, id) \/ HasKey(d, id, f), FALSE,
         Reindexed(d, InsertFrameKeyframe(d.frames, f, [layer |-> id, asset |-> asset]), id),
         {"layers", "frames"})

SetKeyframeAsset(d, id, f, asset) ==
    Edit(d, ~IsKeyframed(d, id) \/ ~HasKey(d, id, f), KeyAsset(d, id, f) = asset,
         [d EXCEPT !.frames = WithKeyAsset(@, id, f, asset)], {"frames"})

\* Mutant: content replaced at a keyframe goes into the asset that is there.
SetDynamicFrameContentInPlace(d, id, f, content) ==
    IF IsKeyframed(d, id) /\ HasKey(d, id, f)
    THEN ReplaceTypedAsset(d, KeyAsset(d, id, f), [content EXCEPT !.id = KeyAsset(d, id, f)])
    ELSE Edit(d, ~IsKeyframed(d, id) \/ f >= d.frameCount \/ Has(d.assets, content.id), FALSE,
              Reindexed([d EXCEPT !.assets = Append(@, content)],
                        InsertFrameKeyframe(d.frames, f, [layer |-> id, asset |-> content.id]), id),
              {"assets", "layers", "frames"})

(* The content comes as an asset with a fresh id, placed last.               *)
SetDynamicFrameContent(d, id, f, content) ==
    LET frames == IF HasKey(d, id, f) THEN WithKeyAsset(d.frames, id, f, content.id)
                  ELSE InsertFrameKeyframe(d.frames, f, [layer |-> id, asset |-> content.id])
    IN  Edit(d,
             \/ ~IsKeyframed(d, id)
             \/ LayerContent(Layer(d, id)) # AssetContent(content)
             \/ f >= d.frameCount
             \/ content.id = 0 \/ Has(d.assets, content.id),
             FALSE,
             Reindexed([d EXCEPT !.assets = Append(@, content)], frames, id),
             {"assets", "layers", "frames"})

MoveKeyframe(d, id, f, to) ==
    Edit(d, ~IsKeyframed(d, id) \/ ~HasKey(d, id, f) \/ (f # to /\ HasKey(d, id, to)), f = to,
         Reindexed(d, InsertFrameKeyframe(EraseFrameKeyframe(d.frames, f, id), to,
                                          [layer |-> id, asset |-> KeyAsset(d, id, f)]), id),
         {"layers", "frames"})

RemoveKeyframe(d, id, f) ==
    Edit(d, ~IsKeyframed(d, id) \/ ~HasKey(d, id, f), FALSE,
         Reindexed(d, EraseFrameKeyframe(d.frames, f, id), id), {"layers", "frames"})
===============================================================================
