------------------------------- MODULE Document -------------------------------
(***************************************************************************)
(* The document as a value: assets, layers that refer to them, frames that  *)
(* own the keyframes of the keyframed layers, audio, artboards; what a      *)
(* layer shows at a frame; and when a document is valid.  Both axes of the  *)
(* canvas are treated alike and one of them is modelled.                    *)
(***************************************************************************)
EXTENDS Items

CurrentFormatMinor == 22
CoordinateMax == 40     \* stands for 2^31 - 1
Extent == -CoordinateMax - 1 .. CoordinateMax      \* std::int32_t
ChunkSizes == {4, 8}    \* stands for the powers of two from 32 to 4096

(* The kinds a ControlNet layer and its assets share, with the format that   *)
(* introduced each.                                                          *)
ControlFormat == [Pose |-> 8, Depth |-> 9, LineArt |-> 10, Canny |-> 11, Scribble |-> 11,
                  Mlsd |-> 12, NormalMap |-> 13, Shuffle |-> 14, Tile |-> 15,
                  Reference |-> 16, IpAdapter |-> 17]
ControlKind == DOMAIN ControlFormat

AssetKind == {"Raster", "Vector", "Chunked", "Video"} \union ControlKind
LayerKind == {"Bitmap", "Vector", "Video", "SemanticSegment"} \union ControlKind

HasKind(d, id, kind) == Has(d.assets, id) /\ Found(d.assets, id).kind = kind

AssetContent(asset) == IF asset.kind = "Chunked" THEN "Raster" ELSE asset.kind

LayerContent(layer) ==
    IF layer.kind \in {"Bitmap", "SemanticSegment"} THEN "Raster" ELSE layer.kind

IsArtwork(layer) == layer.kind \in {"Bitmap", "Vector", "Video"}

-----------------------------------------------------------------------------
(* The types of a document                                                   *)

VisualAsset == [id : Nat, kind : AssetKind, parts : Seq(STRING)]

Appearance == [clipped : BOOLEAN, mask : Nat, vectorMask : Nat, fill : Nat]
ControlSettings == [model : STRING, scale : Nat]

(* The settings a layer has by its kind, and what stands for those of a      *)
(* layer of another.                                                         *)
HasRole(kind) == kind \in ControlKind \union {"SemanticSegment"}
HasSetup(kind) == kind \in {"SemanticSegment", "Reference"}
NoControl == [model |-> "A", scale |-> 1]
NoSetup == "s1"
NoPlayback == <<0, 0>>

(* A layer is one of the alternatives of a variant, and so is its source.    *)
IsVariant(layer) ==
    /\ IF layer.keyed THEN layer.asset = 0 ELSE layer.index = <<>>
    /\ HasRole(layer.kind) \/ layer.control = NoControl
    /\ HasSetup(layer.kind) \/ layer.setup = NoSetup
    /\ layer.kind = "Video" \/ layer.playback = NoPlayback

CanvasLayer ==
    {layer \in [id : Nat, name : STRING, kind : LayerKind, board : Nat, x : Int,
                visible : BOOLEAN, opacity : Nat, blend : Nat, appearance : Appearance,
                keyed : BOOLEAN, asset : Nat, index : Seq(Nat), range : Seq(Nat),
                motion : Seq(Nat), control : ControlSettings, setup : STRING,
                playback : Seq(Nat)] :
        IsVariant(layer)}

FrameKeyframe == [layer : Nat, asset : Nat]
CanvasFrame == [at : Nat, keys : Seq(FrameKeyframe)]
KeyframePlacement == [at : Nat, asset : Nat]

AudioAsset == [id : Nat, length : Nat]
AudioClip == [id : Nat, asset : Nat, start : Nat, duration : Nat, offset : Nat]
AudioTrack == [id : Nat, gain : Nat, clips : Seq(AudioClip)]

Artboard ==
    [id : Nat, name : STRING, origin : Int, width : Int, background : Nat, visible : BOOLEAN]

(* A document without publication metadata has no canvases to publish.       *)
CanvasDocument ==
    {d \in [minor : Nat, width : Extent, infinite : BOOLEAN, origin : Int, chunkSize : Nat,
            rate : Int, frameCount : Int, prompt : STRING, author : Nat,
            published : BOOLEAN, canvases : Seq(Nat), cover : Nat,
            assets : Seq(VisualAsset), layers : Seq(CanvasLayer), frames : Seq(CanvasFrame),
            audio : Seq(AudioAsset), tracks : Seq(AudioTrack), boards : Seq(Artboard)] :
        d.published \/ (d.canvases = <<>> /\ d.cover = 0)}

-----------------------------------------------------------------------------
PlainAppearance == [clipped |-> FALSE, mask |-> 0, vectorMask |-> 0, fill |-> 1]

(* What makes insertLayer, insertKeyframedLayer and replaceLayer raise the   *)
(* format of the document.                                                   *)
NeedsCurrentFormat(layer) ==
    \/ layer.appearance # PlainAppearance
    \/ layer.blend > 4
    \/ layer.range # <<>> \/ layer.motion # <<>>
    \/ layer.kind \notin {"Bitmap", "Vector"}

-----------------------------------------------------------------------------
(* Frames, keyframes and what is shown                                       *)

FrameOf(frames, f) == CHOOSE i \in DOMAIN frames : frames[i].at = f
HasFrame(frames, f) == \E i \in DOMAIN frames : frames[i].at = f
OwnsKey(frame, layer) == \E i \in DOMAIN frame.keys : frame.keys[i].layer = layer
KeyOf(frame, layer) == CHOOSE i \in DOMAIN frame.keys : frame.keys[i].layer = layer

HasKey(d, layer, f) == HasFrame(d.frames, f) /\ OwnsKey(d.frames[FrameOf(d.frames, f)], layer)

KeyAsset(d, layer, f) ==
    LET frame == d.frames[FrameOf(d.frames, f)] IN frame.keys[KeyOf(frame, layer)].asset

LayerExistsAt(d, layer, f) ==
    /\ f < d.frameCount
    /\ layer.range # <<>> => layer.range[1] <= f /\ f <= layer.range[2]

(* The references assetReferences() lists: masks, static sources, keyframes  *)
(* of layers that exist.                                                     *)
MaskIds(layer) == {layer.appearance.mask, layer.appearance.vectorMask} \ {0}

ReferencedAssets(d) ==
    {d.layers[i].asset : i \in {j \in DOMAIN d.layers : ~d.layers[j].keyed}}
      \union (UNION {MaskIds(d.layers[i]) : i \in DOMAIN d.layers})
      \union (UNION {{d.frames[i].keys[j].asset :
                        j \in {k \in DOMAIN d.frames[i].keys :
                                  Has(d.layers, d.frames[i].keys[k].layer)}} :
                     i \in DOMAIN d.frames})

(* resolveAssetAt(): a keyframed layer holds the last of its keyframes up to *)
(* the frame, found through the index the layer keeps.  0 is nothing.        *)
OwnerFrame(layer, f) ==
    LET upTo == {i \in DOMAIN layer.index : layer.index[i] <= f}
    IN  layer.index[CHOOSE i \in upTo : \A j \in upTo : j <= i]

ResolvedId(d, layer, f) ==
    IF ~layer.keyed THEN layer.asset
    ELSE IF /\ \E i \in DOMAIN layer.index : layer.index[i] <= f
            /\ HasKey(d, layer.id, OwnerFrame(layer, f))
         THEN KeyAsset(d, layer.id, OwnerFrame(layer, f))
         ELSE 0

ResolveAssetAt(d, layer, f) ==
    IF /\ LayerExistsAt(d, layer, f)
       /\ Has(d.assets, ResolvedId(d, layer, f))
       /\ AssetContent(Found(d.assets, ResolvedId(d, layer, f))) = LayerContent(layer)
    THEN ResolvedId(d, layer, f)
    ELSE 0

(* Where the artwork of a layer lies in the world.                           *)
BoardOrigin(d, board) == IF board = 0 THEN 0 ELSE Found(d.boards, board).origin
Placement(d, layer) == BoardOrigin(d, layer.board) + layer.x

(* audioSampleFrameCount() of a rate of rate/1 and a sample rate of 2 a      *)
(* second: the exact duration, rounded up to whole samples.                  *)
SampleRate == 2
SampleFrames(frames, rate) ==
    LET remainder == (frames % rate) * SampleRate
    IN  (frames \div rate) * SampleRate
          + remainder \div rate + (IF remainder % rate # 0 THEN 1 ELSE 0)

-----------------------------------------------------------------------------
(* validate()                                                                *)

Ascending(s) == \A i, j \in DOMAIN s : i < j => s[i] < s[j]

ValidCanvas(d) ==
    /\ d.width > 0
    /\ IF d.infinite
       THEN /\ d.minor >= 1 /\ d.chunkSize \in ChunkSizes
            /\ d.origin + d.width <= CoordinateMax
       ELSE d.origin = 0
    /\ d.rate > 0 /\ d.frameCount > 0

(* documentViewRegion(): the canvas and all artboards still fit.             *)
ViewFits(d) ==
    LET starts == {d.origin} \union {d.boards[i].origin : i \in DOMAIN d.boards}
        ends == {d.origin + d.width}
                  \union {d.boards[i].origin + d.boards[i].width : i \in DOMAIN d.boards}
    IN  \A a \in starts, b \in ends : b <= CoordinateMax /\ b - a <= CoordinateMax

ValidArtboards(d) ==
    /\ d.boards # <<>> => d.minor >= 18 /\ ViewFits(d)
    /\ \A i \in DOMAIN d.boards :
            /\ d.boards[i].id # 0 /\ d.boards[i].width > 0
            /\ d.boards[i].origin + d.boards[i].width <= CoordinateMax
    /\ Distinct(d.boards)

ValidMetadata(d) ==
    /\ d.author # 0 => d.minor >= 5
    /\ d.prompt # "none" => d.minor >= 2 /\ d.prompt # "bad"

(* The publication lists distinct artboards, or 0 for the root canvas, and   *)
(* its cover is one of them.                                                 *)
ValidPublication(d) ==
    d.published =>
        /\ d.minor >= 22
        /\ \A i \in DOMAIN d.canvases : d.canvases[i] = 0 \/ Has(d.boards, d.canvases[i])
        /\ \A i, j \in DOMAIN d.canvases : d.canvases[i] = d.canvases[j] => i = j
        /\ d.cover # 0 =>
                /\ Has(d.boards, d.cover)
                /\ d.canvases # <<>> => \E i \in DOMAIN d.canvases : d.canvases[i] = d.cover

ValidAsset(d, asset) ==
    /\ asset.id # 0
    /\ \A i \in DOMAIN asset.parts : asset.parts[i] # "bad"
    /\ asset.kind = "Chunked" => d.infinite
    /\ asset.kind = "Video" => d.minor >= 6 /\ asset.parts # <<>>
    /\ asset.kind \in ControlKind => d.minor >= ControlFormat[asset.kind]

ValidAssets(d) ==
    /\ \A i \in DOMAIN d.assets : ValidAsset(d, d.assets[i])
    /\ Distinct(d.assets)
    /\ (d.audio # <<>> \/ d.tracks # <<>>) => d.minor >= 4
    /\ \A i \in DOMAIN d.audio :
            d.audio[i].id # 0 /\ d.audio[i].length > 0 /\ ~Has(d.assets, d.audio[i].id)
    /\ Distinct(d.audio)

ValidMask(d, id, kind) == id # 0 => HasKind(d, id, kind)

\* Mutant: the base may lie on another artboard.
HasClipBaseAnywhere(d, i) ==
    \E j \in 1 .. i - 1 : IsArtwork(d.layers[j]) /\ ~d.layers[j].appearance.clipped

(* A clipped layer needs an unclipped layer of artwork below it in the same  *)
(* composition.                                                              *)
HasClipBase(d, i) ==
    \E j \in 1 .. i - 1 : /\ IsArtwork(d.layers[j]) /\ ~d.layers[j].appearance.clipped
                          /\ d.layers[j].board = d.layers[i].board

ValidAppearance(d, i) ==
    LET layer == d.layers[i]
        look == layer.appearance
    IN  /\ IsArtwork(layer) \/ look = PlainAppearance
        /\ look.fill <= 1
        /\ ValidMask(d, look.mask, "Raster") /\ ValidMask(d, look.vectorMask, "Vector")
        /\ look.clipped => HasClipBase(d, i)
        /\ look # PlainAppearance \/ layer.blend > 4 => d.minor >= 20

(* Blend modes: 0 and 5 stand for those up to Multiply and beyond it, 9 for  *)
(* one no layer supports.                                                    *)
ValidProperties(d, layer) ==
    /\ layer.id # 0 /\ layer.opacity <= 1 /\ layer.blend \in {0, 5}
    /\ layer.board # 0 => d.minor >= 18 /\ Has(d.boards, layer.board)
    /\ layer.range # <<>> =>
            /\ d.minor >= 3
            /\ layer.range[1] <= layer.range[2] /\ layer.range[2] < d.frameCount
    /\ layer.motion # <<>> => d.minor >= 6
    /\ \A i \in DOMAIN layer.motion : layer.motion[i] < d.frameCount
    /\ Ascending(layer.motion)

(* The states of an IP-Adapter layer are embeddings of the adapter its       *)
(* settings name; the first part of such an asset stands for its adapter.    *)
SourceAssets(d, layer) ==
    IF layer.keyed
    THEN {KeyAsset(d, layer.id, f) : f \in {g \in ToSet(layer.index) : HasKey(d, layer.id, g)}}
    ELSE {layer.asset}

ValidAdapter(d, layer) ==
    layer.kind = "IpAdapter" =>
        \A id \in SourceAssets(d, layer) :
            /\ HasKind(d, id, "IpAdapter")
            /\ Head(Found(d.assets, id).parts) = layer.control.model

ValidControl(d, layer) ==
    /\ layer.control.scale <= 1 /\ layer.setup # "bad"
    /\ ValidAdapter(d, layer)
    /\ layer.kind \in ControlKind => d.minor >= ControlFormat[layer.kind]
    /\ layer.kind = "SemanticSegment" => d.minor >= 7

(* playback.sourceInFrame and sourceOutFrame, with 0 for an absent end.      *)
ValidPlayback(d, layer) ==
    layer.kind = "Video" =>
        /\ d.minor >= 6 /\ ~layer.keyed
        /\ Has(d.assets, layer.asset) =>
                LET length == Len(Found(d.assets, layer.asset).parts)
                    out == IF layer.playback[2] = 0 THEN length ELSE layer.playback[2]
                IN  layer.playback[1] < out /\ out <= length

ReferenceIsValid(d, id, kind) == Has(d.assets, id) /\ AssetContent(Found(d.assets, id)) = kind

ValidSource(d, layer) ==
    IF layer.keyed
    THEN /\ layer.index # <<>> /\ layer.index[1] = 0 /\ Ascending(layer.index)
         /\ \A i \in DOMAIN layer.index : layer.index[i] < d.frameCount
    ELSE ReferenceIsValid(d, layer.asset, LayerContent(layer))

ValidLayers(d) ==
    /\ \A i \in DOMAIN d.layers :
            /\ ValidAppearance(d, i) /\ ValidProperties(d, d.layers[i])
            /\ ValidControl(d, d.layers[i]) /\ ValidPlayback(d, d.layers[i])
            /\ ValidSource(d, d.layers[i])
    /\ Distinct(d.layers)

ClipFits(d, clip) ==
    LET asset == Found(d.audio, clip.asset)
    IN  /\ Has(d.audio, clip.asset)
        /\ clip.offset <= asset.length
        /\ SampleFrames(clip.duration, d.rate) <= asset.length - clip.offset

ValidTrack(d, track) ==
    /\ track.id # 0 /\ ~Has(d.layers, track.id)
    /\ track.gain <= 1
    /\ \A i \in DOMAIN track.clips :
            /\ track.clips[i].id # 0 /\ track.clips[i].duration > 0
            /\ track.clips[i].start + track.clips[i].duration <= d.frameCount
            /\ i > 1 => track.clips[i].start >= track.clips[i-1].start + track.clips[i-1].duration
            /\ ClipFits(d, track.clips[i])

ValidAudio(d) ==
    /\ \A t \in DOMAIN d.tracks : ValidTrack(d, d.tracks[t])
    /\ Distinct(d.tracks)
    /\ \A t, u \in DOMAIN d.tracks :
            \A i \in DOMAIN d.tracks[t].clips, j \in DOMAIN d.tracks[u].clips :
                d.tracks[t].clips[i].id = d.tracks[u].clips[j].id => t = u /\ i = j

ValidKeyframe(d, key) ==
    /\ Has(d.layers, key.layer) /\ Found(d.layers, key.layer).keyed
    /\ ReferenceIsValid(d, key.asset, LayerContent(Found(d.layers, key.layer)))

ValidFrames(d) ==
    /\ \A i \in DOMAIN d.frames :
            /\ d.frames[i].at < d.frameCount /\ d.frames[i].keys # <<>>
            /\ i > 1 => d.frames[i-1].at < d.frames[i].at
            /\ \A k \in DOMAIN d.frames[i].keys :
                    /\ ValidKeyframe(d, d.frames[i].keys[k])
                    /\ k > 1 => d.frames[i].keys[k-1].layer < d.frames[i].keys[k].layer

(* The frames that own a keyframe of a layer, in the order of the frames.    *)
OwnedFrames(frames, layer) ==
    LET owners == Kept(frames, {i \in DOMAIN frames : OwnsKey(frames[i], layer)})
    IN  [i \in DOMAIN owners |-> owners[i].at]

IndexMatchesFrames(d) ==
    \A i \in DOMAIN d.layers :
        d.layers[i].keyed => d.layers[i].index = OwnedFrames(d.frames, d.layers[i].id)

Valid(d) ==
    /\ d.minor <= CurrentFormatMinor
    /\ ValidCanvas(d) /\ ValidArtboards(d)
    /\ ValidMetadata(d) /\ ValidPublication(d)
    /\ ValidAssets(d) /\ ValidLayers(d) /\ ValidAudio(d)
    /\ ValidFrames(d) /\ IndexMatchesFrames(d)
===============================================================================
