----------------------------- MODULE DocumentEditor -----------------------------
(***************************************************************************)
(* DocumentEditor bound to a document in memory or to a working file.       *)
(* Every operation of the editor is a step: in memory it works on the bound *)
(* document itself; through a file it works on a draft that becomes the     *)
(* document when the file validates and commits it (editFile()).  What the  *)
(* last call returned is not kept: no operation reads it.                   *)
(***************************************************************************)
EXTENDS ControlNetEdits, ArtboardEdits

CONSTANTS
    Sessions,       \* documents to start from, each with the groups of calls made on it
                    \* and bounds: on the edits, on those that end unreported
    AssetIds, LayerIds, BoardIds, AudioIds,     \* the ids that calls name
    FrameNumbers, Counts, Places, Indexes,      \* the numbers they give
    Values,                                     \* the parts of assets they give
    Appearances, Ranges, NewLayers, Placements  \* the values of layers they give

VARIABLES
    doc,            \* the bound document
    binding,        \* "none", "memory", "file" or "lost": a file closed or opened again
    revision,       \* m_revision
    session,        \* chosen by Init
    touched,        \* what the last edit set out to change
    unreported      \* history: edits the file took and reported as failed

countVars == <<revision, unreported>>
vars == <<doc, binding, countVars, session, touched>>

(* The texts that actions name are texts like any other, which the provers   *)
(* have to be told.                                                          *)
TextsAreStrings == {"none", "n", "s1", "s2", "bad", "A", "B"} \subseteq STRING

(* What calls give has the types of the interface; a session with ControlNet *)
(* calls has a kind for them.                                                *)
DocumentCallsAssumption ==
    /\ TextsAreStrings
    /\ \A s \in Sessions :
            /\ s.start \in CanvasDocument /\ s.parts \subseteq STRING
            /\ "control" \in s.calls => HasRole(s.kind)
    /\ AssetIds \union LayerIds \union BoardIds \union AudioIds \subseteq Nat
    /\ FrameNumbers \subseteq Nat /\ Counts \subseteq 0 .. CoordinateMax
    /\ Places \subseteq Int /\ Indexes \subseteq Nat \union {AppendDocumentIndex}
    /\ Values \subseteq STRING
    /\ Appearances \subseteq Appearance /\ Ranges \subseteq Seq(Nat)
    /\ NewLayers \subseteq CanvasLayer /\ Placements \subseteq Seq(KeyframePlacement)

-----------------------------------------------------------------------------
(* What a call sets out to change: what layers show at frames, where layers  *)
(* lie, the id of a layer; or the artboard it copies.                        *)

Frames == 0 .. doc.frameCount - 1

Nothing == [shows |-> {}, moves |-> {}, name |-> <<0, 0>>, copy |-> <<0, 0>>]
Shows(pairs) == [Nothing EXCEPT !.shows = pairs]
Moves(layers) == [Nothing EXCEPT !.moves = layers]
Whole(id) == [Nothing EXCEPT !.shows = {id} \X Frames, !.moves = {id}]

(* A keyframe holds until the next one of its layer.                         *)
HeldFrom(id, f) == {g \in Frames : f <= g /\ \A h \in f + 1 .. g : ~HasKey(doc, id, h)}
Held(id, f) == Shows({id} \X HeldFrom(id, f))

HoldsAsset(layer, f, asset) ==
    IF layer.keyed
    THEN \E g \in 0 .. f : /\ HasKey(doc, layer.id, g) /\ f \in HeldFrom(layer.id, g)
                           /\ KeyAsset(doc, layer.id, g) = asset
    ELSE layer.asset = asset

Asset(id) ==
    Shows(UNION {{layer.id} \X {f \in Frames : HoldsAsset(layer, f, id)} :
                    layer \in ToSet(doc.layers)})

On(board) == {layer.id : layer \in ToSet(OnBoard(doc, board))}

-----------------------------------------------------------------------------
Counted == revision' = revision + 1 /\ UNCHANGED unreported

(* The file validates the draft before it commits it.                        *)
Commits(outcome) == outcome.result = "applied" /\ Valid(outcome.doc)

InMemory(outcome, touch) ==
    /\ binding = "memory"
    /\ doc' = outcome.doc
    /\ IF outcome.result = "applied" THEN Counted /\ touched' = touch
       ELSE UNCHANGED <<countVars, touched>>
    /\ UNCHANGED <<binding, session>>

(* A committed draft is the document.  Unless no row was written, the file   *)
(* may still report a failure, and then the editor does not count the edit.  *)
CommitDraft(outcome, touch) ==
    /\ doc' = outcome.doc /\ touched' = touch
    /\ \/ Counted
       \/ /\ unreported < session.losses
          /\ [outcome.doc EXCEPT !.author = doc.author] # doc
          /\ unreported' = unreported + 1 /\ UNCHANGED revision
    /\ UNCHANGED <<binding, session>>

\* Mutant: the operation works on the document itself, not on a draft.
RefuseDraftInPlace(outcome) ==
    /\ doc' = outcome.doc
    /\ UNCHANGED <<binding, countVars, session, touched>>

(* The operation, the validation or the file refuses, and the draft is       *)
(* dropped; a file that cannot tell what became of its edit detaches itself. *)
RefuseDraft(outcome) ==
    /\ \/ binding' = "file"
       \/ outcome.result \in {"applied", "unchanged"} /\ binding' = "lost"
    /\ UNCHANGED <<doc, countVars, session, touched>>

EditFile(outcome, touch) ==
    /\ binding = "file"
    /\ RefuseDraft(outcome) \/ IF Commits(outcome) THEN CommitDraft(outcome, touch) ELSE FALSE

Perform(outcome, touch) ==
    /\ revision + unreported < session.edits
    /\ InMemory(outcome, touch) \/ EditFile(outcome, touch)

Called(group) == binding \in {"memory", "file"} /\ group \in session.calls

Bind ==
    /\ binding = "none" /\ doc = session.start
    /\ Valid(doc)
    /\ binding' \in {"memory", "file"}
    /\ revision' = 0 /\ unreported' = 0
    /\ UNCHANGED <<doc, session, touched>>

Unbind ==
    /\ binding # "none"
    /\ binding' = "none" /\ revision' = 0 /\ unreported' = 0
    /\ UNCHANGED <<doc, session, touched>>

FileGoes ==
    /\ binding = "file" /\ binding' = "lost"
    /\ UNCHANGED <<doc, countVars, session, touched>>

-----------------------------------------------------------------------------
(* The calls, by what they work on                                           *)

EditCanvas ==
    /\ Called("canvas")
    /\ \/ \E n \in Counts : \/ Perform(SetCanvasExtent(doc, n), Nothing)
                            \/ Perform(SetFrameRate(doc, n), Nothing)
                            \/ Perform(SetFrameCount(doc, n), Nothing)
       \/ \E x \in Places, n \in Counts : Perform(EnsureInfiniteCanvasRegion(doc, x, n), Nothing)

EditMetadata ==
    /\ Called("metadata")
    /\ \/ \E v \in Values : Perform(SetStableDiffusionMetadata(doc, v), Nothing)
       \/ Perform(ClearStableDiffusionMetadata(doc), Nothing)
       \/ \E b, c \in BoardIds \union {0} :
            \/ Perform(SetPublicationMetadata(doc, <<b, c>>, c), Nothing)
            \/ Perform(SetPublicationMetadata(doc, <<b>>, c), Nothing)
       \/ Perform(ClearPublicationMetadata(doc), Nothing)
       \/ \E author \in {0, 1} : Perform(SetFileAuthor(doc, author), Nothing)

EditAssets ==
    /\ Called("assets")
    /\ \/ \E a \in AssetIds, v \in Values, at \in Indexes :
            \/ Perform(InsertRasterAsset(doc, a, v, at), Nothing)
            \/ Perform(InsertVectorAsset(doc, a, <<v>>, at), Nothing)
            \/ Perform(InsertChunkedRasterAsset(doc, a, <<v>>, at), Nothing)
            \/ Perform(InsertVideoAsset(doc, a, <<v, v>>, at), Nothing)
       \/ \E a \in AssetIds, v \in Values :
            \/ Perform(ReplaceRasterPixels(doc, a, v), Asset(a))
            \/ Perform(ReplaceVectorData(doc, a, <<v>>), Asset(a))
            \/ Perform(ReplaceVideoAsset(doc, a, Visual(a, "Video", <<v>>)), Asset(a))
       \/ \E a, b \in AssetIds : Perform(RenameAsset(doc, a, b), Nothing)
       \/ \E a \in AssetIds, to \in Indexes : to >= 0 /\ Perform(MoveAsset(doc, a, to), Nothing)
       \/ \E a \in AssetIds : Perform(RemoveAsset(doc, a), Nothing)

EditPaths ==
    /\ Called("paths")
    /\ \E a \in AssetIds, i \in Indexes :
            \/ \E v \in Values : Perform(InsertVectorPath(doc, a, v, i), Asset(a))
            \/ /\ i >= 0
               /\ \/ \E v \in Values : Perform(ReplaceVectorPath(doc, a, i, v), Asset(a))
                  \/ \E to \in Indexes : to >= 0 /\ Perform(MoveVectorPath(doc, a, i, to), Asset(a))
                  \/ Perform(RemoveVectorPath(doc, a, i), Asset(a))

Clips == [id : AudioIds, asset : AudioIds, start : FrameNumbers, duration : {1}, offset : {0, 1}]
Tracks == [id : AudioIds \union LayerIds, gain : {1, 2}, clips : {<<>>}]

EditAudio ==
    /\ Called("audio")
    /\ \/ \E a \in AudioIds, n \in Counts, at \in Indexes :
            Perform(InsertAudioAsset(doc, [id |-> a, length |-> n], at), Nothing)
       \/ \E a \in AudioIds, n \in Counts :
            Perform(ReplaceAudioAsset(doc, a, [id |-> a, length |-> n]), Nothing)
       \/ \E a \in AudioIds : \/ Perform(RemoveAudioAsset(doc, a), Nothing)
                              \/ Perform(RemoveAudioTrack(doc, a), Nothing)
       \/ \E t \in Tracks, at \in Indexes : Perform(InsertAudioTrack(doc, t, at), Nothing)
       \/ \E a \in AudioIds, t \in Tracks : Perform(ReplaceAudioTrack(doc, a, t), Nothing)
       \/ \E a \in AudioIds, to \in Indexes : to >= 0 /\ Perform(MoveAudioTrack(doc, a, to), Nothing)

EditClips ==
    /\ Called("clips")
    /\ \E t \in AudioIds :
            \/ \E clip \in Clips : \/ Perform(InsertAudioClip(doc, t, clip), Nothing)
                                   \/ Perform(ReplaceAudioClip(doc, t, clip.id, clip), Nothing)
            \/ \E c \in AudioIds : Perform(RemoveAudioClip(doc, t, c), Nothing)

EditLayers ==
    /\ Called("layers")
    /\ \/ \E layer \in NewLayers, at \in Indexes :
            \/ Perform(InsertStaticLayer(doc, layer, at), Nothing)
            \/ ~layer.keyed /\ Perform(InsertLayer(doc, layer, at), Nothing)
       \/ \E layer \in NewLayers, placements \in Placements :
            \/ Perform(InsertDynamicLayer(doc, layer, placements, AppendDocumentIndex), Nothing)
            \/ Perform(InsertKeyframedLayer(doc, layer, placements, AppendDocumentIndex), Nothing)
       \/ \E id \in LayerIds, layer \in NewLayers :
            Perform(ReplaceLayer(doc, id, layer), [Whole(id) EXCEPT !.name = <<id, layer.id>>])
       \/ \E id \in LayerIds, to \in LayerIds \union AudioIds :
            Perform(RenameLayer(doc, id, to), [Nothing EXCEPT !.name = <<id, to>>])
       \/ \E id \in LayerIds, to \in Indexes : to >= 0 /\ Perform(MoveLayer(doc, id, to), Nothing)
       \/ \E id \in LayerIds : Perform(RemoveLayer(doc, id), Nothing)

EditLayerProperties ==
    /\ Called("properties")
    /\ \E id \in LayerIds :
            \/ \E name \in Values : Perform(SetLayerName(doc, id, name), Nothing)
            \/ \E visible \in BOOLEAN : Perform(SetLayerVisible(doc, id, visible), Nothing)
            \/ \E opacity \in {0, 2} : Perform(SetLayerOpacity(doc, id, opacity), Nothing)
            \/ \E x \in Places : Perform(SetLayerTransform(doc, id, x), Moves({id}))
            \/ \E blend \in {0, 5, 9} : Perform(SetLayerBlendMode(doc, id, blend), Nothing)
            \/ \E look \in Appearances : Perform(SetLayerAppearance(doc, id, look), Nothing)
            \/ \E range \in Ranges : Perform(SetLayerFrameRange(doc, id, range), Whole(id))
            \/ \E f \in FrameNumbers : Perform(SetLayerMotion(doc, id, <<0, f>>), Nothing)
            \/ \E from \in {0, 1}, to \in {0, 2} :
                    Perform(SetVideoPlayback(doc, id, <<from, to>>), Nothing)

EditSources ==
    /\ Called("sources")
    /\ \E id \in LayerIds :
            \/ \E a \in AssetIds : Perform(SetStaticSource(doc, id, a), Whole(id))
            \/ \E placements \in Placements :
                    Perform(SetKeyframedSource(doc, id, placements), Whole(id))

EditKeyframes ==
    /\ Called("keyframes")
    /\ \E id \in LayerIds, f \in FrameNumbers :
            \/ \E a \in AssetIds : \/ Perform(InsertKeyframe(doc, id, f, a), Held(id, f))
                                   \/ Perform(SetKeyframeAsset(doc, id, f, a), Held(id, f))
            \/ \E a \in AssetIds, kind \in {"Raster", "Vector"}, v \in Values :
                    Perform(SetDynamicFrameContent(doc, id, f, Visual(a, kind, <<v>>)), Held(id, f))
            \/ \E to \in FrameNumbers :
                    Perform(MoveKeyframe(doc, id, f, to),
                            Shows({id} \X (HeldFrom(id, f) \union HeldFrom(id, to))))
            \/ Perform(RemoveKeyframe(doc, id, f), Held(id, f))

-----------------------------------------------------------------------------
(* ControlNet calls: a session works with one kind.                          *)

InsertAssetOf(kind, d, id, parts, at) ==
    CASE kind = "Mlsd" -> InsertMlsdAsset(d, id, parts, at)
      [] kind = "Canny" -> InsertCannyAsset(d, id, parts, at)
      [] kind = "Scribble" -> InsertScribbleAsset(d, id, parts, at)
      [] kind = "LineArt" -> InsertLineArtAsset(d, id, parts, at)
      [] kind = "NormalMap" -> InsertNormalMapAsset(d, id, parts, at)
      [] kind = "Shuffle" -> InsertShuffleAsset(d, id, parts, at)
      [] kind = "Tile" -> InsertTileAsset(d, id, parts, at)
      [] kind = "Reference" -> InsertReferenceAsset(d, id, parts, at)
      [] kind = "IpAdapter" -> InsertIpAdapterAsset(d, id, parts, at)
      [] kind = "Depth" -> InsertDepthAsset(d, id, parts, at)
      [] kind = "Pose" -> InsertPoseAsset(d, id, parts, at)

ReplaceAssetOf(kind, d, id, parts) ==
    CASE kind = "Mlsd" -> ReplaceMlsdAsset(d, id, parts)
      [] kind = "Canny" -> ReplaceCannyAsset(d, id, parts)
      [] kind = "Scribble" -> ReplaceScribbleAsset(d, id, parts)
      [] kind = "LineArt" -> ReplaceLineArtAsset(d, id, parts)
      [] kind = "NormalMap" -> ReplaceNormalMapAsset(d, id, parts)
      [] kind = "Shuffle" -> ReplaceShuffleAsset(d, id, parts)
      [] kind = "Tile" -> ReplaceTileAsset(d, id, parts)
      [] kind = "Reference" -> ReplaceReferenceAsset(d, id, parts)
      [] kind = "IpAdapter" -> ReplaceIpAdapterAsset(d, id, parts)
      [] kind = "Depth" -> ReplaceDepthAsset(d, id, parts)
      [] kind = "Pose" -> ReplacePoseAsset(d, id, parts)

SetPartOf(kind, d, id, index, value) ==
    CASE kind = "Mlsd" -> SetMlsdSegment(d, id, index, value)
      [] kind = "Canny" -> SetCannySample(d, id, index, value)
      [] kind = "Scribble" -> SetScribbleSample(d, id, index, value)
      [] kind = "LineArt" -> SetLineArtSample(d, id, index, value)
      [] kind = "NormalMap" -> SetNormalMapSample(d, id, index, value)
      [] kind = "Shuffle" -> SetShuffleSample(d, id, index, value)
      [] kind = "Tile" -> SetTileSample(d, id, index, value)
      [] kind = "Reference" -> SetReferenceSample(d, id, index, value)
      [] kind = "IpAdapter" -> SetIpAdapterValue(d, id, index, value)
      [] kind = "Depth" -> SetDepthSample(d, id, index, value)
      [] kind = "Pose" /\ value \in Anchors -> SetPoseAnchor(d, id, index, value)
      [] kind = "Pose" /\ value \notin Anchors -> SetPoseExpressionWeight(d, id, index, value)

InsertLayerOf(kind, d, layer, placements, at) ==
    CASE kind = "Mlsd" -> InsertMlsdLayer(d, layer, placements, at)
      [] kind = "Canny" -> InsertCannyLayer(d, layer, placements, at)
      [] kind = "Scribble" -> InsertScribbleLayer(d, layer, placements, at)
      [] kind = "LineArt" -> InsertLineArtLayer(d, layer, placements, at)
      [] kind = "NormalMap" -> InsertNormalMapLayer(d, layer, placements, at)
      [] kind = "Shuffle" -> InsertShuffleLayer(d, layer, placements, at)
      [] kind = "Tile" -> InsertTileLayer(d, layer, placements, at)
      [] kind = "Reference" -> InsertReferenceLayer(d, layer, placements, at)
      [] kind = "IpAdapter" -> InsertIpAdapterLayer(d, layer, placements, at)
      [] kind = "Depth" -> InsertDepthLayer(d, layer, placements, at)
      [] kind = "Pose" -> InsertPoseLayer(d, layer, placements, at)
      [] kind = "SemanticSegment" -> InsertSemanticSegmentLayer(d, layer, placements, at)

EditControlAssets ==
    /\ Called("control") /\ session.kind \in ControlKind
    /\ \E a \in AssetIds, v, w \in session.parts :
            \/ Perform(InsertAssetOf(session.kind, doc, a, <<v, w>>, AppendDocumentIndex), Nothing)
            \/ Perform(ReplaceAssetOf(session.kind, doc, a, <<v, w>>), Asset(a))
            \/ \E i \in 0 .. 2 : Perform(SetPartOf(session.kind, doc, a, i, v), Asset(a))

\* The same layer, if it has a model, with another one.
WithModel(layer, model) ==
    IF HasRole(layer.kind) THEN [layer EXCEPT !.control.model = model] ELSE layer

EditControlLayers ==
    /\ Called("control")
    /\ \/ \E layer \in NewLayers, placements \in Placements :
            Perform(InsertLayerOf(session.kind, doc, layer, placements, AppendDocumentIndex), Nothing)
       \/ \E id \in LayerIds, setup \in {"s2", "bad"} :
            \/ Perform(SetReferenceSettings(doc, id, setup), Nothing)
            \/ Perform(SetSemanticSegmentation(doc, id, setup), Nothing)
       \/ \E id \in LayerIds, model \in {"A", "B"}, scale \in {0, 2} :
            \/ Perform(SetControlNetSettings(doc, id, [model |-> model, scale |-> scale]), Nothing)
            \/ Perform(PatchControlNetSettings(doc, id, [model |-> model]), Nothing)
            \/ Perform(PatchControlNetSettings(doc, id, [scale |-> scale]), Nothing)
       \/ \E id \in LayerIds, layer \in ToSet(doc.layers), a, b \in ToSet(doc.assets),
             v \in session.parts, model \in {"A", "B"} :
            LET copy == [a EXCEPT !.parts = <<v, v>>]
            IN  \E assets \in {<<copy>>, <<copy, b>>} :
                    Perform(SetControlNetParameters(doc, id, WithModel(layer, model), assets),
                            Asset(a.id))

-----------------------------------------------------------------------------
EditArtboard ==
    /\ Called("artboards")
    /\ \/ \E b \in BoardIds, x \in Places, at \in Indexes :
            Perform(InsertArtboard(doc, [id |-> b, origin |-> x, width |-> 2, name |-> "n",
                                         background |-> 0, visible |-> TRUE], at), Nothing)
       \/ \E b \in BoardIds :
            \/ \E v \in Values : Perform(SetArtboardName(doc, b, v), Nothing)
            \/ \E x \in Places, n \in Counts : Perform(SetArtboardRegion(doc, b, x, n), Moves(On(b)))
            \/ \E argb \in {0, 1} : Perform(SetArtboardBackground(doc, b, argb), Nothing)
            \/ \E visible \in BOOLEAN : Perform(SetArtboardVisible(doc, b, visible), Nothing)
            \/ \E to \in Indexes : to >= 0 /\ Perform(MoveArtboard(doc, b, to), Nothing)
            \/ \E removal \in {"KeepLayers", "DeleteLayers"} :
                    Perform(RemoveArtboard(doc, b, removal), Nothing)
       \/ \E id \in LayerIds, b \in BoardIds \union {0} :
            Perform(SetLayerArtboard(doc, id, b), Nothing)
       \/ \E b, c \in BoardIds, x \in Places, at \in Indexes :
            Perform(DuplicateArtboard(doc, b, c, x, at), [Nothing EXCEPT !.copy = <<b, c>>])

-----------------------------------------------------------------------------
Init ==
    /\ session \in Sessions
    /\ doc = session.start
    /\ binding = "none" /\ revision = 0 /\ unreported = 0 /\ touched = Nothing

Next ==
    \/ Bind \/ Unbind \/ FileGoes
    \/ EditCanvas \/ EditMetadata \/ EditAssets \/ EditPaths \/ EditAudio \/ EditClips
    \/ EditLayers \/ EditLayerProperties \/ EditSources \/ EditKeyframes
    \/ EditControlAssets \/ EditControlLayers \/ EditArtboard

Spec == Init /\ [][Next]_vars

-----------------------------------------------------------------------------
(* What finds what in a document                                             *)

AssetsResolve(d) == ReferencedAssets(d) \subseteq {asset.id : asset \in ToSet(d.assets)}

KeysResolve(d) ==
    \A frame \in ToSet(d.frames) : \A key \in ToSet(frame.keys) : Has(d.layers, key.layer)

FramesAscend(frames) ==
    /\ \A i, j \in DOMAIN frames : i < j => frames[i].at < frames[j].at
    /\ \A frame \in ToSet(frames) : \A i, j \in DOMAIN frame.keys :
            i < j => frame.keys[i].layer < frame.keys[j].layer

ClipsResolve(d) ==
    \A track \in ToSet(d.tracks) : \A clip \in ToSet(track.clips) : Has(d.audio, clip.asset)

BoardsResolve(d) ==
    /\ \A layer \in ToSet(d.layers) : layer.board # 0 => Has(d.boards, layer.board)
    /\ ToSet(d.canvases) \union {d.cover} \subseteq {0} \union {board.id : board \in ToSet(d.boards)}

Resolves(d) ==
    /\ AssetsResolve(d) /\ KeysResolve(d) /\ ClipsResolve(d) /\ BoardsResolve(d)
    /\ FramesAscend(d.frames) /\ IndexMatchesFrames(d)

(* The documents to start from are whole.                                    *)
SessionsAssumption == \A s \in Sessions : Resolves(s.start)

-----------------------------------------------------------------------------
(* Properties                                                                *)

Edited == revision' = revision + 1 \/ unreported' = unreported + 1

(* What touched notes for the properties is left out.                        *)
DocumentTypeOK ==
    /\ doc \in CanvasDocument
    /\ binding \in {"none", "memory", "file", "lost"}
    /\ revision \in Nat /\ unreported \in Nat
    /\ session \in Sessions

(* A call that does not count as an edit changes nothing: every rollback     *)
(* puts back all that its operation touched, the format version included.    *)
(* The one exception is a file that has committed the edit and reports a     *)
(* failure: then the document is the valid one that the file holds, and the  *)
(* file stays bound.                                                         *)
RejectedEditLeavesNoTrace ==
    [][revision' # revision + 1 =>
            \/ doc' = doc
            \/ /\ binding = "file" /\ binding' = "file" /\ Valid(doc')
               /\ unreported' = unreported + 1]_vars

(* Whatever is renamed, moved, copied or removed, every reference finds what *)
(* it names: sources, masks, keyframes, clips, artboards, the publication.   *)
(* The frames stay sorted, and the index of a keyframed layer lists exactly  *)
(* the frames that own one of its keyframes.                                 *)
ReferencesResolve == Resolves(doc)

(* What an editor writes through a file is valid, also after the operations  *)
(* that do not validate what they leave.                                     *)
FileStaysValid == binding = "file" => Valid(doc)

(* What a layer shows at a frame: nothing, or the kind and content of the    *)
(* asset that resolves there.                                                *)
Content(d, layer, f) ==
    LET id == ResolveAssetAt(d, layer, f)
    IN  IF id = 0 THEN <<>> ELSE <<Found(d.assets, id).kind, Found(d.assets, id).parts>>

NewId(id) == IF id = touched'.name[1] THEN touched'.name[2] ELSE id

(* An edit changes what a layer shows only where it was asked to: at the     *)
(* frames a keyframe holds, or wherever the asset it replaces is shown.      *)
(* Renames, moves, copies and edits of other layers change nothing that is   *)
(* shown, through whatever frames and indexes they rebuild.                  *)
ContentIsLocal ==
    [][Edited => \A layer \in ToSet(doc.layers), f \in Frames \intersect Frames' :
            /\ Has(doc'.layers, NewId(layer.id)) /\ <<layer.id, f>> \notin touched'.shows
            => Content(doc', Layer(doc', NewId(layer.id)), f) = Content(doc, layer, f)]_vars

(* A layer keeps its place in the world unless it, or the artboard it is on, *)
(* is moved: also when it changes its artboard or its artboard is removed.   *)
PlacementIsLocal ==
    [][Edited => \A layer \in ToSet(doc.layers) :
            /\ Has(doc'.layers, NewId(layer.id)) /\ layer.id \notin touched'.moves
            => Placement(doc', Layer(doc', NewId(layer.id))) = Placement(doc, layer)]_vars

(* The copy of an artboard shows, frame by frame, what the original shows,   *)
(* and no source of its layers is a source of any other layer: what is       *)
(* painted on one of them does not show in another.  Their masks are left    *)
(* out; they stay those of the original (DuplicatesShareNothing).            *)
DuplicatesAreIndependent ==
    [][Edited /\ touched'.copy # <<0, 0>> =>
        LET from == touched'.copy[1]
            to == touched'.copy[2]
        IN  /\ \A layer \in ToSet(OnBoard(doc, from)), f \in Frames :
                    Content(doc', Layer(doc', CopyId(to, layer.id)), f) = Content(doc, layer, f)
            /\ SourcesOn(doc', to) \intersect
                  UNION {SourcesOn(doc', b) : b \in {l.board : l \in ToSet(doc'.layers)} \ {to}} = {}]_vars

(* docs/ARTBOARDS.md:45 "Clone the board, all owned layers, all referenced   *)
(* source states and keyframes, preserving editable independence.": what the *)
(* layers of the copy use, as sources or as masks, no other layer uses.      *)
DuplicatesShareNothing ==
    touched.copy # <<0, 0>> =>
        LET to == touched.copy[2]
            MasksOn(b) == UNION {MaskIds(layer) : layer \in ToSet(OnBoard(doc, b))}
            UsedOn(b) == SourcesOn(doc, b) \union MasksOn(b)
        IN  UsedOn(to) \intersect
                UNION {UsedOn(b) : b \in {l.board : l \in ToSet(doc.layers)} \ {to}} = {}

(* README.md:338 "Successful operations keep the complete document valid".   *)
AcceptedEditsKeepTheDocumentValid == binding = "memory" => Valid(doc)
===============================================================================
