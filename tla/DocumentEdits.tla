----------------------------- MODULE DocumentEdits -----------------------------
(***************************************************************************)
(* The operations of DocumentEditor as functions from the document they are *)
(* called on to the document they leave and how they end.  Most work in     *)
(* place: they validate, refuse, change, validate again and, if that fails, *)
(* put back by hand what they changed.                                      *)
(***************************************************************************)
EXTENDS Document

AppendDocumentIndex == AppendIndex

Outcome(d, how) == [doc |-> d, result |-> how]

RecordDocumentChange(d) == [d EXCEPT !.minor = CurrentFormatMinor]

(* requireValidDocument() and the refusals an operation begins with.         *)
Checked(d, refused, outcome) ==
    IF ~Valid(d) THEN Outcome(d, "invalid")
    ELSE IF refused THEN Outcome(d, "rejected")
    ELSE outcome

Applied(new) == Outcome(RecordDocumentChange(new), "applied")

(* An operation that does not validate what it leaves.                       *)
Unchecked(d, refused, same, new) ==
    Checked(d, refused, IF same THEN Outcome(d, "unchanged") ELSE Applied(new))

(* One that does, and that can leave undone in its place.                    *)
EditOr(d, refused, same, new, undone) ==
    Checked(d, refused,
            IF same THEN Outcome(d, "unchanged")
            ELSE IF Valid(new) THEN Applied(new)
            ELSE Outcome(undone, "rejected"))

(* The rollback puts back the fields it saved and leaves the others.         *)
Restored(new, d, fields) == [f \in DOMAIN d |-> IF f \in fields THEN d[f] ELSE new[f]]

Edit(d, refused, same, new, fields) ==
    EditOr(d, refused, same, new, Restored(new, d, fields))

Raised(d) == [d EXCEPT !.minor = CurrentFormatMinor]

-----------------------------------------------------------------------------
(* Canvas, timeline and metadata                                             *)

SetCanvasExtent(d, width) ==
    Edit(d, FALSE, d.width = width, [d EXCEPT !.width = width], {"width"})

(* C++ % takes the sign of the dividend.                                     *)
Remainder(v, step) == IF v >= 0 THEN v % step ELSE -((-v) % step)

FloorToMultiple(v, step) ==
    LET r == Remainder(v, step) IN IF r < 0 THEN v - r - step ELSE v - r

CeilToMultiple(v, step) ==
    LET r == Remainder(v, step)
    IN  IF r = 0 THEN v ELSE IF r > 0 THEN v - r + step ELSE v - r

EnsureInfiniteCanvasRegion(d, origin, width) ==
    LET left == FloorToMultiple(IF origin < d.origin THEN origin ELSE d.origin, d.chunkSize)
        ends == {d.origin + d.width, origin + width}
        right == CeilToMultiple(CHOOSE e \in ends : \A f \in ends : f <= e, d.chunkSize)
    IN  Edit(d,
             \/ ~d.infinite \/ width <= 0
             \/ left < -CoordinateMax - 1 \/ right > CoordinateMax
             \/ right - left > CoordinateMax,
             left = d.origin /\ right - left = d.width,
             [d EXCEPT !.origin = left, !.width = right - left],
             {"origin", "width"})

SetFrameRate(d, rate) == Edit(d, FALSE, d.rate = rate, [d EXCEPT !.rate = rate], {"rate"})

SetFrameCount(d, count) ==
    Edit(d, FALSE, d.frameCount = count, [d EXCEPT !.frameCount = count], {"frameCount"})

SetStableDiffusionMetadata(d, prompt) ==
    Edit(d, FALSE, d.prompt = prompt,
         [d EXCEPT !.prompt = prompt, !.minor = IF @ < 2 THEN 2 ELSE @],
         {"prompt", "minor"})

ClearStableDiffusionMetadata(d) ==
    Edit(d, FALSE, d.prompt = "none", [d EXCEPT !.prompt = "none"], {"prompt"})

SetPublicationMetadata(d, canvases, cover) ==
    Edit(d, FALSE, d.published /\ d.canvases = canvases /\ d.cover = cover,
         [Raised(d) EXCEPT !.published = TRUE, !.canvases = canvases, !.cover = cover],
         {"published", "canvases", "cover", "minor"})

ClearPublicationMetadata(d) ==
    Unchecked(d, FALSE, ~d.published,
              [d EXCEPT !.published = FALSE, !.canvases = <<>>, !.cover = 0])

SetFileAuthor(d, author) ==
    Checked(d, author = 0,
            IF d.author = author THEN Outcome(d, "unchanged")
            ELSE Outcome([Raised(d) EXCEPT !.author = author], "applied"))

-----------------------------------------------------------------------------
(* Visual assets                                                             *)

InsertedAsset(d, asset, at) == [d EXCEPT !.assets = Inserted(@, at, asset)]
WithParts(d, id, parts) == [d EXCEPT !.assets[Item(d.assets, id)].parts = parts]

(* Raster and vector assets: no look at the audio assets, no newer format.   *)
InsertPlainAsset(d, asset, at) ==
    Edit(d, asset.id = 0 \/ Has(d.assets, asset.id) \/ IsOutside(at, d.assets), FALSE,
         InsertedAsset(d, asset, at), {"assets"})

InsertTypedAsset(d, asset, at) ==
    Edit(d,
         asset.id = 0 \/ Has(d.assets, asset.id) \/ Has(d.audio, asset.id)
            \/ IsOutside(at, d.assets),
         FALSE, InsertedAsset(Raised(d), asset, at), {"assets", "minor"})

ReplaceTypedAsset(d, id, asset) ==
    Edit(d, ~HasKind(d, id, asset.kind) \/ asset.id # id,
         Found(d.assets, id).parts = asset.parts,
         WithParts(d, id, asset.parts), {"assets"})

Visual(id, kind, parts) == [id |-> id, kind |-> kind, parts |-> parts]

InsertRasterAsset(d, id, pixels, at) == InsertPlainAsset(d, Visual(id, "Raster", <<pixels>>), at)
InsertVectorAsset(d, id, paths, at) == InsertPlainAsset(d, Visual(id, "Vector", paths), at)
InsertChunkedRasterAsset(d, id, chunks, at) ==
    InsertTypedAsset(d, Visual(id, "Chunked", chunks), at)
InsertVideoAsset(d, id, frames, at) == InsertTypedAsset(d, Visual(id, "Video", frames), at)
ReplaceVideoAsset(d, id, asset) == ReplaceTypedAsset(d, id, asset)

ReplaceRasterPixels(d, id, pixels) == ReplaceTypedAsset(d, id, Visual(id, "Raster", <<pixels>>))

ReplaceVectorData(d, id, paths) ==
    Edit(d, ~HasKind(d, id, "Vector"), FALSE, WithParts(d, id, paths), {"assets"})

(* replaceAssetReferences() *)
Renamed(id, from, to) == IF id = from THEN to ELSE id

RenamedIn(layer, from, to) ==
    [layer EXCEPT !.asset = IF layer.keyed THEN @ ELSE Renamed(@, from, to),
                  !.appearance.mask = Renamed(@, from, to),
                  !.appearance.vectorMask = Renamed(@, from, to)]

RenamedKey(key, from, to) == [key EXCEPT !.asset = Renamed(@, from, to)]
RenamedKeys(keys, from, to) == [k \in DOMAIN keys |-> RenamedKey(keys[k], from, to)]
RenamedFrame(frame, from, to) == [frame EXCEPT !.keys = RenamedKeys(@, from, to)]

WithReferences(d, from, to) ==
    [d EXCEPT !.layers = [i \in DOMAIN @ |-> RenamedIn(@[i], from, to)],
              !.frames = [i \in DOMAIN @ |-> RenamedFrame(@[i], from, to)]]

WithAssetId(d, from, to) == [d EXCEPT !.assets[Item(d.assets, from)].id = to]

RenamedAsset(d, from, to) == WithReferences(WithAssetId(d, from, to), from, to)

RenameAsset(d, id, to) ==
    LET new == RenamedAsset(d, id, to)
    IN  EditOr(d, ~Has(d.assets, id) \/ (id # to /\ (to = 0 \/ Has(d.assets, to))), id = to,
               new, WithReferences(WithAssetId(new, to, id), to, id))

MoveAsset(d, id, to) ==
    LET from == Item(d.assets, id)
    IN  Unchecked(d, ~Has(d.assets, id) \/ to >= Len(d.assets), from = to + 1,
                  [d EXCEPT !.assets = MoveElement(@, from, to)])

RemoveAsset(d, id) ==
    Edit(d, ~Has(d.assets, id) \/ id \in ReferencedAssets(d), FALSE,
         [d EXCEPT !.assets = RemoveAt(@, Item(@, id))], {"assets"})

-----------------------------------------------------------------------------
(* Vector paths                                                              *)

Paths(d, id) == Found(d.assets, id).parts

InsertVectorPath(d, id, path, at) ==
    Edit(d, ~HasKind(d, id, "Vector") \/ IsOutside(at, Paths(d, id)), FALSE,
         WithParts(d, id, Inserted(Paths(d, id), at, path)), {"assets"})

ReplaceVectorPath(d, id, index, path) ==
    Edit(d, ~HasKind(d, id, "Vector") \/ index >= Len(Paths(d, id)), FALSE,
         WithParts(d, id, ReplaceAt(Paths(d, id), index + 1, path)), {"assets"})

MoveVectorPath(d, id, from, to) ==
    Unchecked(d,
              \/ ~HasKind(d, id, "Vector")
              \/ from >= Len(Paths(d, id)) \/ to >= Len(Paths(d, id)),
              from = to,
              WithParts(d, id, MoveElement(Paths(d, id), from + 1, to)))

RemoveVectorPath(d, id, index) ==
    Unchecked(d, ~HasKind(d, id, "Vector") \/ index >= Len(Paths(d, id)), FALSE,
              WithParts(d, id, RemoveAt(Paths(d, id), index + 1)))

-----------------------------------------------------------------------------
(* Audio                                                                     *)

WithTrack(d, id, track) == [d EXCEPT !.tracks[Item(d.tracks, id)] = track]

InsertAudioAsset(d, asset, at) ==
    Edit(d,
         asset.id = 0 \/ Has(d.assets, asset.id) \/ Has(d.audio, asset.id)
            \/ IsOutside(at, d.audio),
         FALSE, [Raised(d) EXCEPT !.audio = Inserted(@, at, asset)], {"audio", "minor"})

ReplaceAudioAsset(d, id, asset) ==
    Edit(d, ~Has(d.audio, id) \/ asset.id # id, Found(d.audio, id) = asset,
         [d EXCEPT !.audio[Item(d.audio, id)] = asset], {"audio"})

RemoveAudioAsset(d, id) ==
    Unchecked(d,
              \/ ~Has(d.audio, id)
              \/ \E t \in ToSet(d.tracks) : \E clip \in ToSet(t.clips) : clip.asset = id,
              FALSE, [d EXCEPT !.audio = RemoveAt(@, Item(@, id))])

InsertAudioTrack(d, track, at) ==
    Edit(d,
         track.id = 0 \/ Has(d.layers, track.id) \/ Has(d.tracks, track.id)
            \/ IsOutside(at, d.tracks),
         FALSE, [Raised(d) EXCEPT !.tracks = Inserted(@, at, track)], {"tracks", "minor"})

ReplaceAudioTrack(d, id, track) ==
    Edit(d, ~Has(d.tracks, id) \/ track.id # id, Found(d.tracks, id) = track,
         WithTrack(d, id, track), {"tracks"})

MoveAudioTrack(d, id, to) ==
    LET from == Item(d.tracks, id)
    IN  Unchecked(d, ~Has(d.tracks, id) \/ to >= Len(d.tracks), from = to + 1,
                  [d EXCEPT !.tracks = MoveElement(@, from, to)])

RemoveAudioTrack(d, id) ==
    Unchecked(d, ~Has(d.tracks, id), FALSE, [d EXCEPT !.tracks = RemoveAt(@, Item(@, id))])

(* stable_sort by startFrame.                                                *)
SortedByStart(clips) == SortedBy(clips, [i \in DOMAIN clips |-> clips[i].start])

HasClip(d, id, clip) == Has(d.tracks, id) /\ Has(Found(d.tracks, id).clips, clip)

InsertAudioClip(d, id, clip) ==
    Checked(d, ~Has(d.tracks, id),
            ReplaceAudioTrack(d, id, [Found(d.tracks, id) EXCEPT
                                        !.clips = SortedByStart(Append(@, clip))]))

ReplaceAudioClip(d, id, clipId, clip) ==
    Checked(d, ~HasClip(d, id, clipId) \/ clip.id # clipId,
            ReplaceAudioTrack(d, id, [Found(d.tracks, id) EXCEPT
                                        !.clips = SortedByStart(ReplaceAt(@, Item(@, clipId), clip))]))

RemoveAudioClip(d, id, clipId) ==
    Checked(d, ~HasClip(d, id, clipId),
            ReplaceAudioTrack(d, id, [Found(d.tracks, id) EXCEPT
                                        !.clips = RemoveAt(@, Item(@, clipId))]))
===============================================================================
