---------------------------- MODULE DocumentRecords ----------------------------
(***************************************************************************)
(* How a working file stores a document: as rows of a table, each with a    *)
(* kind, an id, a position and a payload.  A commit writes only the rows    *)
(* that changed, and leaves the payload of an asset that did not change     *)
(* where it is.  Payloads are records with a field for each that the        *)
(* version of the document stores: <<>> stands for what it does not, and    *)
(* <<x>> for x.  A digest is taken to tell payloads apart.                   *)
(***************************************************************************)
EXTENDS Document

CONSTANT SerializationLimits    \* under which documents are written and read

Since(d, minor, value) == IF d.minor >= minor THEN <<value>> ELSE <<>>

Total(numbers) ==
    LET sum[n \in 0 .. Len(numbers)] == IF n = 0 THEN 0 ELSE sum[n - 1] + numbers[n]
    IN  sum[Len(numbers)]

SumOver(s, Op(_)) == Total([i \in DOMAIN s |-> Op(s[i])])

-----------------------------------------------------------------------------
(* Encoding                                                                  *)

Row(kind, id, position, data) == [kind |-> kind, id |-> id, position |-> position, data |-> data]
Singleton(kind, data) == <<Row(kind, 0, 0, <<data>>)>>
Listed(kind, items, Data(_)) ==
    [i \in DOMAIN items |-> Row(kind, items[i].id, i - 1, Data(items[i]))]

(* The chunk size is stored twice: here, and in the geometry of a canvas     *)
(* that is infinite.                                                         *)
HeaderData(d) ==
    [minor |-> d.minor, chunkSize |-> d.chunkSize, width |-> d.width,
     canvas |-> Since(d, 1, IF d.infinite THEN <<d.origin, d.chunkSize>> ELSE <<>>),
     rate |-> d.rate, frameCount |-> d.frameCount, assets |-> Len(d.assets)]

(* Vector assets are always written.                                         *)
UnchangedAsset(asset, previous) ==
    /\ asset.kind # "Vector"
    /\ \E d \in ToSet(previous) : /\ HasKind(d, asset.id, asset.kind)
                                  /\ Found(d.assets, asset.id).parts = asset.parts

UnchangedAudio(asset, previous) ==
    \E d \in ToSet(previous) : Has(d.audio, asset.id) /\ Found(d.audio, asset.id) = asset

(* The keyframes of a layer, collected from the frames in their order.       *)
ProjectedKeyframes(d, layer) ==
    LET owners == OwnedFrames(d.frames, layer.id)
    IN  [i \in DOMAIN owners |-> [at |-> owners[i], asset |-> KeyAsset(d, layer.id, owners[i])]]

ContentTag(layer) ==
    IF LayerContent(layer) \in ControlKind \union {"Raster"} THEN LayerContent(layer) ELSE "Vector"

SourceData(d, layer) ==
    IF layer.keyed
    THEN [keyed |-> TRUE, content |-> ContentTag(layer), keys |-> ProjectedKeyframes(d, layer)]
    ELSE [keyed |-> FALSE, asset |-> layer.asset]

(* The role of a layer, with the settings its kind has.                      *)
RoleData(layer) ==
    IF ~HasRole(layer.kind) THEN <<>>
    ELSE <<[kind |-> layer.kind, control |-> layer.control,
            setup |-> IF HasSetup(layer.kind) THEN layer.setup ELSE NoSetup]>>

LayerData(d, layer) ==
    [id |-> layer.id, name |-> layer.name, visible |-> layer.visible,
     opacity |-> layer.opacity, x |-> layer.x, blend |-> layer.blend,
     board |-> Since(d, 18, layer.board), kind |-> Since(d, 19, layer.kind),
     appearance |-> Since(d, 20, layer.appearance),
     source |-> SourceData(d, layer),
     range |-> Since(d, 3, layer.range), role |-> Since(d, 7, RoleData(layer)),
     motion |-> Since(d, 6, layer.motion),
     playback |-> IF layer.kind = "Video" THEN Since(d, 6, layer.playback) ELSE <<>>]

PublicationData(d) ==
    IF d.published THEN <<[canvases |-> d.canvases, cover |-> d.cover]>> ELSE <<>>

AudioRecords(d, previous) ==
    Singleton("AudioAssetCount", Len(d.audio))
      \o Listed("AudioAsset", d.audio,
                LAMBDA asset : IF UnchangedAudio(asset, previous) THEN <<>> ELSE <<asset>>)
      \o Singleton("AudioTrackCount", Len(d.tracks))
      \o Listed("AudioTrack", d.tracks, LAMBDA track : <<track>>)

When(condition, records) == IF condition THEN records ELSE <<>>

(* writePayload(): a row for each part, in the order of the payload.  What   *)
(* the authors' ledger says is left to WorkingFile.                          *)
WritePayload(d, previous) ==
    Singleton("Header", HeaderData(d))
      \o Listed("Asset", d.assets,
                LAMBDA asset : IF UnchangedAsset(asset, previous) THEN <<>> ELSE <<asset>>)
      \o Singleton("LayerCount", Len(d.layers))
      \o Listed("Layer", d.layers, LAMBDA layer : <<LayerData(d, layer)>>)
      \o Singleton("Metadata", Since(d, 2, d.prompt))
      \o When(d.minor >= 4, AudioRecords(d, previous))
      \o When(d.minor >= 5, Singleton("Authorship", "ledger"))
      \o When(d.minor >= 18, Singleton("ArtboardCount", Len(d.boards))
                               \o Listed("Artboard", d.boards, LAMBDA board : <<board>>))
      \o When(d.minor >= 22, Singleton("PublicationMetadata", PublicationData(d)))

-----------------------------------------------------------------------------
(* What the limits of a file allow to be written.  A text counts for one     *)
(* byte, the empty one for none; the sizes of payloads are not counted.      *)

Text(id) == IF id = 0 THEN 0 ELSE 1

(* The texts in an asset of these kinds: one to each of its parts.           *)
TextsIn(asset) == 1 + IF asset.kind \in {"Mlsd", "Pose", "IpAdapter"} THEN Len(asset.parts) ELSE 0

Texts(condition, n) == IF condition THEN n ELSE 0

MaskTexts(appearance) == Text(appearance.mask) + Text(appearance.vectorMask)

PartsPerKind(assets) ==
    [kind \in AssetKind |->
        SumOver(SelectSeq(assets, LAMBDA asset : asset.kind = kind), LAMBDA asset : Len(asset.parts))]

Pixels(parts) == parts["Raster"] + parts["Chunked"] + parts["Video"]

EncodedTexts(d) ==
    SumOver(d.boards, LAMBDA board : 2)
      + SumOver(d.layers, LAMBDA layer :
            2 + Text(layer.board) + MaskTexts(layer.appearance)
              + Texts(HasRole(layer.kind), 2) + Texts(~layer.keyed, 1))
      + Texts(d.minor >= 5, 1)
      + Len(d.audio)
      + SumOver(d.tracks, LAMBDA track : 2 + 3 * Len(track.clips))
      + SumOver(d.assets, TextsIn)
      + SumOver(d.frames, LAMBDA frame : 2 * Len(frame.keys))
      + Texts(d.prompt # "none", 1)
      + Texts(d.published, Text(d.cover) + SumOver(d.canvases, Text))

EncodedTotals(d) ==
    [assets |-> Len(d.assets), layers |-> Len(d.layers), boards |-> Len(d.boards),
     frames |-> Len(d.frames), audio |-> Len(d.audio), tracks |-> Len(d.tracks),
     keyframes |-> SumOver(d.frames, LAMBDA frame : Len(frame.keys)),
     motion |-> SumOver(d.layers, LAMBDA layer : Len(layer.motion)),
     clips |-> SumOver(d.tracks, LAMBDA track : Len(track.clips)),
     samples |-> SumOver(d.audio, LAMBDA asset : asset.length),
     entries |-> Texts(d.published, Len(d.canvases)),
     pixels |-> Pixels(PartsPerKind(d.assets)),
     parts |-> PartsPerKind(d.assets), texts |-> EncodedTexts(d)]

(* Both sides add up what they meet and stop when a total passes its limit;  *)
(* the parts of assets have a limit for each kind.                           *)
Within(totals, limits) ==
    /\ \A field \in DOMAIN totals \ {"parts"} : totals[field] <= limits[field]
    /\ \A kind \in AssetKind : totals.parts[kind] <= limits.parts

EncodeDocumentRecords(d, previous) == WritePayload(d, previous)
CanEncode(d, limits) == Valid(d) /\ Within(EncodedTotals(d), limits)

-----------------------------------------------------------------------------
(* The table                                                                 *)

HasRow(rows, record) == \E row \in rows : row.kind = record.kind /\ row.id = record.id
RowOf(rows, record) == CHOOSE row \in rows : row.kind = record.kind /\ row.id = record.id

\* Mutant: a row whose payload stays is not moved.
WriteRecordsInPlace(rows, records) ==
    {IF ~HasRow(rows, record) THEN [record EXCEPT !.data = record.data[1]]
     ELSE IF record.data \in {<<>>, <<RowOf(rows, record).data>>} THEN RowOf(rows, record)
     ELSE [record EXCEPT !.data = record.data[1]] : record \in ToSet(records)}

MissesRow(rows, records) ==
    \E record \in ToSet(records) : record.data = <<>> /\ ~HasRow(rows, record)

(* writeRecords(): rows are inserted, patched and moved one by one; those no *)
(* record names are deleted at the end.                                      *)
WriteRecords(rows, records) ==
    {IF record.data = <<>> THEN [RowOf(rows, record) EXCEPT !.position = record.position]
     ELSE [record EXCEPT !.data = record.data[1]] : record \in ToSet(records)}

-----------------------------------------------------------------------------
(* Decoding: the rows in the order of their kinds and positions              *)

OfKind(rows, kind) == {row \in rows : row.kind = kind}
Occurs(rows, kind) == OfKind(rows, kind) # {}

ReadRecords(rows, kind) ==
    [i \in 1 .. Cardinality(OfKind(rows, kind)) |->
        (CHOOSE row \in OfKind(rows, kind) : row.position = i - 1).data]

Singletons == {"Header", "LayerCount", "Metadata", "AudioAssetCount", "AudioTrackCount",
               "Authorship", "ArtboardCount", "PublicationMetadata"}
Lists == {"Asset", "Layer", "AudioAsset", "AudioTrack", "Artboard"}

CanonicalLayout(rows) ==
    /\ \A kind \in Singletons : \A row \in OfKind(rows, kind) : row.id = 0
    /\ \A kind \in Singletons : Cardinality(OfKind(rows, kind)) <= 1
    /\ \A kind \in Singletons \union Lists :
            {row.position : row \in OfKind(rows, kind)} = 0 .. Cardinality(OfKind(rows, kind)) - 1
    /\ \A kind \in {"Header", "LayerCount", "Metadata"} : Occurs(rows, kind)
    /\ Occurs(rows, "AudioAsset") => Occurs(rows, "AudioAssetCount")
    /\ Occurs(rows, "AudioTrack") => Occurs(rows, "AudioTrackCount")
    /\ Occurs(rows, "Artboard") => Occurs(rows, "ArtboardCount")

Only(rows, kind) == (CHOOSE row \in rows : row.kind = kind).data
Header(rows) == Only(rows, "Header")

Count(rows, kind) == IF Occurs(rows, kind) THEN Only(rows, kind) ELSE 0

(* The rows a version has, as many of each as it says, under the ids of what *)
(* they hold.                                                                *)
MatchesVersion(rows) ==
    LET minor == Header(rows).minor
    IN  /\ minor <= CurrentFormatMinor
        /\ (minor >= 4) = (Occurs(rows, "AudioAssetCount") /\ Occurs(rows, "AudioTrackCount"))
        /\ minor < 4 => ~Occurs(rows, "AudioAssetCount") /\ ~Occurs(rows, "AudioTrackCount")
        /\ (minor >= 5) = Occurs(rows, "Authorship")
        /\ (minor >= 18) = Occurs(rows, "ArtboardCount")
        /\ (minor >= 22) = Occurs(rows, "PublicationMetadata")

MatchesCounts(rows) ==
    /\ Header(rows).assets = Cardinality(OfKind(rows, "Asset"))
    /\ Only(rows, "LayerCount") = Cardinality(OfKind(rows, "Layer"))
    /\ Count(rows, "AudioAssetCount") = Cardinality(OfKind(rows, "AudioAsset"))
    /\ Count(rows, "AudioTrackCount") = Cardinality(OfKind(rows, "AudioTrack"))
    /\ Count(rows, "ArtboardCount") = Cardinality(OfKind(rows, "Artboard"))
    /\ \A kind \in Lists : \A row \in OfKind(rows, kind) : row.id = row.data.id

(* A field the version does not store is what a new document has there.      *)
Stored(field, default) == IF field = <<>> THEN default ELSE field[1]

ReadAppearance(data) == Stored(data.appearance, PlainAppearance)

AssetIsReadable(minor, asset) ==
    /\ asset.kind = "Chunked" => minor >= 1
    /\ asset.kind = "Video" => minor >= 6
    /\ asset.kind \in ControlKind => minor >= ControlFormat[asset.kind]

ReadContentKind(assets, data) ==
    IF data.source.keyed THEN data.source.content ELSE AssetContent(Found(assets, data.source.asset))

ReadRole(data) == Stored(data.role, <<>>)
ReadSetup(data) == IF ReadRole(data) = <<>> THEN NoSetup ELSE ReadRole(data)[1].setup

ReadLayerKind(assets, data) ==
    IF ReadRole(data) # <<>> THEN ReadRole(data)[1].kind
    ELSE IF ReadContentKind(assets, data) = "Raster" THEN "Bitmap"
    ELSE ReadContentKind(assets, data)

RoleIsReadable(minor, content, role) ==
    IF role = <<>> THEN content \notin ControlKind
    ELSE IF role[1].kind = "SemanticSegment" THEN minor >= 7 /\ content = "Raster"
    ELSE minor >= ControlFormat[role[1].kind] /\ content = role[1].kind

Times(keys) == [i \in DOMAIN keys |-> keys[i].at]

ContentIsReadable(minor, content) ==
    content \in ControlKind => minor >= ControlFormat[content]

SourceIsReadable(minor, assets, source) ==
    IF source.keyed
    THEN /\ ContentIsReadable(minor, source.content)
         /\ Ascending(Times(source.keys))
    ELSE Has(assets, source.asset)

BlendIsReadable(minor, data) == data.blend > 4 => minor >= 20

LayerIsReadable(minor, assets, data) ==
    /\ BlendIsReadable(minor, data)
    /\ SourceIsReadable(minor, assets, data.source)
    /\ RoleIsReadable(minor, ReadContentKind(assets, data), ReadRole(data))
    /\ Stored(data.kind, ReadLayerKind(assets, data)) = ReadLayerKind(assets, data)

ReadLayer(assets, data) ==
    [id |-> data.id, name |-> data.name, visible |-> data.visible,
     opacity |-> data.opacity, x |-> data.x, blend |-> data.blend,
     kind |-> ReadLayerKind(assets, data),
     board |-> Stored(data.board, 0), appearance |-> ReadAppearance(data),
     keyed |-> data.source.keyed,
     asset |-> IF data.source.keyed THEN 0 ELSE data.source.asset,
     index |-> IF data.source.keyed THEN Times(data.source.keys) ELSE <<>>,
     range |-> Stored(data.range, <<>>), motion |-> Stored(data.motion, <<>>),
     control |-> IF ReadRole(data) = <<>> THEN NoControl ELSE ReadRole(data)[1].control,
     setup |-> ReadSetup(data), playback |-> Stored(data.playback, NoPlayback)]

(* The keyframes of all layers, sorted by frame and layer and put back into  *)
(* frames.                                                                   *)
Pending(layers) ==
    UNION {{[at |-> key.at, layer |-> data.id, asset |-> key.asset] : key \in ToSet(data.source.keys)} :
             data \in {d \in ToSet(layers) : d.source.keyed}}

Ordered(S, number) ==
    [n \in 1 .. Cardinality(S) |->
        CHOOSE e \in S : Cardinality({o \in S : number[o] <= number[e]}) = n]

KeysAt(pending, at) ==
    LET keys == {[layer |-> key.layer, asset |-> key.asset] : key \in {k \in pending : k.at = at}}
    IN  Ordered(keys, [key \in keys |-> key.layer])

ReadFrames(pending) ==
    LET times == {key.at : key \in pending}
        ats == Ordered(times, [at \in times |-> at])
    IN  [i \in DOMAIN ats |-> [at |-> ats[i], keys |-> KeysAt(pending, ats[i])]]

ReadPublication(rows) ==
    IF Occurs(rows, "PublicationMetadata") THEN Only(rows, "PublicationMetadata") ELSE <<>>

(* DocumentReader::read().  The author that is selected is not stored.       *)
ReadDocument(rows) ==
    LET header == Header(rows)
        canvas == Stored(header.canvas, <<>>)
        layers == ReadRecords(rows, "Layer")
        published == ReadPublication(rows)
    IN  [minor |-> header.minor, width |-> header.width, chunkSize |-> header.chunkSize,
         infinite |-> canvas # <<>>, origin |-> IF canvas = <<>> THEN 0 ELSE canvas[1],
         rate |-> header.rate, frameCount |-> header.frameCount,
         assets |-> ReadRecords(rows, "Asset"),
         layers |-> [i \in DOMAIN layers |-> ReadLayer(ReadRecords(rows, "Asset"), layers[i])],
         frames |-> ReadFrames(Pending(layers)),
         prompt |-> Stored(Only(rows, "Metadata"), "none"),
         audio |-> ReadRecords(rows, "AudioAsset"), tracks |-> ReadRecords(rows, "AudioTrack"),
         author |-> 0, boards |-> ReadRecords(rows, "Artboard"),
         published |-> published # <<>>,
         canvases |-> IF published = <<>> THEN <<>> ELSE published[1].canvases,
         cover |-> IF published = <<>> THEN 0 ELSE published[1].cover]

IsReadable(rows) ==
    LET header == Header(rows)
        assets == ReadRecords(rows, "Asset")
    IN  /\ \A i \in DOMAIN assets : AssetIsReadable(header.minor, assets[i])
        /\ \A data \in ToSet(ReadRecords(rows, "Layer")) : LayerIsReadable(header.minor, assets, data)
        /\ \A canvas \in ToSet(header.canvas) : canvas # <<>> => canvas[2] = header.chunkSize

(* What reading adds up: from the payloads, in which keyframes belong to     *)
(* their layers.                                                             *)
LayerTexts(data) ==
    2 + Text(Stored(data.board, 0)) + MaskTexts(ReadAppearance(data))
      + Texts(ReadRole(data) # <<>>, 2)
      + IF data.source.keyed THEN 2 * Len(data.source.keys) ELSE 1

PublicationTexts(data) ==
    SumOver(data, LAMBDA m : Text(m.cover) + SumOver(m.canvases, Text))

DecodedTexts(rows) ==
    SumOver(ReadRecords(rows, "Asset"), TextsIn)
      + SumOver(ReadRecords(rows, "Layer"), LayerTexts)
      + Texts(Stored(Only(rows, "Metadata"), "none") # "none", 1)
      + Cardinality(OfKind(rows, "AudioAsset"))
      + SumOver(ReadRecords(rows, "AudioTrack"), LAMBDA track : 2 + 3 * Len(track.clips))
      + Texts(Occurs(rows, "Authorship"), 1)
      + 2 * Cardinality(OfKind(rows, "Artboard"))
      + PublicationTexts(ReadPublication(rows))

DecodedParts(rows) == PartsPerKind(ReadRecords(rows, "Asset"))

DecodedTotals(rows) ==
    LET layers == ReadRecords(rows, "Layer")
        Keys(data) == IF data.source.keyed THEN Len(data.source.keys) ELSE 0
    IN  [assets |-> Header(rows).assets, layers |-> Only(rows, "LayerCount"),
         boards |-> Count(rows, "ArtboardCount"), audio |-> Count(rows, "AudioAssetCount"),
         tracks |-> Count(rows, "AudioTrackCount"),
         frames |-> Cardinality({key.at : key \in Pending(layers)}),
         keyframes |-> SumOver(layers, Keys),
         motion |-> SumOver(layers, LAMBDA data : Len(Stored(data.motion, <<>>))),
         clips |-> SumOver(ReadRecords(rows, "AudioTrack"), LAMBDA track : Len(track.clips)),
         samples |-> SumOver(ReadRecords(rows, "AudioAsset"), LAMBDA asset : asset.length),
         entries |-> SumOver(ReadPublication(rows), LAMBDA m : Len(m.canvases)),
         pixels |-> Pixels(DecodedParts(rows)), parts |-> DecodedParts(rows), texts |-> DecodedTexts(rows)]

(* decodeDocumentRecords(): <<>> if the rows are refused.                    *)
Decoded(rows, limits) ==
    IF /\ CanonicalLayout(rows) /\ MatchesVersion(rows) /\ MatchesCounts(rows) /\ IsReadable(rows)
       /\ Within(DecodedTotals(rows), limits)
       /\ Valid(ReadDocument(rows))
    THEN <<ReadDocument(rows)>>
    ELSE <<>>
===============================================================================
