---------------------------- MODULE MCDocumentEditor ----------------------------
(***************************************************************************)
(* Documents to start from, and the calls made on each: one session per     *)
(* group of operations, on the document its interesting cases need.         *)
(***************************************************************************)
EXTENDS DocumentEditor

Static(id, kind, asset) ==
    [id |-> id, kind |-> kind, keyed |-> FALSE, asset |-> asset, index |-> <<>>,
     board |-> 0, x |-> 0, appearance |-> PlainAppearance, blend |-> 0, range |-> <<>>,
     motion |-> <<>>, opacity |-> 1, control |-> NoControl,
     setup |-> NoSetup, playback |-> NoPlayback, name |-> "n", visible |-> TRUE]

Keyed(id, kind, index) == [Static(id, kind, 0) EXCEPT !.keyed = TRUE, !.index = index]

Key(layer, asset) == [layer |-> layer, asset |-> asset]
Clipped == [PlainAppearance EXCEPT !.clipped = TRUE]
Masked == [PlainAppearance EXCEPT !.mask = 2, !.vectorMask = 3]

Drawings == <<Visual(1, "Raster", <<"a">>), Visual(2, "Raster", <<"b">>),
              Visual(3, "Vector", <<"a", "b">>)>>

Blank ==
    [minor |-> 0, width |-> 4, infinite |-> FALSE, origin |-> 0, chunkSize |-> 0,
     rate |-> 1, frameCount |-> 3, prompt |-> "none", published |-> FALSE,
     canvases |-> <<>>, cover |-> 0, author |-> 0, assets |-> Drawings, audio |-> <<>>,
     layers |-> <<Static(1, "Bitmap", 1)>>, frames |-> <<>>, tracks |-> <<>>, boards |-> <<>>]

(* Two keyframed layers, one of them with a keyframe at frame 2.             *)
Animated ==
    [Blank EXCEPT
        !.layers = <<Keyed(1, "Bitmap", <<0, 2>>), Keyed(2, "Bitmap", <<0>>), Static(3, "Vector", 3)>>,
        !.frames = <<[at |-> 0, keys |-> <<Key(1, 1), Key(2, 1)>>],
                     [at |-> 2, keys |-> <<Key(1, 2)>>]>>]

(* One keyframed layer. *)
Flipbook ==
    [Animated EXCEPT !.layers = <<Keyed(1, "Bitmap", <<0>>)>>,
                     !.frames = <<[at |-> 0, keys |-> <<Key(1, 1)>>]>>]

Infinite == [Animated EXCEPT !.minor = 1, !.infinite = TRUE, !.chunkSize = 4, !.origin = -4]

Stacked ==
    [Animated EXCEPT
        !.minor = CurrentFormatMinor,
        !.layers = <<[Keyed(1, "Bitmap", <<0, 2>>) EXCEPT !.appearance = Masked],
                     [Keyed(2, "Bitmap", <<0>>) EXCEPT !.appearance = Clipped],
                     Static(3, "Vector", 3)>>]

Sounding ==
    [Animated EXCEPT
        !.minor = 4,
        !.audio = <<[id |-> 4, length |-> 2], [id |-> 5, length |-> 1]>>,
        !.tracks = <<[id |-> 4, gain |-> 1,
                      clips |-> <<[id |-> 4, asset |-> 4, start |-> 1, duration |-> 1, offset |-> 0]>>],
                     [id |-> 5, gain |-> 1, clips |-> <<>>]>>]

NewBoard(id, origin) ==
    [id |-> id, origin |-> origin, width |-> 2, name |-> "n", background |-> 0, visible |-> TRUE]

Boarded ==
    [Stacked EXCEPT
        !.boards = <<NewBoard(1, 2), NewBoard(2, 5)>>,
        !.layers = [i \in DOMAIN @ |-> [@[i] EXCEPT !.board = IF i < 3 THEN 1 ELSE 2]],
        !.published = TRUE, !.canvases = <<1, 2>>, !.cover = 1]

PartsOf(kind) ==
    CASE kind = "Pose" -> {"hereLocked", "there", "w"}
      [] kind = "IpAdapter" -> {"A", "B"}
      [] OTHER -> {"a", "bad"}

FirstPart(kind) ==
    CASE kind = "Pose" -> "here" [] kind = "IpAdapter" -> "A" [] OTHER -> "a"

(* A control layer that shows asset 1, then asset 2.                         *)
Controlled(kind) ==
    LET content == IF kind = "SemanticSegment" THEN "Raster" ELSE kind
    IN  [Blank EXCEPT
            !.minor = CurrentFormatMinor,
            !.assets = <<Visual(1, content, <<FirstPart(kind), "w">>),
                         Visual(2, content, <<FirstPart(kind), "v">>)>>,
            !.layers = <<Static(2, kind, 1), Keyed(1, kind, <<0, 2>>)>>,
            !.frames = <<[at |-> 0, keys |-> <<Key(1, 1)>>], [at |-> 2, keys |-> <<Key(1, 2)>>]>>]

Filmed ==
    [Blank EXCEPT
        !.minor = 20,
        !.assets = Append(@, Visual(7, "Video", <<"a", "b", "c">>)),
        !.layers = <<Static(1, "Video", 7), [Static(2, "Bitmap", 1) EXCEPT !.appearance = Clipped]>>]

Prompted == [Blank EXCEPT !.minor = 2, !.prompt = "a"]

Session(start, calls, edits) ==
    [start |-> start, calls |-> calls, edits |-> edits, losses |-> 0, kind |-> "none", parts |-> {}]

(* A file may take an edit and report it as failed.                          *)
Lossy(s) == [s EXCEPT !.losses = 1]

MCSessions ==
    {Session(Blank, {}, 0)} \union
    {Session(Infinite, {"canvas"}, 2), Session(Sounding, {"canvas"}, 2),
     Session(Boarded, {"metadata"}, 2), Lossy(Session(Prompted, {"metadata"}, 2)),
     Session(Stacked, {"assets"}, 2), Session(Infinite, {"assets"}, 1),
     Session(Filmed, {"assets", "properties"}, 1), Session(Animated, {"paths"}, 2),
     Session(Sounding, {"audio"}, 2), Session(Sounding, {"audio", "clips"}, 1),
     Session(Stacked, {"layers"}, 2), Lossy(Session(Sounding, {"layers"}, 1)),
     Session(Animated, {"layers", "keyframes"}, 1), Session(Animated, {"properties"}, 2),
     Lossy(Session(Flipbook, {"keyframes"}, 3)), Session(Animated, {"sources", "keyframes", "assets"}, 2),
     Session(Boarded, {"artboards", "keyframes"}, 2)}
    \union {[Session(Controlled(kind), {"control"}, 1) EXCEPT !.kind = kind, !.parts = PartsOf(kind)] :
                kind \in ControlKind \union {"SemanticSegment"}}

MCAppearances == {PlainAppearance, Clipped, Masked, [Masked EXCEPT !.mask = 3]}
MCPlaces == {-3, 5}
MCIndexes == {-1, 0, 1}
MCRanges == {<<>>, <<1, 2>>, <<2, 1>>}
MCNewLayers ==
    {Static(3, "Bitmap", 1), Static(6, "Vector", 1), Static(6, "Video", 7),
     [Static(6, "Bitmap", 2) EXCEPT !.appearance = Clipped],
     Keyed(6, "Bitmap", <<>>), Keyed(6, "Vector", <<>>)}
MCPlacements ==
    {<<>>, <<[at |-> 0, asset |-> 1]>>, <<[at |-> 1, asset |-> 1]>>, <<[at |-> 0, asset |-> 7]>>,
     <<[at |-> 2, asset |-> 2], [at |-> 0, asset |-> 1]>>}
===============================================================================
