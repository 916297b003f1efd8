----------------------------- MODULE ArtboardEdits -----------------------------
(***************************************************************************)
(* The operations of DocumentEditor on artboards.  All of them work through *)
(* editArtboards(), which saves what they may touch and puts it back when   *)
(* they fail or leave an invalid document.                                  *)
(***************************************************************************)
EXTENDS LayerEdits

TouchedByArtboards ==
    {"boards", "layers", "frames", "published", "canvases", "cover", "minor"}

(* editArtboards(): assets are only ever appended, so cutting the new ones   *)
(* off is enough.                                                            *)
EditArtboards(d, refused, same, new) ==
    EditOr(d, refused, same, Raised(new),
           [Restored(new, d, TouchedByArtboards) EXCEPT !.assets = SubSeq(@, 1, Len(d.assets))])

Board(d, id) == Found(d.boards, id)
WithBoard(d, id, board) == [d EXCEPT !.boards[Item(d.boards, id)] = board]

InsertArtboard(d, board, at) ==
    EditArtboards(d, Has(d.boards, board.id) \/ IsOutside(at, d.boards), FALSE,
                  [d EXCEPT !.boards = Inserted(@, at, board)])

SetArtboardName(d, id, name) ==
    EditArtboards(d, ~Has(d.boards, id), Board(d, id).name = name,
                  WithBoard(d, id, [Board(d, id) EXCEPT !.name = name]))

SetArtboardRegion(d, id, origin, width) ==
    EditArtboards(d, ~Has(d.boards, id),
                  Board(d, id).origin = origin /\ Board(d, id).width = width,
                  WithBoard(d, id, [Board(d, id) EXCEPT !.origin = origin, !.width = width]))

SetArtboardBackground(d, id, background) ==
    EditArtboards(d, ~Has(d.boards, id), Board(d, id).background = background,
                  WithBoard(d, id, [Board(d, id) EXCEPT !.background = background]))

SetArtboardVisible(d, id, visible) ==
    EditArtboards(d, ~Has(d.boards, id), Board(d, id).visible = visible,
                  WithBoard(d, id, [Board(d, id) EXCEPT !.visible = visible]))

MoveArtboard(d, id, to) ==
    LET from == Item(d.boards, id)
    IN  EditArtboards(d, ~Has(d.boards, id) \/ to >= Len(d.boards), from = to + 1,
                      [d EXCEPT !.boards = MoveElement(@, from, to)])

\* Mutant: the artwork of a layer moves with its artboard.
SetLayerArtboardInPlace(d, id, board) ==
    EditArtboards(d, ~Has(d.layers, id) \/ (board # 0 /\ ~Has(d.boards, board)),
                  Layer(d, id).board = board,
                  WithLayer(d, id, [Layer(d, id) EXCEPT !.board = board]))

(* The layer keeps its place in the world.                                   *)
SetLayerArtboard(d, id, board) ==
    EditArtboards(d, ~Has(d.layers, id) \/ (board # 0 /\ ~Has(d.boards, board)),
                  Layer(d, id).board = board,
                  WithLayer(d, id, [Layer(d, id) EXCEPT
                        !.x = @ + BoardOrigin(d, Layer(d, id).board) - BoardOrigin(d, board),
                        !.board = board]))

-----------------------------------------------------------------------------
(* Duplication: the artboard with its layers, their keyframes and a copy of  *)
(* every asset that is a source of one of them.                              *)

(* The id a duplicate of id gets on a board: board ":" id, or board ":asset:" *)
(* id.                                                                       *)
CopyId(board, id) == 10 * board + id

PlacesOn(d, board) == {i \in DOMAIN d.layers : d.layers[i].board = board}
OnBoard(d, board) == Kept(d.layers, PlacesOn(d, board))

SourcesOn(d, board) ==
    UNION {IF layer.keyed
           THEN {KeyAsset(d, layer.id, f) :
                    f \in {d.frames[i].at : i \in {j \in DOMAIN d.frames :
                                                    OwnsKey(d.frames[j], layer.id)}}}
           ELSE {layer.asset} : layer \in ToSet(OnBoard(d, board))}

CopiedAssets(d, board, to) ==
    LET sources == Kept(d.assets, {i \in DOMAIN d.assets : d.assets[i].id \in SourcesOn(d, board)})
    IN  [i \in DOMAIN sources |-> [sources[i] EXCEPT !.id = CopyId(to, @)]]

CopiedLayers(d, board, to) ==
    LET layers == OnBoard(d, board)
    IN  [i \in DOMAIN layers |->
            [layers[i] EXCEPT !.id = CopyId(to, @), !.board = to,
                              !.asset = IF layers[i].keyed THEN @ ELSE CopyId(to, @)]]

KeysOn(d, keys, board) ==
    Kept(keys, {k \in DOMAIN keys : Layer(d, keys[k].layer).board = board})

\* Mutant: the copies of keyframes share their assets with the originals.
CopiedKeysSharing(d, keys, board, to) ==
    LET mine == KeysOn(d, keys, board)
    IN  SortedKeys(keys \o [i \in DOMAIN mine |->
            [mine[i] EXCEPT !.layer = CopyId(to, @)]])

CopiedKeys(d, keys, board, to) ==
    LET mine == KeysOn(d, keys, board)
    IN  SortedKeys(keys \o [i \in DOMAIN mine |->
            [mine[i] EXCEPT !.layer = CopyId(to, @), !.asset = CopyId(to, @)]])

CopiedFrame(d, frame, board, to) == [frame EXCEPT !.keys = CopiedKeys(d, @, board, to)]

DuplicateArtboard(d, id, to, origin, at) ==
    LET assets == CopiedAssets(d, id, to)
        layers == CopiedLayers(d, id, to)
    IN  EditArtboards(d,
            \/ ~Has(d.boards, id) \/ Has(d.boards, to) \/ IsOutside(at, d.boards)
            \/ \E i \in DOMAIN assets : Has(d.assets, assets[i].id)
            \/ \E i \in DOMAIN layers : Has(d.layers, layers[i].id) \/ Has(d.tracks, layers[i].id),
            FALSE,
            [d EXCEPT !.assets = @ \o assets,
                      !.layers = @ \o layers,
                      !.frames = [i \in DOMAIN @ |-> CopiedFrame(d, @[i], id, to)],
                      !.boards = Inserted(@, at, [Board(d, id) EXCEPT !.id = to,
                                                                      !.origin = origin])])

-----------------------------------------------------------------------------
(* Removal                                                                   *)

WithoutBoard(d, id) ==
    LET canvases == Kept(d.canvases, {i \in DOMAIN d.canvases : d.canvases[i] # id})
    IN  [d EXCEPT !.boards = Kept(@, {i \in DOMAIN @ : @[i].id # id}),
                  !.canvases = canvases,
                  !.cover = IF @ # id \/ ~d.published THEN @
                            ELSE IF canvases = <<>> THEN 0 ELSE Head(canvases)]

(* A layer of the board lies in the world afterwards, in the same place.     *)
Released(layer, board) == [layer EXCEPT !.x = @ + board.origin, !.board = 0]

KeepLayers(d, id) ==
    [d EXCEPT !.layers = [i \in DOMAIN @ |->
        IF @[i].board = id THEN Released(@[i], Board(d, id)) ELSE @[i]]]

DeleteLayers(d, id) ==
    [d EXCEPT !.layers = Kept(@, DOMAIN @ \ PlacesOn(d, id)),
              !.frames = WithoutKeys(@, {d.layers[i].id : i \in PlacesOn(d, id)})]

RemoveArtboard(d, id, removal) ==
    EditArtboards(d, ~Has(d.boards, id), FALSE,
                  WithoutBoard(IF removal = "KeepLayers" THEN KeepLayers(d, id)
                               ELSE DeleteLayers(d, id), id))
===============================================================================
