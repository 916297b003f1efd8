------------------------- MODULE RenderedDocumentProofs -------------------------
(***************************************************************************)
(* Proofs about what is seen of a document: what the renderer makes of it   *)
(* while it is valid, where its layers lie after every edit, and what the   *)
(* copy of an artboard shows and shares.                                    *)
(***************************************************************************)
EXTENDS RenderedDocument, DocumentEditorProofs

-----------------------------------------------------------------------------
(* The region of the whole document                                          *)

(* Numbers with a bound have a greatest, and a least.                        *)
LEMMA GreatestNumber ==
    ASSUME NEW T \in SUBSET Int, T # {}, NEW bound \in Int, \A n \in T : n <= bound
    PROVE  Max(T) \in T /\ \A n \in T : n <= Max(T)
  <1> DEFINE U == {bound - n : n \in T}
  <1>1. U \in SUBSET Nat /\ U # {}
    <2>1. \A n \in T : bound - n \in Nat
      OBVIOUS
    <2> QED
      BY <2>1
  <1>2. PICK u \in U : \A v \in U : u <= v
    BY <1>1, LeastNumber
  <1>3. PICK m \in T : u = bound - m
    BY <1>2
  <1>4. \A n \in T : m >= n
    <2> SUFFICES ASSUME NEW n \in T PROVE m >= n
      OBVIOUS
    <2>1. u <= bound - n
      BY <1>2
    <2> QED
      BY <1>3, <2>1
  <1>5. Max(T) \in T /\ \A n \in T : Max(T) >= n
    BY <1>3, <1>4, Zenon DEF Max
  <1> QED
    BY <1>5

LEMMA LeastInteger ==
    ASSUME NEW T \in SUBSET Int, T # {}, NEW bound \in Int, \A n \in T : bound <= n
    PROVE  Min(T) \in T /\ \A n \in T : Min(T) <= n
  <1> DEFINE U == {n - bound : n \in T}
  <1>1. U \in SUBSET Nat /\ U # {}
    <2>1. \A n \in T : n - bound \in Nat
      OBVIOUS
    <2> QED
      BY <2>1
  <1>2. PICK u \in U : \A v \in U : u <= v
    BY <1>1, LeastNumber
  <1>3. PICK m \in T : u = m - bound
    BY <1>2
  <1>4. \A n \in T : m =< n
    <2> SUFFICES ASSUME NEW n \in T PROVE m =< n
      OBVIOUS
    <2>1. u <= n - bound
      BY <1>2
    <2> QED
      BY <1>3, <2>1
  <1> QED
    BY <1>3, <1>4, Zenon DEF Min

LEMMA BoardTypes ==
    ASSUME NEW d \in CanvasDocument, NEW b \in DOMAIN d.boards
    PROVE  d.boards[b].id \in Nat /\ d.boards[b].origin \in Int /\ d.boards[b].width \in Int
  <1>1. d.boards[b] \in Artboard
    BY FieldTypes, LenProperties, ElementOfSeq
  <1> QED
    BY <1>1 DEF Artboard

(* What validation asks of the canvas and the artboards makes one region of  *)
(* them, also where there are none and it does not ask.                      *)
LEMMA ViewIsRenderable ==
    ASSUME NEW d \in CanvasDocument, Valid(d)
    PROVE  /\ ValidRequest(d, DocumentViewRegion(d))
           /\ \A b \in DOMAIN d.boards : Inside(d.boards[b], DocumentViewRegion(d))
           /\ DocumentViewRegion(d).origin \in Int /\ DocumentViewRegion(d).width \in Int
  <1> DEFINE starts == {d.origin} \union {d.boards[i].origin : i \in DOMAIN d.boards}
             ends == {d.origin + d.width}
                       \union {d.boards[i].origin + d.boards[i].width : i \in DOMAIN d.boards}
             parts == {Region(d.origin, d.width)} \union ToSet(d.boards)
             left == Min(starts)
             right == Max(ends)
             view == DocumentViewRegion(d)
  <1>1. /\ d.origin \in Int /\ d.width \in Int /\ d.width > 0
        /\ d.width <= CoordinateMax /\ CoordinateMax \in Int
        /\ d.infinite => d.origin + d.width <= CoordinateMax
        /\ ~d.infinite => d.origin = 0
    <2>1. d.origin \in Int /\ d.width \in Extent
      BY FieldTypes
    <2>2. d.width \in Int /\ d.width <= CoordinateMax /\ CoordinateMax \in Int
      BY <2>1 DEF Extent, CoordinateMax
    <2>3. ValidCanvas(d)
      BY DEF Valid
    <2> QED
      BY <2>1, <2>2, <2>3 DEF ValidCanvas
  <1>2. \A b \in DOMAIN d.boards : d.boards[b].origin \in Int /\ d.boards[b].width \in Int
    BY BoardTypes
  <1>3. ViewFits(d)
    <2>1. CASE d.boards = <<>>
      <3>1. \A a \in starts, b \in ends : a = d.origin /\ b = d.origin + d.width
        BY <2>1
      <3>2. d.origin + d.width <= CoordinateMax
        BY <1>1
      <3>3. (d.origin + d.width) - d.origin <= CoordinateMax
        BY <1>1
      <3>4. \A a \in starts, b \in ends : b <= CoordinateMax /\ b - a <= CoordinateMax
        BY <3>1, <3>2, <3>3
      <3> QED
        BY <3>4 DEF ViewFits
    <2> QED
      BY <2>1 DEF Valid, ValidArtboards
  <1>4. \A a \in starts, b \in ends : b <= CoordinateMax /\ b - a <= CoordinateMax
    BY <1>3 DEF ViewFits
  <1>5. /\ starts \in SUBSET Int /\ ends \in SUBSET Int
        /\ d.origin \in starts /\ d.origin + d.width \in ends
        /\ \A b \in DOMAIN d.boards :
                d.boards[b].origin \in starts /\ d.boards[b].origin + d.boards[b].width \in ends
    BY <1>1, <1>2
  <1>6. {part.origin : part \in parts} = starts /\ {EndOf(part) : part \in parts} = ends
    <2>1. /\ Region(d.origin, d.width).origin = d.origin
          /\ EndOf(Region(d.origin, d.width)) = d.origin + d.width
      BY DEF Region, EndOf
    <2>2. \A part : part \in parts <=>
            part = Region(d.origin, d.width) \/ \E i \in DOMAIN d.boards : part = d.boards[i]
      BY DEF ToSet
    <2>3. \A i : EndOf(d.boards[i]) = d.boards[i].origin + d.boards[i].width
      BY DEF EndOf
    <2> HIDE DEF parts
    <2>4. \A a : a \in {part.origin : part \in parts} <=> a \in starts
      BY <2>1, <2>2
    <2>5. \A b : b \in {EndOf(part) : part \in parts} <=> b \in ends
      BY <2>1, <2>2, <2>3
    <2> HIDE DEF starts, ends
    <2> QED
      BY <2>4, <2>5
  <1>7. view = Region(left, right - left)
    BY <1>3, <1>6 DEF DocumentViewRegion
  <1> HIDE DEF starts, ends
  <1>8. right \in ends /\ \A b \in ends : b <= right
    BY <1>1, <1>4, <1>5, GreatestNumber
  <1>9. left \in starts /\ \A a \in starts : left <= a
    <2> DEFINE bound == d.origin + d.width - CoordinateMax
    <2>1. bound \in Int /\ \A a \in starts : bound <= a
      <3>1. bound \in Int
        BY <1>1
      <3>2. ASSUME NEW a \in starts PROVE bound <= a
        <4>1. (d.origin + d.width) - a <= CoordinateMax
          BY <1>4, <1>5
        <4> QED
          BY <1>1, <1>5, <4>1
      <3> QED
        BY <3>1, <3>2
    <2> HIDE DEF bound
    <2> QED
      BY <1>5, <2>1, LeastInteger
  <1>10. left \in Int /\ right \in Int /\ left <= d.origin /\ d.origin + d.width <= right
         /\ right <= CoordinateMax
    BY <1>4, <1>5, <1>8, <1>9
  <1>11. view.origin = left /\ view.width = right - left /\ EndOf(view) = right
    BY <1>7, <1>10 DEF Region, EndOf
  <1>12. \A b \in DOMAIN d.boards : Inside(d.boards[b], view)
    BY <1>5, <1>8, <1>9, <1>11 DEF Inside, EndOf
  <1>13. ValidRequest(d, view)
    BY <1>1, <1>10, <1>11 DEF ValidRequest, Inside
  <1> QED
    BY <1>10, <1>11, <1>12, <1>13

-----------------------------------------------------------------------------
(* What a layer shows                                                        *)

LEMMA LayerIsValid ==
    ASSUME NEW d \in CanvasDocument, Valid(d), NEW i \in DOMAIN d.layers
    PROVE  /\ d.layers[i] \in CanvasLayer
           /\ ValidAppearance(d, i) /\ ValidProperties(d, d.layers[i])
           /\ ValidSource(d, d.layers[i])
           /\ Distinct(d.layers) /\ Has(d.layers, d.layers[i].id)
           /\ Found(d.layers, d.layers[i].id) = d.layers[i]
  <1>1. d.layers[i] \in CanvasLayer
    BY FieldTypes, LenProperties, ElementOfSeq
  <1>2. /\ ValidAppearance(d, i) /\ ValidProperties(d, d.layers[i])
        /\ ValidSource(d, d.layers[i]) /\ Distinct(d.layers)
    BY DEF Valid, ValidLayers
  <1>3. Has(d.layers, d.layers[i].id)
    BY DEF Has
  <1>4. Found(d.layers, d.layers[i].id) = d.layers[i]
    BY <1>2, <1>3, ItemProperties DEF Distinct, Found
  <1> QED
    BY <1>1, <1>2, <1>3, <1>4

(* A reference that is valid is not empty.                                   *)
LEMMA ReferencesAreNotEmpty ==
    ASSUME NEW d, Valid(d), NEW id, Has(d.assets, id) PROVE id # 0
  <1>1. PICK i \in DOMAIN d.assets : d.assets[i].id = id
    BY DEF Has
  <1> QED
    BY <1>1 DEF Valid, ValidAssets, ValidAsset

(* The index of a keyframed layer starts at the first frame, so some entry   *)
(* is the last one up to a frame.                                            *)
LEMMA OwnerIsIndexed ==
    ASSUME NEW layer, layer.index \in Seq(Nat), layer.index # <<>>, layer.index[1] = 0,
           NEW f \in Nat
    PROVE  \E n \in DOMAIN layer.index : /\ layer.index[n] <= f
                                         /\ OwnerFrame(layer, f) = layer.index[n]
  <1> DEFINE upTo == {i \in DOMAIN layer.index : layer.index[i] <= f}
  <1>1. DOMAIN layer.index = 1 .. Len(layer.index) /\ Len(layer.index) \in Nat
    BY LenProperties
  <1>2. 1 \in upTo
    BY <1>1, EmptySeq
  <1>3. upTo \in SUBSET Int /\ upTo # {} /\ \A n \in upTo : n <= Len(layer.index)
    BY <1>1, <1>2
  <1> HIDE DEF upTo
  <1>4. Max(upTo) \in upTo /\ \A n \in upTo : n <= Max(upTo)
    <2>1. Len(layer.index) \in Int
      BY <1>1
    <2> QED
      BY <1>3, <2>1, GreatestNumber
  <1> DEFINE last == CHOOSE i \in upTo : \A j \in upTo : j <= i
  <1>5. last \in upTo
    BY <1>4
  <1>6. OwnerFrame(layer, f) = layer.index[last]
    BY DEF OwnerFrame, upTo
  <1> HIDE DEF last
  <1> QED
    BY <1>5, <1>6 DEF upTo

(* While a layer of a valid document exists, it shows something.             *)
LEMMA LayersShow ==
    ASSUME NEW d \in CanvasDocument, Valid(d), NEW i \in DOMAIN d.layers, NEW f \in Nat,
           LayerExistsAt(d, d.layers[i], f)
    PROVE  ResolveAssetAt(d, d.layers[i], f) # 0
  <1> DEFINE layer == d.layers[i]
             id == ResolvedId(d, layer, f)
  <1>1. ReferenceIsValid(d, id, LayerContent(layer))
    <2>1. CASE ~layer.keyed
      BY <2>1, LayerIsValid DEF ResolvedId, ValidSource
    <2>2. CASE layer.keyed
      <3>1. layer.index \in Seq(Nat) /\ layer.index # <<>> /\ layer.index[1] = 0
        BY <2>2, LayerIsValid, LayerFieldTypes DEF ValidSource
      <3>2. PICK n \in DOMAIN layer.index :
                layer.index[n] <= f /\ OwnerFrame(layer, f) = layer.index[n]
        BY <3>1, OwnerIsIndexed
      <3>3. FramesInOrder(d.frames) /\ d.frames \in Seq(CanvasFrame)
        BY FramesAreValid
      <3>4. layer.index = OwnedFrames(d.frames, layer.id)
        BY <2>2 DEF Valid, IndexMatchesFrames
      <3>5. ListsOwners(layer.index, d.frames, layer.id)
        BY <3>3, <3>4, OwnedFramesProperties
      <3>6. PICK j \in DOMAIN d.frames :
                OwnsKey(d.frames[j], layer.id) /\ layer.index[n] = d.frames[j].at
        BY <3>5 DEF ListsOwners
      <3>7. PICK k \in DOMAIN d.frames[j].keys : d.frames[j].keys[k].layer = layer.id
        BY <3>6 DEF OwnsKey
      <3>8. /\ HasKey(d, layer.id, d.frames[j].at)
            /\ KeyAsset(d, layer.id, d.frames[j].at) = d.frames[j].keys[k].asset
        BY <3>3, <3>7, KeyIsFound
      <3>9. id = d.frames[j].keys[k].asset
        BY <2>2, <3>2, <3>6, <3>8 DEF ResolvedId
      <3>10. ValidKeyframe(d, d.frames[j].keys[k])
        BY FramesAreValid
      <3> QED
        BY <3>7, <3>9, <3>10, LayerIsValid DEF ValidKeyframe
    <2> QED
      BY <2>1, <2>2
  <1>2. Has(d.assets, id) /\ AssetContent(Found(d.assets, id)) = LayerContent(layer)
    BY <1>1 DEF ReferenceIsValid
  <1>3. id # 0
    BY <1>2, ReferencesAreNotEmpty
  <1> QED
    BY <1>2, <1>3 DEF ResolveAssetAt

-----------------------------------------------------------------------------
(* What is left of a document in a batch                                     *)

(* The layers at some places are rendered, the others left out.              *)
Batch(d, f, boards, places) ==
    [boards |-> boards,
     layers |-> [i \in DOMAIN d.layers |-> IF i \in places THEN RenderLayer(d, f, i) ELSE Omitted(i)]]

LEMMA RenderLayerIs ==
    ASSUME NEW d, NEW f, NEW i
    PROVE  /\ RenderLayer(d, f, i).index = i
           /\ RenderLayer(d, f, i).spatial = (d.layers[i].kind # "IpAdapter")
           /\ RenderLayer(d, f, i).artwork = IsArtwork(d.layers[i])
           /\ RenderLayer(d, f, i).board = d.layers[i].board
           /\ RenderLayer(d, f, i).clipped = d.layers[i].appearance.clipped
           /\ RenderLayer(d, f, i).fill = d.layers[i].appearance.fill
           /\ RenderLayer(d, f, i).opacity = d.layers[i].opacity
           /\ RenderLayer(d, f, i).blend = d.layers[i].blend
  BY DEF RenderLayer

LEMMA OmittedIs ==
    ASSUME NEW i
    PROVE  /\ Omitted(i).index = i /\ Omitted(i).ok /\ ~Omitted(i).visible
           /\ Omitted(i).spatial /\ Omitted(i).artwork /\ Omitted(i).board = 0
           /\ ~Omitted(i).clipped /\ Omitted(i).fill <= 1 /\ Omitted(i).opacity <= 1
           /\ Omitted(i).blend \in {0, 5}
  BY DEF Omitted

(* Each layer of a valid document is one the renderer can prepare, if what   *)
(* it is made of fits.                                                       *)
LEMMA RenderLayerIsOk ==
    ASSUME NEW d \in CanvasDocument, Valid(d), NEW i \in DOMAIN d.layers, NEW f \in Nat
    PROVE  RenderLayer(d, f, i).ok <=>
                (d.layers[i].kind # "IpAdapter" /\ IsVisibleAt(d, d.layers[i], f)
                    => Fits(d, d.layers[i], f))
  <1> DEFINE layer == d.layers[i]
  <1>1. ASSUME IsVisibleAt(d, layer, f) PROVE ResolveAssetAt(d, layer, f) # 0
    BY <1>1, LayersShow DEF IsVisibleAt
  <1>2. MasksResolve(d, layer)
    <2>1. /\ ValidMask(d, layer.appearance.mask, "Raster")
          /\ ValidMask(d, layer.appearance.vectorMask, "Vector")
      BY LayerIsValid DEF ValidAppearance
    <2> QED
      BY <2>1 DEF ValidMask, MasksResolve, MaskIds
  <1> QED
    BY <1>1, <1>2 DEF RenderLayer

(* A batch of which the layers that are rendered lie on its artboards, and   *)
(* are all there are of theirs, composes if and only if they fit.            *)
LEMMA BatchComposes ==
    ASSUME NEW d \in CanvasDocument, Valid(d), NEW f \in Nat,
           NEW boards, ComposableBoards(boards), NEW places \in SUBSET DOMAIN d.layers,
           \A i \in places : d.layers[i].board # 0 => Has(boards, d.layers[i].board),
           \A i \in places, j \in DOMAIN d.layers :
                d.layers[j].board = d.layers[i].board => j \in places
    PROVE  Composable(Batch(d, f, boards, places)) <=> LayersFit(d, places, f)
  <1> DEFINE batch == Batch(d, f, boards, places)
  <1>1. batch.boards = boards /\ DOMAIN batch.layers = DOMAIN d.layers
        /\ \A i \in DOMAIN d.layers :
                batch.layers[i] = IF i \in places THEN RenderLayer(d, f, i) ELSE Omitted(i)
    BY DEF Batch
  <1>2. DOMAIN d.layers = 1 .. Len(d.layers) /\ Len(d.layers) \in Nat
    BY FieldTypes, LenProperties
  <1> HIDE DEF batch
  <1>3. ASSUME NEW i \in DOMAIN d.layers, i \notin places PROVE ComposableLayer(batch, i)
    <2>1. batch.layers[i] = Omitted(i)
      BY <1>1, <1>3
    <2> QED
      BY <2>1, OmittedIs DEF ComposableLayer
  <1>4. ASSUME NEW i \in places
        PROVE  ComposableLayer(batch, i) <=> RenderLayer(d, f, i).ok
    <2> DEFINE layer == d.layers[i]
    <2>1. i \in DOMAIN d.layers /\ batch.layers[i] = RenderLayer(d, f, i)
      BY <1>1
    <2>2. batch.layers[i].ok = RenderLayer(d, f, i).ok
      BY <2>1
    <2>3. /\ layer.opacity <= 1 /\ layer.appearance.fill <= 1 /\ layer.blend \in {0, 5}
      BY <2>1, LayerIsValid DEF ValidAppearance, ValidProperties
    <2>4. ASSUME layer.appearance.clipped
          PROVE  \E j \in 1 .. i - 1 : /\ batch.layers[j].artwork /\ ~batch.layers[j].clipped
                                       /\ batch.layers[j].board = layer.board
      <3>1. HasClipBase(d, i)
        BY <2>1, <2>4, LayerIsValid DEF ValidAppearance
      <3>2. PICK j \in 1 .. i - 1 :
                /\ IsArtwork(d.layers[j]) /\ ~d.layers[j].appearance.clipped
                /\ d.layers[j].board = layer.board
        BY <3>1 DEF HasClipBase
      <3>3. j \in DOMAIN d.layers
        BY <1>2, <2>1
      <3>4. batch.layers[j] = RenderLayer(d, f, j)
        BY <1>1, <3>2, <3>3
      <3> QED
        BY <3>2, <3>4, RenderLayerIs
    <2>5. layer.kind # "IpAdapter" \/ ~IsArtwork(layer)
      BY DEF IsArtwork
    <2>6. layer.board # 0 => Has(batch.boards, layer.board)
      BY <1>1
    <2> HIDE DEF layer
    <2>7. /\ batch.layers[i].index = i
          /\ batch.layers[i].spatial = (layer.kind # "IpAdapter")
          /\ batch.layers[i].artwork = IsArtwork(layer)
          /\ batch.layers[i].board = layer.board
          /\ batch.layers[i].clipped = layer.appearance.clipped
          /\ batch.layers[i].fill = layer.appearance.fill
          /\ batch.layers[i].opacity = layer.opacity
          /\ batch.layers[i].blend = layer.blend
      BY <2>1, RenderLayerIs DEF layer
    <2>8. ComposableLayer(batch, i) <=> batch.layers[i].ok
      BY <2>3, <2>4, <2>5, <2>6, <2>7 DEF ComposableLayer
    <2> QED
      BY <2>2, <2>8
  <1>5. Composable(batch) <=> \A i \in places : RenderLayer(d, f, i).ok
    BY <1>1, <1>3, <1>4 DEF Composable
  <1>6. (\A i \in places : RenderLayer(d, f, i).ok) <=> LayersFit(d, places, f)
    BY RenderLayerIsOk DEF LayersFit
  <1> QED
    BY <1>5, <1>6 DEF batch

-----------------------------------------------------------------------------
(* What is painted                                                           *)

LEMMA RankIsTaken ==
    ASSUME NEW places, IsFiniteSet(places), NEW precedes, IsOrder(precedes, places),
           NEW n \in 1 .. Cardinality(places)
    PROVE  \E i \in places : Cardinality(UpTo(precedes, places, i)) = n
  BY EveryRankIsTaken

(* What stays of sequences that agree at the places agrees.                  *)
LEMMA KeptAgrees ==
    ASSUME NEW places, IsFiniteSet(places), places \subseteq Nat,
           NEW s, NEW t, \A i \in places : s[i] = t[i]
    PROVE  Kept(s, places) = Kept(t, places)
  <1> DEFINE precedes == {p \in places \X places : p[1] <= p[2]}
             rank == [i \in places |-> Cardinality({j \in places : j <= i})]
             ranks == 1 .. Cardinality(places)
             at == [n \in ranks |-> CHOOSE i \in places : rank[i] = n]
  <1>1. \A i, j \in places : <<i, j>> \in precedes <=> i <= j
    OBVIOUS
  <1> HIDE DEF precedes
  <1>2. IsOrder(precedes, places)
    BY <1>1 DEF IsOrder
  <1>3. \A i \in places : UpTo(precedes, places, i) = {j \in places : j <= i}
    BY <1>1 DEF UpTo
  <1>4. \A n \in ranks : at[n] \in places
    <2>1. PICK order : IsOrder(order, places)
                       /\ \A i \in places : UpTo(order, places, i) = {j \in places : j <= i}
      BY <1>2, <1>3, Zenon
    <2>2. ASSUME NEW n \in ranks PROVE \E i \in places : rank[i] = n
      <3>1. PICK i \in places : Cardinality(UpTo(order, places, i)) = n
        BY <2>1, RankIsTaken
      <3> QED
        BY <2>1, <3>1
    <2> QED
      BY <2>2
  <1>5. \A u : Kept(u, places) = [n \in ranks |-> u[at[n]]]
    BY DEF Kept, Arranged
  <1> HIDE DEF at
  <1> QED
    BY <1>4, <1>5

(* What stays at no place is empty.                                          *)
LEMMA NothingIsKept == ASSUME NEW s PROVE Kept(s, {}) = <<>>
  <1>1. Kept(s, {}) = Kept(<<>>, {})
    <2>1. IsFiniteSet({}) /\ {} \subseteq Nat /\ \A i \in {} : s[i] = <<>>[i]
      BY FS_EmptySet
    <2> QED
      BY <2>1, KeptAgrees
  <1>2. <<>> \in Seq({})
    OBVIOUS
  <1>3. Kept(<<>>, {}) \in Seq({})
    BY <1>2, KeptType
  <1>4. \A t \in Seq({}) : t = <<>>
    <2> SUFFICES ASSUME NEW t \in Seq({}), t # <<>> PROVE FALSE
      OBVIOUS
    <2>1. Len(t) \in Nat /\ Len(t) # 0
      BY EmptySeq, LenProperties
    <2>2. t[1] \in {}
      BY <2>1, ElementOfSeq
    <2> QED
      BY <2>2
  <1> QED
    BY <1>1, <1>3, <1>4

ArtworkPlaces(batch, board) ==
    {i \in DOMAIN batch.layers : batch.layers[i].artwork /\ batch.layers[i].board = board}

LEMMA ArtworkIs ==
    ASSUME NEW batch, NEW board
    PROVE  Artwork(batch, board) = Kept(batch.layers, ArtworkPlaces(batch, board))
  BY DEF Artwork, ArtworkPlaces

(* The places of the layers of an artboard.                                  *)
LayersOn(d, board) == {i \in DOMAIN d.layers : d.layers[i].board = board}

(* What an artboard shows depends on its own layers.                         *)
LEMMA ArtboardIsPaintedAlike ==
    ASSUME NEW d \in CanvasDocument, NEW f, NEW boards, NEW others, NEW id, id # 0
    PROVE  Painted(Batch(d, f, boards, LayersOn(d, id)), id)
             = Painted(Batch(d, f, others, DOMAIN d.layers), id)
  <1> DEFINE alone == Batch(d, f, boards, LayersOn(d, id))
             whole == Batch(d, f, others, DOMAIN d.layers)
             picks == LayersOn(d, id)
             places == {i \in picks : IsArtwork(d.layers[i])}
  <1>1. /\ DOMAIN alone.layers = DOMAIN d.layers /\ DOMAIN whole.layers = DOMAIN d.layers
        /\ \A i \in DOMAIN d.layers :
                /\ alone.layers[i] = IF i \in picks THEN RenderLayer(d, f, i) ELSE Omitted(i)
                /\ whole.layers[i] = RenderLayer(d, f, i)
    BY DEF Batch
  <1> HIDE DEF alone, whole
  <1>2. ArtworkPlaces(alone, id) = places
    BY <1>1, RenderLayerIs, OmittedIs DEF ArtworkPlaces, LayersOn
  <1>3. ArtworkPlaces(whole, id) = places
    BY <1>1, RenderLayerIs DEF ArtworkPlaces, LayersOn
  <1>4. IsFiniteSet(places) /\ places \subseteq Nat
    <2>1. d.layers \in Seq(CanvasLayer) /\ places \subseteq DOMAIN d.layers
      BY FieldTypes DEF LayersOn
    <2> HIDE DEF places
    <2> QED
      BY <2>1, PlacesAreFinite
  <1>5. \A i \in places : alone.layers[i] = whole.layers[i]
    BY <1>1 DEF LayersOn
  <1> HIDE DEF places
  <1>6. Artwork(alone, id) = Artwork(whole, id)
    <2>1. Kept(alone.layers, places) = Kept(whole.layers, places)
      BY <1>4, <1>5, KeptAgrees
    <2> QED
      BY <1>2, <1>3, <2>1, ArtworkIs
  <1> QED
    BY <1>6, Zenon DEF Painted, alone, whole

(* Nothing that was left out is painted.                                     *)
LEMMA NothingElseIsPainted ==
    ASSUME NEW d \in CanvasDocument, NEW f, NEW boards, NEW id, id # 0
    PROVE  Painted(Batch(d, f, boards, LayersOn(d, id)), 0) = <<>>
  <1> DEFINE alone == Batch(d, f, boards, LayersOn(d, id))
             picks == LayersOn(d, id)
             places == ArtworkPlaces(alone, 0)
             content == Artwork(alone, 0)
  <1>1. /\ DOMAIN alone.layers = DOMAIN d.layers
        /\ \A i \in DOMAIN d.layers :
                alone.layers[i] = IF i \in picks THEN RenderLayer(d, f, i) ELSE Omitted(i)
    BY DEF Batch
  <1>2. alone.layers = [i \in DOMAIN d.layers |-> alone.layers[i]]
    BY DEF Batch
  <1> HIDE DEF alone
  <1>3. places \subseteq DOMAIN alone.layers
    BY DEF ArtworkPlaces
  <1>4. \A i \in places : ~alone.layers[i].visible
    BY <1>1, RenderLayerIs, OmittedIs DEF ArtworkPlaces, LayersOn
  <1> HIDE DEF places
  <1>5. content = Kept(alone.layers, places)
    BY ArtworkIs DEF places
  <1>6. \E S : alone.layers \in Seq(S)
    <2> DEFINE S == {alone.layers[i] : i \in DOMAIN d.layers}
    <2>1. \A i \in DOMAIN d.layers : alone.layers[i] \in S
      OBVIOUS
    <2> HIDE DEF S
    <2>2. d.layers \in Seq(CanvasLayer)
      BY FieldTypes
    <2> QED
      BY <1>2, <2>1, <2>2, MappedType
  <1>7. \A n \in DOMAIN content : ~content[n].visible
    <2>1. PICK from \in [DOMAIN content -> places] : \A n \in DOMAIN from : content[n] = alone.layers[from[n]]
      BY <1>3, <1>5, <1>6, KeptOrder
    <2> QED
      BY <1>4, <2>1
  <1> HIDE DEF content
  <1>8. Seen(content) = {}
    BY <1>7 DEF Seen
  <1> QED
    BY <1>8, NothingIsKept, Zenon DEF Painted, content, alone

-----------------------------------------------------------------------------
(* Every frame                                                               *)

LEMMA BoardsCompose ==
    ASSUME NEW d \in CanvasDocument, Valid(d)
    PROVE  /\ ComposableBoards(d.boards)
           /\ \A b \in DOMAIN d.boards :
                /\ d.boards[b].id # 0 /\ Has(d.boards, d.boards[b].id)
                /\ Found(d.boards, d.boards[b].id) = d.boards[b]
                /\ ComposableBoards(<<d.boards[b]>>)
  <1>1. /\ Distinct(d.boards)
        /\ \A b \in DOMAIN d.boards :
                /\ d.boards[b].id # 0 /\ d.boards[b].width > 0
                /\ EndOf(d.boards[b]) <= CoordinateMax
    BY DEF Valid, ValidArtboards, EndOf
  <1>2. ComposableBoards(d.boards)
    BY <1>1 DEF ComposableBoards, ToSet
  <1>3. ASSUME NEW b \in DOMAIN d.boards
        PROVE  /\ Has(d.boards, d.boards[b].id)
               /\ Found(d.boards, d.boards[b].id) = d.boards[b]
               /\ ComposableBoards(<<d.boards[b]>>)
    <2>1. Has(d.boards, d.boards[b].id)
      BY DEF Has
    <2>2. Found(d.boards, d.boards[b].id) = d.boards[b]
      BY <1>1, <2>1, ItemProperties DEF Distinct, Found
    <2> DEFINE one == <<d.boards[b]>>
    <2>3. DOMAIN one = {1} /\ one[1] = d.boards[b]
      OBVIOUS
    <2> HIDE DEF one
    <2>4. ComposableBoards(one)
      BY <1>1, <2>3 DEF ComposableBoards, ToSet, Distinct
    <2> QED
      BY <2>1, <2>2, <2>4 DEF one
  <1> QED
    BY <1>1, <1>2, <1>3

WholeBatch(d, f) == Batch(d, f, d.boards, DOMAIN d.layers)
AloneBatch(d, f, board) == Batch(d, f, <<board>>, LayersOn(d, board.id))

(* What is rendered of a batch that composes if the layers at places fit.    *)
Rendering(d, f, batch, places, left, right) ==
    IF LayersFit(d, places, f)
    THEN [status |-> "Success", at |-> [x \in left .. right - 1 |-> PictureAt(batch, x)]]
    ELSE Refused("InvalidDocument")

(* Every frame of a valid document is rendered, if its layers fit.           *)
LEMMA WholeIsRendered ==
    ASSUME NEW d \in CanvasDocument, Valid(d), NEW f \in 0 .. d.frameCount - 1
    PROVE  RenderFrame(d, f) =
              Rendering(d, f, WholeBatch(d, f), DOMAIN d.layers,
                        DocumentViewRegion(d).origin, EndOf(DocumentViewRegion(d)))
  <1> DEFINE view == DocumentViewRegion(d)
  <1>1. f \in Nat /\ ~(f >= d.frameCount)
    BY FieldTypes
  <1>2. Preflight(d, f, view) = "Success"
    BY <1>1, ViewIsRenderable DEF Preflight
  <1>3. WholeBatch(d, f) =
            [boards |-> d.boards, layers |-> [i \in DOMAIN d.layers |-> RenderLayer(d, f, i)]]
    BY DEF WholeBatch, Batch
  <1>4. \A i \in DOMAIN d.layers : d.layers[i].board # 0 => Has(d.boards, d.layers[i].board)
    BY LayerIsValid DEF ValidProperties
  <1>5. Composable(WholeBatch(d, f)) <=> LayersFit(d, DOMAIN d.layers, f)
    BY <1>1, <1>4, BoardsCompose, BatchComposes DEF WholeBatch
  <1>6. RenderFrame(d, f) = Compose(WholeBatch(d, f), view)
    BY <1>2, <1>3 DEF RenderFrame, RenderFrameRegion
  <1> QED
    BY <1>5, <1>6 DEF Compose, Rendering

(* And every artboard alone.                                                 *)
LEMMA ArtboardIsRendered ==
    ASSUME NEW d \in CanvasDocument, Valid(d), NEW f \in 0 .. d.frameCount - 1,
           NEW b \in DOMAIN d.boards, NEW board, board = d.boards[b]
    PROVE  RenderArtboard(d, f, board.id) =
              Rendering(d, f, AloneBatch(d, f, board), LayersOn(d, board.id),
                        board.origin, EndOf(board))
  <1> DEFINE region == Region(board.origin, board.width)
             batch == AloneBatch(d, f, board)
             places == LayersOn(d, board.id)
  <1>1. f \in Nat /\ ~(f >= d.frameCount)
    BY FieldTypes
  <1>2. board.id # 0 /\ Has(d.boards, board.id) /\ Found(d.boards, board.id) = board
        /\ ComposableBoards(<<board>>)
    BY BoardsCompose
  <1>3. region.origin = board.origin /\ region.width = board.width /\ EndOf(region) = EndOf(board)
    BY DEF Region, EndOf
  <1>4. board.origin \in Int /\ board.width \in Int /\ board.width > 0
        /\ EndOf(board) <= CoordinateMax
    BY BoardTypes DEF Valid, ValidArtboards, EndOf
  <1>5. Inside(board, DocumentViewRegion(d))
    BY ViewIsRenderable
  <1> HIDE DEF region
  <1>6. ValidRequest(d, region) /\ Inside(region, board)
    BY <1>3, <1>4, <1>5 DEF ValidRequest, Inside, EndOf
  <1>7. batch = [boards |-> <<Found(d.boards, board.id)>>,
                 layers |-> [i \in DOMAIN d.layers |->
                                IF d.layers[i].board = board.id THEN RenderLayer(d, f, i)
                                ELSE Omitted(i)]]
    BY <1>2 DEF AloneBatch, Batch, LayersOn
  <1>8. Composable(batch) <=> LayersFit(d, places, f)
    <2>1. \A i \in places : Has(<<board>>, d.layers[i].board)
      BY DEF Has, LayersOn
    <2>2. \A i \in places, j \in DOMAIN d.layers :
            d.layers[j].board = d.layers[i].board => j \in places
      BY DEF LayersOn
    <2>3. places \in SUBSET DOMAIN d.layers
      BY DEF LayersOn
    <2>4. batch = Batch(d, f, <<board>>, places)
      BY DEF AloneBatch
    <2> HIDE DEF places, batch
    <2> QED
      BY <1>1, <1>2, <2>1, <2>2, <2>3, <2>4, BatchComposes
  <1> HIDE DEF batch, places
  <1>9. RenderArtboard(d, f, board.id) = Compose(batch, region)
    BY <1>1, <1>2, <1>6, <1>7 DEF RenderArtboard, RenderArtboardRegion, region
  <1> QED
    BY <1>3, <1>8, <1>9 DEF Compose, Rendering, batch, places

LEMMA AppendToOne == ASSUME NEW a, NEW e PROVE Append(<<a>>, e) = <<a, e>>
  <1> DEFINE S == {a, e}
             t == Append(<<a>>, e)
  <1>1. <<a>> \in Seq(S) /\ Len(<<a>>) = 1 /\ <<a>>[1] = a /\ e \in S
    OBVIOUS
  <1> HIDE DEF S
  <1>2. t \in Seq(S) /\ Len(t) = 2 /\ t[1] = a /\ t[2] = e
    BY <1>1, AppendProperties
  <1> HIDE DEF t
  <1>3. DOMAIN t = 1 .. 2 /\ t = [i \in 1 .. 2 |-> t[i]]
    BY <1>2, LenProperties
  <1>4. t = <<a, e>>
    BY <1>2, <1>3
  <1> QED
    BY <1>4 DEF t

(* What the artboard shows is its group in the whole.                        *)
LEMMA GroupsAreAlike ==
    ASSUME NEW d \in CanvasDocument, Valid(d), NEW f, NEW b \in DOMAIN d.boards, NEW x
    PROVE  PictureAt(AloneBatch(d, f, d.boards[b]), x) = <<PictureAt(WholeBatch(d, f), x)[b], <<>>>>
  <1> DEFINE board == d.boards[b]
             alone == AloneBatch(d, f, board)
             whole == WholeBatch(d, f)
             group == GroupAt(whole, board, x)
             groups == [c \in DOMAIN d.boards |-> GroupAt(whole, d.boards[c], x)]
  <1>1. board.id # 0
    BY BoardsCompose
  <1>2. alone.boards = <<board>> /\ whole.boards = d.boards
    BY DEF AloneBatch, WholeBatch, Batch
  <1>3. Painted(alone, board.id) = Painted(whole, board.id) /\ Painted(alone, 0) = <<>>
    <2>1. /\ alone = Batch(d, f, <<board>>, LayersOn(d, board.id))
          /\ whole = Batch(d, f, d.boards, DOMAIN d.layers)
      BY Zenon DEF AloneBatch, WholeBatch
    <2> HIDE DEF alone, whole
    <2>2. Painted(alone, board.id) = Painted(whole, board.id)
      BY <1>1, <2>1, ArtboardIsPaintedAlike
    <2>3. Painted(alone, 0) = <<>>
      BY <1>1, <2>1, NothingElseIsPainted
    <2> QED
      BY <2>2, <2>3
  <1> HIDE DEF alone, whole
  <1>4. GroupAt(alone, board, x) = group
    BY <1>3, Zenon DEF GroupAt
  <1> HIDE DEF group
  <1>5. PictureAt(alone, x) = <<group, <<>>>>
    <2> DEFINE one == <<board>>
    <2>1. DOMAIN one = 1 .. 1 /\ one[1] = board
      OBVIOUS
    <2> HIDE DEF one
    <2>2. [c \in DOMAIN one |-> GroupAt(alone, one[c], x)] = <<group>>
      BY <1>4, <2>1
    <2>3. PictureAt(alone, x) = Append(<<group>>, <<>>)
      BY <1>2, <1>3, <2>2, Zenon DEF PictureAt, one
    <2> QED
      BY <2>3, AppendToOne, Zenon
  <1>6. PictureAt(whole, x)[b] = group
    <2> DEFINE top == Painted(whole, 0)
               S == {groups[c] : c \in DOMAIN d.boards} \union {top}
    <2>1. PictureAt(whole, x) = Append(groups, top)
      BY <1>2 DEF PictureAt
    <2>2. groups = [c \in DOMAIN d.boards |-> groups[c]] /\ DOMAIN groups = DOMAIN d.boards
      OBVIOUS
    <2>3. groups[b] = group
      BY DEF group
    <2> HIDE DEF groups, top
    <2>4. /\ \A c \in DOMAIN d.boards : groups[c] \in S
          /\ top \in S
      OBVIOUS
    <2> HIDE DEF S
    <2>5. groups \in Seq(S)
      BY <2>2, <2>4, FieldTypes, MappedType
    <2>6. b \in 1 .. Len(groups) /\ Len(groups) \in Nat
      BY <2>2, <2>5, LenProperties
    <2>7. Append(groups, top)[b] = groups[b]
      BY <2>4, <2>5, <2>6, AppendProperties
    <2> QED
      BY <2>1, <2>3, <2>7
  <1> QED
    BY <1>5, <1>6 DEF alone, whole

(* The frames of a document, and its artboards, are rendered if their layers *)
(* fit; each artboard alone shows what its group shows in the whole.         *)
LEMMA DocumentRenders ==
    ASSUME doc \in CanvasDocument PROVE EveryFrameRenders
  <1> SUFFICES ASSUME Valid(doc), NEW f \in Frames
               PROVE  LET whole == RenderFrame(doc, f)
                      IN  /\ whole.status = "Success" <=> LayersFit(doc, DOMAIN doc.layers, f)
                          /\ \A b \in DOMAIN doc.boards :
                                LET id == doc.boards[b].id
                                    alone == RenderArtboard(doc, f, id)
                                IN  /\ alone.status = "Success" <=>
                                            LayersFit(doc, LayersOn(doc, id), f)
                                    /\ whole.status = "Success" =>
                                            \A x \in DOMAIN alone.at :
                                                alone.at[x] = <<whole.at[x][b], <<>>>>
    BY Zenon DEF EveryFrameRenders, LayersOn
  <1> DEFINE view == DocumentViewRegion(doc)
             whole == RenderFrame(doc, f)
             fit == LayersFit(doc, DOMAIN doc.layers, f)
             seen == [x \in view.origin .. EndOf(view) - 1 |-> PictureAt(WholeBatch(doc, f), x)]
  <1>1. f \in 0 .. doc.frameCount - 1
    BY DEF Frames
  <1>2. whole = IF fit THEN [status |-> "Success", at |-> seen] ELSE Refused("InvalidDocument")
    BY <1>1, WholeIsRendered DEF Rendering
  <1> HIDE DEF whole, fit, seen
  <1>3. (whole.status = "Success" <=> fit) /\ (fit => whole.at = seen)
    BY <1>2 DEF Refused
  <1>4. ASSUME NEW b \in DOMAIN doc.boards
        PROVE  LET id == doc.boards[b].id
                   alone == RenderArtboard(doc, f, id)
               IN  /\ alone.status = "Success" <=> LayersFit(doc, LayersOn(doc, id), f)
                   /\ whole.status = "Success" =>
                           \A x \in DOMAIN alone.at : alone.at[x] = <<whole.at[x][b], <<>>>>
    <2> DEFINE board == doc.boards[b]
               alone == RenderArtboard(doc, f, board.id)
               own == LayersFit(doc, LayersOn(doc, board.id), f)
               shown == [x \in board.origin .. EndOf(board) - 1 |->
                            PictureAt(AloneBatch(doc, f, board), x)]
    <2>1. alone = IF own THEN [status |-> "Success", at |-> shown] ELSE Refused("InvalidDocument")
      BY <1>1, ArtboardIsRendered DEF Rendering
    <2>2. ASSUME NEW x \in DOMAIN shown PROVE shown[x] = <<seen[x][b], <<>>>>
      <3>1. x \in board.origin .. EndOf(board) - 1
        BY <2>2
      <3>2. /\ view.origin \in Int /\ EndOf(view) \in Int
            /\ board.origin \in Int /\ EndOf(board) \in Int
        BY ViewIsRenderable, BoardTypes DEF EndOf
      <3>3. Inside(board, view)
        BY ViewIsRenderable
      <3> HIDE DEF board, view
      <3>4. x \in view.origin .. EndOf(view) - 1
        BY <3>1, <3>2, <3>3 DEF Inside
      <3>5. PictureAt(AloneBatch(doc, f, board), x)
              = <<PictureAt(WholeBatch(doc, f), x)[b], <<>>>>
        BY GroupsAreAlike DEF board
      <3> QED
        BY <3>1, <3>4, <3>5 DEF seen
    <2>3. fit => own
      BY DEF fit, LayersFit, LayersOn
    <2> HIDE DEF alone, own, shown
    <2>4. (alone.status = "Success" <=> own) /\ (own => alone.at = shown)
      BY <2>1 DEF Refused
    <2>5. ASSUME whole.status = "Success", NEW x \in DOMAIN alone.at
          PROVE  alone.at[x] = <<whole.at[x][b], <<>>>>
      BY <1>3, <2>2, <2>3, <2>4, <2>5
    <2> QED
      BY <2>4, <2>5 DEF alone, own
  <1> QED
    BY <1>3, <1>4 DEF whole, fit

(* Whatever has been edited, a document that validates is one the renderer   *)
(* can render, by the rules of its own that it asks of the canvas, the       *)
(* artboards, the layers and their clipping, if and only if the transforms,  *)
(* masks and filters of the layers that are drawn fit, whichever do; an      *)
(* artboard alone asks it of its own layers only, and shows what its group   *)
(* shows in the whole (documentViewRegion(), sampleLayerAt(), prepareMask(), *)
(* renderValidatedFrameLayerTiles() and composeFrameLayers(),                *)
(* FrameRenderer.cpp).                                                       *)
THEOREM EveryFrameRendersCorrect ==
    DocumentCallsAssumption => (Spec => []EveryFrameRenders)
  <1> SUFFICES ASSUME DocumentCallsAssumption PROVE Spec => []EveryFrameRenders
    OBVIOUS
  <1>1. DocumentTypeOK => EveryFrameRenders
    BY DocumentRenders DEF DocumentTypeOK
  <1>2. Spec => []DocumentTypeOK
    BY DocumentTypeCorrect
  <1> QED
    BY <1>1, <1>2, PTL

-----------------------------------------------------------------------------
(* Where the layers of a document lie after an edit                          *)

(* d after an edit is e: what a layer was called is renamed, and unless it   *)
(* is one of those moved it lies where it did.                               *)
SamePlaces(d, e, moved, from, to) ==
    \A i \in DOMAIN d.layers, j \in DOMAIN e.layers :
        /\ d.layers[i].id \notin moved
        /\ e.layers[j].id = Renamed(d.layers[i].id, from, to)
        => Placement(e, e.layers[j]) = Placement(d, d.layers[i])

HasParts(d) == {"layers", "boards"} \subseteq DOMAIN d

HasSpot(layer) == {"id", "board", "x"} \subseteq DOMAIN layer

(* A layer is where one of the same id was, or none had its id.              *)
SameSpot(a, b) == a.id = b.id /\ a.board = b.board /\ a.x = b.x
StaysOr(layer, layers, moved) ==
    \/ \E i \in DOMAIN layers : SameSpot(layer, layers[i])
    \/ \E i \in DOMAIN layers : layer.id = layers[i].id /\ layer.id \in moved
    \/ ~Has(layers, layer.id)

LayersStayBut(e, d, moved) ==
    /\ HasParts(e)
    /\ \A j \in DOMAIN e.layers :
            HasSpot(e.layers[j]) /\ StaysOr(e.layers[j], d.layers, moved)

(* No layer goes anywhere, and every artboard stays too.                     *)
NothingMoves(e, d) == LayersStayBut(e, d, {}) /\ e.boards = d.boards

(* An artboard lies where it did.                                            *)
BoardStays(e, d, id) ==
    /\ Has(e.boards, id)
    /\ \A c \in DOMAIN e.boards : e.boards[c].id = id =>
            \E b \in DOMAIN d.boards : d.boards[b].id = id /\ d.boards[b].origin = e.boards[c].origin

(* Then its origin is what it was.                                           *)
LEMMA BoardOriginStays ==
    ASSUME NEW d, Distinct(d.boards), NEW e, NEW id, Has(d.boards, id), BoardStays(e, d, id)
    PROVE  BoardOrigin(e, id) = BoardOrigin(d, id)
  <1>1. /\ Item(e.boards, id) \in DOMAIN e.boards /\ e.boards[Item(e.boards, id)].id = id
        /\ Item(d.boards, id) \in DOMAIN d.boards /\ d.boards[Item(d.boards, id)].id = id
    BY ItemProperties DEF BoardStays
  <1>2. PICK b \in DOMAIN d.boards :
            /\ d.boards[b].id = id
            /\ d.boards[b].origin = e.boards[Item(e.boards, id)].origin
    BY <1>1 DEF BoardStays
  <1>3. b = Item(d.boards, id)
    BY <1>1, <1>2 DEF Distinct
  <1> QED
    BY <1>2, <1>3 DEF BoardOrigin, Found

(* Where artboards lie depends on the artboards alone.                       *)
LEMMA OwnBoards ==
    ASSUME NEW d, NEW e, e.boards = d.boards, NEW id PROVE BoardOrigin(e, id) = BoardOrigin(d, id)
  BY DEF BoardOrigin

(* What a valid document says of the places of its layers.                   *)
LEMMA PlacesAreKnown ==
    ASSUME NEW d \in CanvasDocument, Valid(d)
    PROVE  /\ HasParts(d) /\ Distinct(d.layers) /\ Distinct(d.boards)
           /\ \A i \in DOMAIN d.layers : d.layers[i].board # 0 => Has(d.boards, d.layers[i].board)
  <1>1. HasParts(d)
    BY DEF CanvasDocument, HasParts
  <1>2. Distinct(d.layers) /\ Distinct(d.boards)
    BY DEF Valid, ValidLayers, ValidArtboards
  <1>3. \A i \in DOMAIN d.layers : ValidProperties(d, d.layers[i])
    BY DEF Valid, ValidLayers
  <1> QED
    BY <1>1, <1>2, <1>3 DEF ValidProperties

(* Layers that stay, on artboards that stay.                                 *)
LEMMA LayersAndBoardsStay ==
    ASSUME NEW d \in CanvasDocument, Valid(d), NEW e, NEW moved, LayersStayBut(e, d, moved),
           \A i \in DOMAIN d.layers :
                \/ d.layers[i].id \in moved \/ ~Has(e.layers, d.layers[i].id)
                \/ BoardOrigin(e, d.layers[i].board) = BoardOrigin(d, d.layers[i].board)
    PROVE  SamePlaces(d, e, moved, 0, 0)
  <1> SUFFICES ASSUME NEW i \in DOMAIN d.layers, NEW j \in DOMAIN e.layers,
                      d.layers[i].id \notin moved,
                      e.layers[j].id = Renamed(d.layers[i].id, 0, 0)
               PROVE  Placement(e, e.layers[j]) = Placement(d, d.layers[i])
    BY DEF SamePlaces
  <1>1. e.layers[j].id = d.layers[i].id
    BY DEF Renamed
  <1>2. PICK k \in DOMAIN d.layers : SameSpot(e.layers[j], d.layers[k])
    BY <1>1 DEF LayersStayBut, StaysOr, Has
  <1>3. k = i
    BY <1>1, <1>2, PlacesAreKnown DEF SameSpot, Distinct
  <1>4. e.layers[j].board = d.layers[i].board /\ e.layers[j].x = d.layers[i].x
    BY <1>2, <1>3 DEF SameSpot
  <1>5. BoardOrigin(e, d.layers[i].board) = BoardOrigin(d, d.layers[i].board)
    BY <1>1 DEF Has
  <1> QED
    BY <1>4, <1>5 DEF Placement

(* The same, on the artboards as they are.                                   *)
LEMMA NothingMovesPlaces ==
    ASSUME NEW d \in CanvasDocument, Valid(d), NEW e, NEW moved, LayersStayBut(e, d, moved),
           e.boards = d.boards
    PROVE  SamePlaces(d, e, moved, 0, 0)
  BY OwnBoards, LayersAndBoardsStay

-----------------------------------------------------------------------------
(* The ways an operation ends                                                *)

(* An operation that is applied leaves layers in their places.               *)
KeepsPlaces(d, outcome, moved, from, to) ==
    outcome.result = "applied" => SamePlaces(d, outcome.doc, moved, from, to)

(* It does not move any layer or artboard.                                   *)
MovesNothing(d, outcome) ==
    outcome.result = "applied" => Valid(d) /\ NothingMoves(outcome.doc, d)

(* What moves nothing keeps places, whatever it was allowed to move.         *)
LEMMA MovesNothingPlaces ==
    ASSUME NEW d \in CanvasDocument, NEW outcome, MovesNothing(d, outcome), NEW moved
    PROVE  KeepsPlaces(d, outcome, moved, 0, 0)
  <1> SUFFICES ASSUME outcome.result = "applied" PROVE SamePlaces(d, outcome.doc, moved, 0, 0)
    BY DEF KeepsPlaces
  <1>1. LayersStayBut(outcome.doc, d, moved) /\ outcome.doc.boards = d.boards /\ Valid(d)
    BY DEF MovesNothing, NothingMoves, LayersStayBut, StaysOr
  <1> QED
    BY <1>1, NothingMovesPlaces

(* The format version is no place.                                           *)
LEMMA RecordedPlaces ==
    ASSUME NEW e, HasParts(e)
    PROVE  /\ HasParts(RecordDocumentChange(e))
           /\ RecordDocumentChange(e).layers = e.layers /\ RecordDocumentChange(e).boards = e.boards
  BY DEF HasParts, RecordDocumentChange

LEMMA RecordedIsPlaced ==
    ASSUME NEW d, NEW e, HasParts(e), NEW moved, NEW from, NEW to, SamePlaces(d, e, moved, from, to)
    PROVE  SamePlaces(d, RecordDocumentChange(e), moved, from, to)
  <1>1. \A j \in DOMAIN e.layers :
            Placement(RecordDocumentChange(e), e.layers[j]) = Placement(e, e.layers[j])
    BY RecordedPlaces, OwnBoards DEF Placement
  <1> QED
    BY <1>1, RecordedPlaces DEF SamePlaces

(* And nothing moves when it is noted.                                       *)
LEMMA RecordedMovesNothing ==
    ASSUME NEW d, NEW e, NothingMoves(e, d) PROVE NothingMoves(RecordDocumentChange(e), d)
  BY RecordedPlaces DEF NothingMoves, LayersStayBut

(* What an applied edit leaves is what the operation made of a valid         *)
(* document.                                                                 *)
LEMMA UncheckedPlaces ==
    ASSUME NEW d, NEW refused, NEW same, NEW new, NEW moved, NEW from, NEW to,
           Valid(d) /\ ~refused /\ ~same => HasParts(new) /\ SamePlaces(d, new, moved, from, to)
    PROVE  KeepsPlaces(d, Unchecked(d, refused, same, new), moved, from, to)
  BY RecordedIsPlaced DEF KeepsPlaces, Unchecked, Checked, Outcome, Applied

LEMMA EditOrPlaces ==
    ASSUME NEW d, NEW refused, NEW same, NEW new, NEW undone, NEW moved, NEW from, NEW to,
           Valid(d) /\ ~refused /\ ~same => HasParts(new) /\ SamePlaces(d, new, moved, from, to)
    PROVE  KeepsPlaces(d, EditOr(d, refused, same, new, undone), moved, from, to)
  BY RecordedIsPlaced DEF KeepsPlaces, EditOr, Checked, Outcome, Applied

LEMMA EditPlaces ==
    ASSUME NEW d, NEW refused, NEW same, NEW new, NEW fields, NEW moved, NEW from, NEW to,
           Valid(d) /\ ~refused /\ ~same => HasParts(new) /\ SamePlaces(d, new, moved, from, to)
    PROVE  KeepsPlaces(d, Edit(d, refused, same, new, fields), moved, from, to)
  BY EditOrPlaces DEF Edit

LEMMA UncheckedMovesNothing ==
    ASSUME NEW d, NEW refused, NEW same, NEW new,
           Valid(d) /\ ~refused /\ ~same => NothingMoves(new, d)
    PROVE  MovesNothing(d, Unchecked(d, refused, same, new))
  BY RecordedMovesNothing DEF MovesNothing, Unchecked, Checked, Outcome, Applied

LEMMA EditOrMovesNothing ==
    ASSUME NEW d, NEW refused, NEW same, NEW new, NEW undone,
           Valid(d) /\ ~refused /\ ~same => NothingMoves(new, d)
    PROVE  MovesNothing(d, EditOr(d, refused, same, new, undone))
  BY RecordedMovesNothing DEF MovesNothing, EditOr, Checked, Outcome, Applied

LEMMA EditMovesNothing ==
    ASSUME NEW d, NEW refused, NEW same, NEW new, NEW fields,
           Valid(d) /\ ~refused /\ ~same => NothingMoves(new, d)
    PROVE  MovesNothing(d, Edit(d, refused, same, new, fields))
  BY EditOrMovesNothing DEF Edit

LEMMA CheckedMovesNothing ==
    ASSUME NEW d, NEW refused, NEW outcome, Valid(d) /\ ~refused => MovesNothing(d, outcome)
    PROVE  MovesNothing(d, Checked(d, refused, outcome))
  BY DEF MovesNothing, Checked, Outcome

LEMMA EndsUnchanged ==
    ASSUME NEW d, NEW how \in {"unchanged", "rejected", "invalid"}
    PROVE  MovesNothing(d, Outcome(d, how))
  BY DEF MovesNothing, Outcome

-----------------------------------------------------------------------------
(* What moves nothing                                                        *)

LEMMA LayersHaveSpots ==
    ASSUME NEW layer \in CanvasLayer PROVE HasSpot(layer)
  BY DEF CanvasLayer, HasSpot

LEMMA OwnLayersHaveSpots ==
    ASSUME NEW d \in CanvasDocument, NEW i \in DOMAIN d.layers
    PROVE  d.layers[i] \in CanvasLayer /\ HasSpot(d.layers[i])
  BY FieldTypes, LenProperties, ElementOfSeq, LayersHaveSpots

LEMMA OwnLayersStay ==
    ASSUME NEW d \in CanvasDocument, NEW e, HasParts(e), e.layers = d.layers, NEW moved
    PROVE  LayersStayBut(e, d, moved)
  BY OwnLayersHaveSpots DEF LayersStayBut, StaysOr, SameSpot

(* One thing after another.                                                  *)
LEMMA NothingMovesAgain ==
    ASSUME NEW d, NEW e, NothingMoves(e, d), NEW f, HasParts(f), f.layers = e.layers,
           f.boards = e.boards
    PROVE  NothingMoves(f, d)
  BY DEF NothingMoves, LayersStayBut

LEMMA OtherFieldsMoveNothing ==
    ASSUME NEW d \in CanvasDocument, NEW e, HasParts(e), e.layers = d.layers, e.boards = d.boards
    PROVE  NothingMoves(e, d)
  BY OwnLayersStay DEF NothingMoves

(* The fields that are not the layers nor the artboards.                     *)
LEMMA ElsewhereMovesNothing ==
    ASSUME NEW d \in CanvasDocument
    PROVE  /\ \A v : NothingMoves([d EXCEPT !.width = v], d)
           /\ \A v, w : NothingMoves([d EXCEPT !.origin = v, !.width = w], d)
           /\ \A v : NothingMoves([d EXCEPT !.rate = v], d)
           /\ \A v : NothingMoves([d EXCEPT !.frameCount = v], d)
           /\ \A v : NothingMoves([d EXCEPT !.prompt = v], d)
           /\ \A v, w : NothingMoves([d EXCEPT !.prompt = v, !.minor = w], d)
           /\ \A u, v, w : NothingMoves([d EXCEPT !.published = u, !.canvases = v, !.cover = w], d)
           /\ \A v : NothingMoves([d EXCEPT !.author = v], d)
           /\ \A v : NothingMoves([d EXCEPT !.assets = v], d)
           /\ \A v : NothingMoves([d EXCEPT !.frames = v], d)
           /\ \A v : NothingMoves([d EXCEPT !.audio = v], d)
           /\ \A v : NothingMoves([d EXCEPT !.tracks = v], d)
           /\ NothingMoves(Raised(d), d) /\ NothingMoves(d, d)
  <1>1. HasParts(d)
    BY DEF CanvasDocument, HasParts
  <1>2. \A e : HasParts(e) /\ e.layers = d.layers /\ e.boards = d.boards => NothingMoves(e, d)
    BY OtherFieldsMoveNothing
  <1>3. /\ \A v : NothingMoves([d EXCEPT !.width = v], d)
        /\ \A v, w : NothingMoves([d EXCEPT !.origin = v, !.width = w], d)
        /\ \A v : NothingMoves([d EXCEPT !.rate = v], d)
        /\ \A v : NothingMoves([d EXCEPT !.frameCount = v], d)
    BY <1>1, <1>2 DEF HasParts
  <1>4. /\ \A v : NothingMoves([d EXCEPT !.prompt = v], d)
        /\ \A v, w : NothingMoves([d EXCEPT !.prompt = v, !.minor = w], d)
        /\ \A u, v, w : NothingMoves([d EXCEPT !.published = u, !.canvases = v, !.cover = w], d)
        /\ \A v : NothingMoves([d EXCEPT !.author = v], d)
    BY <1>1, <1>2 DEF HasParts
  <1>5. /\ \A v : NothingMoves([d EXCEPT !.assets = v], d)
        /\ \A v : NothingMoves([d EXCEPT !.frames = v], d)
        /\ \A v : NothingMoves([d EXCEPT !.audio = v], d)
        /\ \A v : NothingMoves([d EXCEPT !.tracks = v], d)
    BY <1>1, <1>2 DEF HasParts
  <1>6. NothingMoves(Raised(d), d) /\ NothingMoves(d, d)
    BY <1>1, <1>2 DEF HasParts, Raised
  <1> QED
    BY <1>3, <1>4, <1>5, <1>6

(* The same, in a document of the newest format.                             *)
LEMMA RaisedMovesNothing ==
    ASSUME NEW d \in CanvasDocument
    PROVE  /\ Raised(d) \in CanvasDocument
           /\ \A e : NothingMoves(e, Raised(d)) => NothingMoves(e, d)
  <1>1. Raised(d).layers = d.layers /\ Raised(d).boards = d.boards
    BY DEF Raised, CanvasDocument
  <1> QED
    BY <1>1, RaisedType DEF NothingMoves, LayersStayBut

(* The size of the canvas, its rate and its length are no places of layers.  *)
LEMMA CanvasCallsMoveNothing ==
    ASSUME NEW d \in CanvasDocument
    PROVE  /\ \A n : /\ MovesNothing(d, SetCanvasExtent(d, n))
                     /\ MovesNothing(d, SetFrameRate(d, n))
                     /\ MovesNothing(d, SetFrameCount(d, n))
           /\ \A x, n : MovesNothing(d, EnsureInfiniteCanvasRegion(d, x, n))
  BY ElsewhereMovesNothing, EditMovesNothing
     DEF SetCanvasExtent, SetFrameRate, SetFrameCount, EnsureInfiniteCanvasRegion

(* Neither are the metadata.                                                 *)
LEMMA MetadataCallsMoveNothing ==
    ASSUME NEW d \in CanvasDocument
    PROVE  /\ \A v : MovesNothing(d, SetStableDiffusionMetadata(d, v))
           /\ MovesNothing(d, ClearStableDiffusionMetadata(d))
           /\ \A s, c : MovesNothing(d, SetPublicationMetadata(d, s, c))
           /\ MovesNothing(d, ClearPublicationMetadata(d))
           /\ \A a : MovesNothing(d, SetFileAuthor(d, a))
  <1>1. /\ \A v : MovesNothing(d, SetStableDiffusionMetadata(d, v))
        /\ MovesNothing(d, ClearStableDiffusionMetadata(d))
    BY ElsewhereMovesNothing, EditMovesNothing
       DEF SetStableDiffusionMetadata, ClearStableDiffusionMetadata
  <1>2. \A s, c : MovesNothing(d, SetPublicationMetadata(d, s, c))
    BY ElsewhereMovesNothing, RaisedMovesNothing, EditMovesNothing DEF SetPublicationMetadata
  <1>3. MovesNothing(d, ClearPublicationMetadata(d))
    BY ElsewhereMovesNothing, UncheckedMovesNothing DEF ClearPublicationMetadata
  <1>4. \A a : MovesNothing(d, SetFileAuthor(d, a))
    BY ElsewhereMovesNothing, RaisedMovesNothing DEF SetFileAuthor, MovesNothing, Checked, Outcome
  <1> QED
    BY <1>1, <1>2, <1>3, <1>4

(* Neither are the assets that layers show.                                  *)
LEMMA AssetCallsMoveNothing ==
    ASSUME NEW d \in CanvasDocument
    PROVE  /\ \A asset, at : /\ MovesNothing(d, InsertPlainAsset(d, asset, at))
                             /\ MovesNothing(d, InsertTypedAsset(d, asset, at))
           /\ \A id, asset : MovesNothing(d, ReplaceTypedAsset(d, id, asset))
           /\ \A id, paths : MovesNothing(d, ReplaceVectorData(d, id, paths))
           /\ \A id, to : MovesNothing(d, MoveAsset(d, id, to))
           /\ \A id : MovesNothing(d, RemoveAsset(d, id))
  <1>1. \A asset, at : /\ MovesNothing(d, InsertPlainAsset(d, asset, at))
                       /\ MovesNothing(d, InsertTypedAsset(d, asset, at))
    BY ElsewhereMovesNothing, RaisedMovesNothing, EditMovesNothing
       DEF InsertPlainAsset, InsertTypedAsset, InsertedAsset
  <1>2. \A id, parts : NothingMoves(WithParts(d, id, parts), d)
    BY ElsewhereMovesNothing DEF WithParts
  <1>3. /\ \A id, asset : MovesNothing(d, ReplaceTypedAsset(d, id, asset))
        /\ \A id, paths : MovesNothing(d, ReplaceVectorData(d, id, paths))
    BY <1>2, EditMovesNothing DEF ReplaceTypedAsset, ReplaceVectorData
  <1>4. /\ \A id, to : MovesNothing(d, MoveAsset(d, id, to))
        /\ \A id : MovesNothing(d, RemoveAsset(d, id))
    BY ElsewhereMovesNothing, EditMovesNothing, UncheckedMovesNothing DEF MoveAsset, RemoveAsset
  <1> QED
    BY <1>1, <1>3, <1>4

LEMMA PathCallsMoveNothing ==
    ASSUME NEW d \in CanvasDocument
    PROVE  \A id, i, v : /\ MovesNothing(d, InsertVectorPath(d, id, v, i))
                         /\ MovesNothing(d, ReplaceVectorPath(d, id, i, v))
                         /\ MovesNothing(d, MoveVectorPath(d, id, i, v))
                         /\ MovesNothing(d, RemoveVectorPath(d, id, i))
  <1>1. \A id, parts : NothingMoves(WithParts(d, id, parts), d)
    BY ElsewhereMovesNothing DEF WithParts
  <1> QED
    BY <1>1, EditMovesNothing, UncheckedMovesNothing
       DEF InsertVectorPath, ReplaceVectorPath, MoveVectorPath, RemoveVectorPath

LEMMA AudioCallsMoveNothing ==
    ASSUME NEW d \in CanvasDocument
    PROVE  /\ \A asset, at : MovesNothing(d, InsertAudioAsset(d, asset, at))
           /\ \A id, asset : MovesNothing(d, ReplaceAudioAsset(d, id, asset))
           /\ \A id : MovesNothing(d, RemoveAudioAsset(d, id))
           /\ \A track, at : MovesNothing(d, InsertAudioTrack(d, track, at))
           /\ \A id, track : MovesNothing(d, ReplaceAudioTrack(d, id, track))
           /\ \A id, to : MovesNothing(d, MoveAudioTrack(d, id, to))
           /\ \A id : MovesNothing(d, RemoveAudioTrack(d, id))
  <1>1. /\ \A asset, at : MovesNothing(d, InsertAudioAsset(d, asset, at))
        /\ \A track, at : MovesNothing(d, InsertAudioTrack(d, track, at))
    BY ElsewhereMovesNothing, RaisedMovesNothing, EditMovesNothing
       DEF InsertAudioAsset, InsertAudioTrack
  <1>2. /\ \A id, asset : MovesNothing(d, ReplaceAudioAsset(d, id, asset))
        /\ \A id : MovesNothing(d, RemoveAudioAsset(d, id))
    BY ElsewhereMovesNothing, EditMovesNothing, UncheckedMovesNothing
       DEF ReplaceAudioAsset, RemoveAudioAsset
  <1>3. \A id, track : MovesNothing(d, ReplaceAudioTrack(d, id, track))
    BY ElsewhereMovesNothing, EditMovesNothing DEF ReplaceAudioTrack, WithTrack
  <1>4. /\ \A id, to : MovesNothing(d, MoveAudioTrack(d, id, to))
        /\ \A id : MovesNothing(d, RemoveAudioTrack(d, id))
    BY ElsewhereMovesNothing, UncheckedMovesNothing DEF MoveAudioTrack, RemoveAudioTrack
  <1> QED
    BY <1>1, <1>2, <1>3, <1>4

LEMMA ClipCallsMoveNothing ==
    ASSUME NEW d \in CanvasDocument
    PROVE  /\ \A id, clip : MovesNothing(d, InsertAudioClip(d, id, clip))
           /\ \A id, c, clip : MovesNothing(d, ReplaceAudioClip(d, id, c, clip))
           /\ \A id, c : MovesNothing(d, RemoveAudioClip(d, id, c))
  BY AudioCallsMoveNothing, CheckedMovesNothing
     DEF InsertAudioClip, ReplaceAudioClip, RemoveAudioClip

-----------------------------------------------------------------------------
(* Layers that change where they are                                         *)

(* A layer that changes, in a document that has the layers of this one.      *)
LEMMA WithLayerStays ==
    ASSUME NEW d \in CanvasDocument, NEW e, HasParts(e), e.layers = d.layers, NEW id, NEW layer,
           NEW moved, HasSpot(layer), StaysOr(layer, d.layers, moved)
    PROVE  /\ LayersStayBut(WithLayer(e, id, layer), d, moved)
           /\ WithLayer(e, id, layer).boards = e.boards
  <1> DEFINE i == Item(d.layers, id)
             s == [d.layers EXCEPT ![i] = layer]
  <1>1. WithLayer(e, id, layer) = [e EXCEPT !.layers = s]
    BY DEF WithLayer
  <1>2. \A j \in DOMAIN s : j \in DOMAIN d.layers /\ (s[j] = layer \/ s[j] = d.layers[j])
    OBVIOUS
  <1> HIDE DEF s
  <1>3. \A j \in DOMAIN s : HasSpot(s[j]) /\ StaysOr(s[j], d.layers, moved)
    BY <1>2, OwnLayersHaveSpots DEF StaysOr, SameSpot
  <1> QED
    BY <1>1, <1>3 DEF LayersStayBut, HasParts

(* A rebuilt index is no place.                                              *)
LEMMA ReindexedSpots ==
    ASSUME NEW e, HasParts(e), \A j \in DOMAIN e.layers : HasSpot(e.layers[j]),
           NEW frames, NEW id
    PROVE  /\ HasParts(Reindexed(e, frames, id))
           /\ Reindexed(e, frames, id).boards = e.boards
           /\ DOMAIN Reindexed(e, frames, id).layers = DOMAIN e.layers
           /\ \A j \in DOMAIN e.layers : /\ HasSpot(Reindexed(e, frames, id).layers[j])
                                         /\ SameSpot(Reindexed(e, frames, id).layers[j], e.layers[j])
  <1> DEFINE i == Item(e.layers, id)
             index == IF Layer(e, id).keyed THEN OwnedFrames(frames, id) ELSE e.layers[i].index
             s == [e.layers EXCEPT ![i] = [e.layers[i] EXCEPT !.index = index]]
  <1>1. Reindexed(e, frames, id) = [e EXCEPT !.frames = frames, !.layers = s]
    BY DEF Reindexed
  <1>2. /\ DOMAIN s = DOMAIN e.layers
        /\ \A j \in DOMAIN e.layers : \/ s[j] = e.layers[j]
                                      \/ s[j] = [e.layers[j] EXCEPT !.index = index]
    <2> HIDE DEF index, i
    <2> QED
      OBVIOUS
  <1> HIDE DEF s, index
  <1>3. \A j \in DOMAIN e.layers : HasSpot(s[j]) /\ SameSpot(s[j], e.layers[j])
    BY <1>2 DEF HasSpot, SameSpot
  <1> QED
    BY <1>1, <1>2, <1>3 DEF HasParts

LEMMA ReindexedStays ==
    ASSUME NEW d, NEW e, NEW moved, LayersStayBut(e, d, moved), NEW frames, NEW id
    PROVE  /\ LayersStayBut(Reindexed(e, frames, id), d, moved)
           /\ Reindexed(e, frames, id).boards = e.boards
  <1>1. HasParts(e) /\ \A j \in DOMAIN e.layers : HasSpot(e.layers[j])
    BY DEF LayersStayBut
  <1> DEFINE new == Reindexed(e, frames, id)
  <1>2. /\ HasParts(new) /\ new.boards = e.boards /\ DOMAIN new.layers = DOMAIN e.layers
        /\ \A j \in DOMAIN e.layers :
                HasSpot(new.layers[j]) /\ SameSpot(new.layers[j], e.layers[j])
    BY <1>1, ReindexedSpots
  <1> HIDE DEF new
  <1> QED
    BY <1>2 DEF SameSpot, StaysOr, LayersStayBut, new

(* The settings of a layer that are no place.                                *)
LEMMA SettingsMoveNothing ==
    ASSUME NEW d \in CanvasDocument, NEW id, Has(d.layers, id), NEW e, HasParts(e),
           e.layers = d.layers, e.boards = d.boards, NEW layer, HasSpot(layer),
           SameSpot(layer, Layer(d, id))
    PROVE  NothingMoves(WithLayer(e, id, layer), d)
  <1>1. StaysOr(layer, d.layers, {})
    BY LayerFound DEF StaysOr, SameSpot
  <1> QED
    BY <1>1, WithLayerStays DEF NothingMoves

LEMMA ChangedFields ==
    ASSUME NEW layer, HasSpot(layer), NEW v
    PROVE  /\ HasSpot([layer EXCEPT !.name = v]) /\ SameSpot([layer EXCEPT !.name = v], layer)
           /\ HasSpot([layer EXCEPT !.visible = v]) /\ SameSpot([layer EXCEPT !.visible = v], layer)
           /\ HasSpot([layer EXCEPT !.opacity = v]) /\ SameSpot([layer EXCEPT !.opacity = v], layer)
           /\ HasSpot([layer EXCEPT !.blend = v]) /\ SameSpot([layer EXCEPT !.blend = v], layer)
           /\ HasSpot([layer EXCEPT !.appearance = v])
           /\ SameSpot([layer EXCEPT !.appearance = v], layer)
           /\ HasSpot([layer EXCEPT !.range = v]) /\ SameSpot([layer EXCEPT !.range = v], layer)
           /\ HasSpot([layer EXCEPT !.motion = v]) /\ SameSpot([layer EXCEPT !.motion = v], layer)
           /\ HasSpot([layer EXCEPT !.playback = v]) /\ SameSpot([layer EXCEPT !.playback = v], layer)
           /\ HasSpot([layer EXCEPT !.setup = v]) /\ SameSpot([layer EXCEPT !.setup = v], layer)
           /\ HasSpot([layer EXCEPT !.control = v]) /\ SameSpot([layer EXCEPT !.control = v], layer)
  BY DEF HasSpot, SameSpot

(* The document, and the same in the newest format.                          *)
LEMMA SameLayers ==
    ASSUME NEW d \in CanvasDocument
    PROVE  /\ HasParts(d)
           /\ HasParts(Raised(d)) /\ Raised(d).layers = d.layers /\ Raised(d).boards = d.boards
           /\ \A layer : /\ HasParts(RaisedFor(d, layer)) /\ RaisedFor(d, layer).layers = d.layers
                         /\ RaisedFor(d, layer).boards = d.boards
  <1>1. HasParts(d)
    BY DEF HasParts, CanvasDocument
  <1> QED
    BY <1>1 DEF HasParts, Raised, RaisedFor

(* Settings of a layer that are set where it is.                             *)
LEMMA PropertyCallsMoveNothing ==
    ASSUME NEW d \in CanvasDocument, NEW id, NEW v
    PROVE  /\ MovesNothing(d, SetLayerName(d, id, v))
           /\ MovesNothing(d, SetLayerVisible(d, id, v))
           /\ MovesNothing(d, SetLayerOpacity(d, id, v))
           /\ MovesNothing(d, SetLayerBlendMode(d, id, v))
           /\ MovesNothing(d, SetLayerAppearance(d, id, v))
           /\ MovesNothing(d, SetLayerFrameRange(d, id, v))
  <1>1. Has(d.layers, id) => HasSpot(Layer(d, id))
    BY LayerFound, LayersHaveSpots
  <1>2. /\ MovesNothing(d, SetLayerName(d, id, v))
        /\ MovesNothing(d, SetLayerVisible(d, id, v))
    BY <1>1, ChangedFields, SameLayers, SettingsMoveNothing, UncheckedMovesNothing
       DEF SetLayerName, SetLayerVisible
  <1>3. MovesNothing(d, SetLayerOpacity(d, id, v))
    BY <1>1, ChangedFields, SameLayers, SettingsMoveNothing, EditMovesNothing
       DEF SetLayerOpacity
  <1>4. MovesNothing(d, SetLayerBlendMode(d, id, v))
    BY <1>1, ChangedFields, SameLayers, SettingsMoveNothing, EditMovesNothing
       DEF SetLayerBlendMode
  <1>5. MovesNothing(d, SetLayerAppearance(d, id, v))
    BY <1>1, ChangedFields, SameLayers, SettingsMoveNothing, EditMovesNothing
       DEF SetLayerAppearance
  <1>6. MovesNothing(d, SetLayerFrameRange(d, id, v))
    BY <1>1, ChangedFields, SameLayers, SettingsMoveNothing, EditMovesNothing
       DEF SetLayerFrameRange
  <1> QED
    BY <1>2, <1>3, <1>4, <1>5, <1>6

(* The transform of a layer moves it, and nothing else.                      *)
LEMMA SetLayerTransformPlaces ==
    ASSUME NEW d \in CanvasDocument, NEW id, NEW x
    PROVE  KeepsPlaces(d, SetLayerTransform(d, id, x), {id}, 0, 0)
  <1> DEFINE layer == [Layer(d, id) EXCEPT !.x = x]
  <1>1. ASSUME Valid(d), Has(d.layers, id)
        PROVE  /\ HasParts(WithLayer(d, id, layer))
               /\ SamePlaces(d, WithLayer(d, id, layer), {id}, 0, 0)
    <2>1. HasSpot(layer) /\ layer.id = id
      BY <1>1, LayerFound, LayersHaveSpots DEF HasSpot
    <2>2. StaysOr(layer, d.layers, {id})
      BY <1>1, <2>1, LayerFound DEF StaysOr
    <2> HIDE DEF layer
    <2>3. LayersStayBut(WithLayer(d, id, layer), d, {id}) /\ WithLayer(d, id, layer).boards = d.boards
      BY <2>1, <2>2, SameLayers, WithLayerStays
    <2> QED
      BY <1>1, <2>3, NothingMovesPlaces DEF LayersStayBut
  <1> QED
    BY <1>1, EditPlaces DEF SetLayerTransform

(* A layer that takes the place of another one under an id of its own.       *)
LEMMA ReplaceLayerStays ==
    ASSUME NEW d \in CanvasDocument, NEW id, NEW layer, NEW moved,
           HasSpot(layer), StaysOr(layer, d.layers, moved)
    PROVE  LET frames == IF layer.id = id THEN d.frames
                         ELSE RenameLayerKeyframes(d.frames, id, layer.id)
               held == WithLayer(RaisedFor(d, layer), id, layer)
               new == IF layer.keyed THEN Reindexed(held, frames, layer.id)
                      ELSE [held EXCEPT !.frames = RemoveLayerKeyframes(frames, layer.id)]
           IN  LayersStayBut(new, d, moved) /\ new.boards = d.boards
  <1> DEFINE frames == IF layer.id = id THEN d.frames
                       ELSE RenameLayerKeyframes(d.frames, id, layer.id)
             held == WithLayer(RaisedFor(d, layer), id, layer)
  <1>1. LayersStayBut(held, d, moved) /\ held.boards = d.boards
    BY SameLayers, WithLayerStays
  <1> HIDE DEF held, frames
  <1>2. LET new == Reindexed(held, frames, layer.id)
        IN  LayersStayBut(new, d, moved) /\ new.boards = d.boards
    BY <1>1, ReindexedStays
  <1>3. LET new == [held EXCEPT !.frames = RemoveLayerKeyframes(frames, layer.id)]
        IN  LayersStayBut(new, d, moved) /\ new.boards = d.boards
    BY <1>1 DEF LayersStayBut, HasParts
  <1> QED
    BY <1>2, <1>3 DEF held, frames

(* A layer that is replaced may go anywhere, under any id that is free.      *)
LEMMA ReplaceLayerPlaces ==
    ASSUME NEW d \in CanvasDocument, NEW id, NEW layer, HasSpot(layer)
    PROVE  KeepsPlaces(d, ReplaceLayer(d, id, layer), {id}, id, layer.id)
  <1> DEFINE frames == IF layer.id = id THEN d.frames
                       ELSE RenameLayerKeyframes(d.frames, id, layer.id)
             held == WithLayer(RaisedFor(d, layer), id, layer)
             new == IF layer.keyed THEN Reindexed(held, frames, layer.id)
                    ELSE [held EXCEPT !.frames = RemoveLayerKeyframes(frames, layer.id)]
             refused == \/ ~Has(d.layers, id) \/ layer.id = 0
                        \/ layer.id # id /\ Has(d.layers, layer.id)
  <1>1. ASSUME Valid(d), ~refused PROVE HasParts(new) /\ SamePlaces(d, new, {id}, id, layer.id)
    <2>1. StaysOr(layer, d.layers, {id})
      BY <1>1, LayerFound DEF StaysOr
    <2>2. LayersStayBut(new, d, {id}) /\ new.boards = d.boards
      BY <2>1, ReplaceLayerStays
    <2> HIDE DEF new
    <2>3. HasParts(new) /\ SamePlaces(d, new, {id}, 0, 0)
      BY <1>1, <2>2, NothingMovesPlaces DEF LayersStayBut
    <2> QED
      BY <2>3 DEF SamePlaces, Renamed
  <1>2. ReplaceLayer(d, id, layer) = Edit(d, refused, FALSE, new, {"layers", "frames", "minor"})
    BY DEF ReplaceLayer
  <1> HIDE DEF new, refused
  <1> QED
    BY <1>1, <1>2, EditPlaces

(* A layer replaced by itself with other settings.                           *)
LEMMA ReplacedByItself ==
    ASSUME NEW d \in CanvasDocument, NEW id, Has(d.layers, id), NEW layer, HasSpot(layer),
           SameSpot(layer, Layer(d, id))
    PROVE  MovesNothing(d, ReplaceLayer(d, id, layer))
  <1>1. StaysOr(layer, d.layers, {})
    BY LayerFound DEF StaysOr, SameSpot
  <1> DEFINE frames == IF layer.id = id THEN d.frames
                       ELSE RenameLayerKeyframes(d.frames, id, layer.id)
             held == WithLayer(RaisedFor(d, layer), id, layer)
             new == IF layer.keyed THEN Reindexed(held, frames, layer.id)
                    ELSE [held EXCEPT !.frames = RemoveLayerKeyframes(frames, layer.id)]
             refused == \/ ~Has(d.layers, id) \/ layer.id = 0
                        \/ layer.id # id /\ Has(d.layers, layer.id)
  <1>2. NothingMoves(new, d)
    BY <1>1, ReplaceLayerStays DEF NothingMoves
  <1>3. ReplaceLayer(d, id, layer) = Edit(d, refused, FALSE, new, {"layers", "frames", "minor"})
    BY DEF ReplaceLayer
  <1> HIDE DEF new, refused
  <1> QED
    BY <1>2, <1>3, EditMovesNothing

(* Settings that are set by replacing the layer.                             *)
LEMMA ReplacingCallsMoveNothing ==
    ASSUME NEW d \in CanvasDocument, NEW id, NEW v
    PROVE  /\ MovesNothing(d, SetLayerMotion(d, id, v))
           /\ MovesNothing(d, SetVideoPlayback(d, id, v))
           /\ \A kind : MovesNothing(d, SetSetup(d, kind, id, v))
           /\ MovesNothing(d, SetControlNetSettings(d, id, v))
           /\ MovesNothing(d, PatchControlNetSettings(d, id, v))
  <1>1. ASSUME Has(d.layers, id)
        PROVE  /\ MovesNothing(d, ReplaceLayer(d, id, [Layer(d, id) EXCEPT !.motion = v]))
               /\ MovesNothing(d, ReplaceLayer(d, id, [Layer(d, id) EXCEPT !.playback = v]))
               /\ MovesNothing(d, ReplaceLayer(d, id, [Layer(d, id) EXCEPT !.setup = v]))
               /\ \A w : MovesNothing(d, ReplaceLayer(d, id, [Layer(d, id) EXCEPT !.control = w]))
    <2>1. HasSpot(Layer(d, id))
      BY <1>1, LayerFound, LayersHaveSpots
    <2> QED
      BY <1>1, <2>1, ChangedFields, ReplacedByItself
  <1>2. MovesNothing(d, Outcome(d, "unchanged"))
    BY EndsUnchanged
  <1>3. /\ MovesNothing(d, SetLayerMotion(d, id, v))
        /\ MovesNothing(d, SetVideoPlayback(d, id, v))
    BY <1>1, <1>2, CheckedMovesNothing DEF SetLayerMotion, SetVideoPlayback
  <1>4. \A kind : MovesNothing(d, SetSetup(d, kind, id, v))
    BY <1>1, <1>2, CheckedMovesNothing DEF SetSetup, IsKind
  <1>5. \A w : MovesNothing(d, SetControlNetSettings(d, id, w))
    BY <1>1, <1>2, CheckedMovesNothing DEF SetControlNetSettings, IsControl
  <1>6. MovesNothing(d, PatchControlNetSettings(d, id, v))
    BY <1>5, CheckedMovesNothing DEF PatchControlNetSettings
  <1> QED
    BY <1>3, <1>4, <1>5, <1>6

(* Keyframes are no places, and neither is what finds them.                  *)
LEMMA RebuiltMovesNothing ==
    ASSUME NEW d \in CanvasDocument, NEW e, NothingMoves(e, d), NEW frames, NEW id
    PROVE  /\ NothingMoves(Reindexed(e, frames, id), d)
           /\ NothingMoves([e EXCEPT !.frames = frames], d)
  <1>1. NothingMoves(Reindexed(e, frames, id), d)
    BY ReindexedStays DEF NothingMoves
  <1>2. NothingMoves([e EXCEPT !.frames = frames], d)
    BY DEF NothingMoves, LayersStayBut, HasParts
  <1> QED
    BY <1>1, <1>2

LEMMA SourceCallsMoveNothing ==
    ASSUME NEW d \in CanvasDocument, NEW id
    PROVE  /\ \A a : MovesNothing(d, SetStaticSource(d, id, a))
           /\ \A placements : MovesNothing(d, SetKeyframedSource(d, id, placements))
  <1>1. ASSUME NEW layer, Has(d.layers, id), HasSpot(layer), SameSpot(layer, Layer(d, id))
        PROVE  NothingMoves(WithLayer(d, id, layer), d)
    BY <1>1, SameLayers, SettingsMoveNothing
  <1>2. ASSUME NEW v, Has(d.layers, id)
        PROVE  /\ NothingMoves(WithLayer(d, id, [Layer(d, id) EXCEPT !.keyed = FALSE, !.asset = v,
                                                                     !.index = <<>>]), d)
               /\ NothingMoves(WithLayer(d, id, [Layer(d, id) EXCEPT !.keyed = TRUE, !.asset = 0]), d)
    <2>1. HasSpot(Layer(d, id))
      BY <1>2, LayerFound, LayersHaveSpots
    <2> DEFINE layer == Layer(d, id)
               static == [layer EXCEPT !.keyed = FALSE, !.asset = v, !.index = <<>>]
               keyed == [layer EXCEPT !.keyed = TRUE, !.asset = 0]
    <2>2. HasSpot(static) /\ SameSpot(static, layer) /\ HasSpot(keyed) /\ SameSpot(keyed, layer)
      BY <2>1 DEF HasSpot, SameSpot
    <2> HIDE DEF static, keyed
    <2>3. NothingMoves(WithLayer(d, id, static), d) /\ NothingMoves(WithLayer(d, id, keyed), d)
      BY <1>1, <1>2, <2>2
    <2> QED
      BY <2>3 DEF static, keyed
  <1>3. \A a : MovesNothing(d, SetStaticSource(d, id, a))
    <2> SUFFICES ASSUME NEW a PROVE MovesNothing(d, SetStaticSource(d, id, a))
      OBVIOUS
    <2> DEFINE held == WithLayer(d, id, [Layer(d, id) EXCEPT !.keyed = FALSE, !.asset = a,
                                                             !.index = <<>>])
               new == [held EXCEPT !.frames = RemoveLayerKeyframes(@, id)]
    <2>1. Has(d.layers, id) => NothingMoves(held, d)
      BY <1>2
    <2>2. SetStaticSource(d, id, a) =
            Edit(d, ~Has(d.layers, id), ~Layer(d, id).keyed /\ Layer(d, id).asset = a, new,
                 {"layers", "frames"})
      BY DEF SetStaticSource
    <2> HIDE DEF held
    <2>3. Has(d.layers, id) => NothingMoves(new, d)
      BY <2>1, RebuiltMovesNothing
    <2> QED
      BY <2>2, <2>3, EditMovesNothing
  <1>4. \A placements : MovesNothing(d, SetKeyframedSource(d, id, placements))
    <2> SUFFICES ASSUME NEW placements PROVE MovesNothing(d, SetKeyframedSource(d, id, placements))
      OBVIOUS
    <2> DEFINE held == WithLayer(d, id, [Layer(d, id) EXCEPT !.keyed = TRUE, !.asset = 0])
               sorted == SortedPlacements(placements)
               frames == InsertPlacements(RemoveLayerKeyframes(d.frames, id), id, sorted)
               new == Reindexed(held, frames, id)
               same == Layer(d, id).keyed /\ KeyframePlacements(d, id) = sorted
    <2>1. Has(d.layers, id) => NothingMoves(held, d)
      BY <1>2
    <2>2. SetKeyframedSource(d, id, placements) =
            Edit(d, ~Has(d.layers, id), same, new, {"layers", "frames"})
      BY DEF SetKeyframedSource
    <2> HIDE DEF held, frames, same
    <2>3. Has(d.layers, id) => NothingMoves(new, d)
      BY <2>1, RebuiltMovesNothing
    <2> QED
      BY <2>2, <2>3, EditMovesNothing
  <1> QED
    BY <1>3, <1>4

LEMMA KeyframeCallsMoveNothing ==
    ASSUME NEW d \in CanvasDocument, NEW id, NEW f
    PROVE  /\ \A a : /\ MovesNothing(d, InsertKeyframe(d, id, f, a))
                     /\ MovesNothing(d, SetKeyframeAsset(d, id, f, a))
                     /\ MovesNothing(d, SetDynamicFrameContent(d, id, f, a))
           /\ \A to : MovesNothing(d, MoveKeyframe(d, id, f, to))
           /\ MovesNothing(d, RemoveKeyframe(d, id, f))
  <1>1. \A frames : NothingMoves(Reindexed(d, frames, id), d)
    BY ElsewhereMovesNothing, RebuiltMovesNothing
  <1>2. \A drawings, frames : NothingMoves(Reindexed([d EXCEPT !.assets = drawings], frames, id), d)
    BY ElsewhereMovesNothing, RebuiltMovesNothing
  <1>3. \A a : MovesNothing(d, InsertKeyframe(d, id, f, a))
    BY <1>1, EditMovesNothing DEF InsertKeyframe
  <1>4. \A a : MovesNothing(d, SetKeyframeAsset(d, id, f, a))
    BY ElsewhereMovesNothing, EditMovesNothing DEF SetKeyframeAsset
  <1>5. \A a : MovesNothing(d, SetDynamicFrameContent(d, id, f, a))
    BY <1>2, EditMovesNothing DEF SetDynamicFrameContent
  <1>6. (\A to : MovesNothing(d, MoveKeyframe(d, id, f, to))) /\ MovesNothing(d, RemoveKeyframe(d, id, f))
    BY <1>1, EditMovesNothing DEF MoveKeyframe, RemoveKeyframe
  <1> QED
    BY <1>3, <1>4, <1>5, <1>6

LEMMA RenameAssetMovesNothing ==
    ASSUME NEW d \in CanvasDocument, NEW id, NEW to
    PROVE  MovesNothing(d, RenameAsset(d, id, to))
  <1> DEFINE e == WithAssetId(d, id, to)
             s == [i \in DOMAIN d.layers |-> RenamedIn(d.layers[i], id, to)]
             frames == [i \in DOMAIN d.frames |-> RenamedFrame(d.frames[i], id, to)]
             new == RenamedAsset(d, id, to)
  <1>1. HasParts(e) /\ e.layers = d.layers /\ e.boards = d.boards /\ e.frames = d.frames
    BY DEF WithAssetId, HasParts, CanvasDocument
  <1>2. new = [e EXCEPT !.layers = s, !.frames = frames]
    BY <1>1 DEF RenamedAsset, WithReferences
  <1>3. ASSUME NEW i \in DOMAIN d.layers PROVE HasSpot(s[i]) /\ SameSpot(s[i], d.layers[i])
    <2>1. HasSpot(d.layers[i]) /\ s[i] = RenamedIn(d.layers[i], id, to)
      BY OwnLayersHaveSpots
    <2> HIDE DEF s
    <2> QED
      BY <2>1 DEF HasSpot, SameSpot, RenamedIn
  <1>4. DOMAIN s = DOMAIN d.layers
    OBVIOUS
  <1> HIDE DEF e, s, frames, new
  <1>5. NothingMoves(new, d)
    BY <1>1, <1>2, <1>3, <1>4 DEF NothingMoves, LayersStayBut, HasParts, StaysOr
  <1> QED
    BY <1>5, EditOrMovesNothing DEF RenameAsset, new

LEMMA ParametersMoveNothing ==
    ASSUME NEW d \in CanvasDocument, NEW id, NEW layer, HasSpot(layer),
           \E i \in DOMAIN d.layers : SameSpot(layer, d.layers[i]), NEW given
    PROVE  MovesNothing(d, SetControlNetParameters(d, id, layer, given))
  <1>1. StaysOr(layer, d.layers, {})
    BY DEF StaysOr
  <1>2. /\ HasParts(WithAssets(d, given)) /\ WithAssets(d, given).layers = d.layers
        /\ WithAssets(d, given).boards = d.boards
    BY DEF HasParts, WithAssets, CanvasDocument
  <1>3. NothingMoves(WithLayer(WithAssets(d, given), id, layer), d)
    BY <1>1, <1>2, WithLayerStays DEF NothingMoves
  <1> QED
    BY <1>3, EditMovesNothing DEF SetControlNetParameters

-----------------------------------------------------------------------------
(* Layers put in, moved, removed and renamed                                 *)

LEMMA InsertedElements ==
    ASSUME NEW S, NEW s \in Seq(S), NEW at \in Nat \union {AppendIndex}, ~IsOutside(at, s),
           NEW e \in S
    PROVE  /\ \A k \in DOMAIN Inserted(s, at, e) :
                \/ Inserted(s, at, e)[k] = e
                \/ \E i \in DOMAIN s : Inserted(s, at, e)[k] = s[i]
           /\ \A i \in DOMAIN s : \E k \in DOMAIN Inserted(s, at, e) : Inserted(s, at, e)[k] = s[i]
           /\ \E k \in DOMAIN Inserted(s, at, e) : Inserted(s, at, e)[k] = e
  <1> DEFINE n == InsertionIndex(at, s) + 1
             t == InsertAt(s, n, e)
  <1>1. Len(s) \in Nat /\ DOMAIN s = 1 .. Len(s)
    BY LenProperties
  <1>2. n \in 1 .. Len(s) + 1
    BY <1>1 DEF IsOutside, InsertionIndex, AppendIndex
  <1> HIDE DEF n
  <1>3. t \in Seq(S) /\ IsInsertion(t, s, n, e)
    BY <1>2, InsertAtProperties
  <1> HIDE DEF t
  <1>4. DOMAIN t = 1 .. Len(s) + 1
    BY <1>3, LenProperties DEF IsInsertion
  <1>5. \A k \in 1 .. Len(s) + 1 : t[k] = IF k < n THEN s[k] ELSE IF k = n THEN e ELSE s[k - 1]
    BY <1>3 DEF IsInsertion
  <1>6. ASSUME NEW k \in DOMAIN t PROVE t[k] = e \/ \E i \in DOMAIN s : t[k] = s[i]
    <2>1. CASE k < n
      <3>1. k \in DOMAIN s /\ t[k] = s[k]
        BY <1>1, <1>2, <1>4, <1>5, <2>1
      <3> QED
        BY <3>1
    <2>2. CASE n < k
      <3>1. k - 1 \in DOMAIN s /\ t[k] = s[k - 1]
        BY <1>1, <1>2, <1>4, <1>5, <2>2
      <3> QED
        BY <3>1
    <2>3. CASE k = n
      BY <1>4, <1>5, <2>3
    <2> QED
      BY <1>2, <1>4, <2>1, <2>2, <2>3
  <1>7. ASSUME NEW i \in DOMAIN s PROVE \E k \in DOMAIN t : t[k] = s[i]
    <2>1. CASE i < n
      <3>1. i \in DOMAIN t /\ t[i] = s[i]
        BY <1>1, <1>4, <1>5, <2>1
      <3> QED
        BY <3>1
    <2>2. CASE ~(i < n)
      <3>1. /\ i + 1 \in DOMAIN t /\ i + 1 \in 1 .. Len(s) + 1
            /\ ~(i + 1 < n) /\ i + 1 # n /\ (i + 1) - 1 = i
        BY <1>1, <1>2, <1>4, <2>2
      <3>2. t[i + 1] = s[i]
        BY <1>5, <3>1
      <3> QED
        BY <3>1, <3>2
    <2> QED
      BY <2>1, <2>2
  <1>8. n \in DOMAIN t /\ t[n] = e
    BY <1>2, <1>4, <1>5
  <1>9. Inserted(s, at, e) = t
    BY DEF Inserted, t, n
  <1> QED
    BY <1>6, <1>7, <1>8, <1>9

(* An element of what results is the new one or was there.                   *)
LEMMA InsertedOrOld ==
    ASSUME NEW S, NEW s \in Seq(S), NEW at \in Nat \union {AppendIndex}, ~IsOutside(at, s),
           NEW e \in S, NEW t, t = Inserted(s, at, e), NEW k \in DOMAIN t
    PROVE  t[k] = e \/ \E i \in DOMAIN s : t[k] = s[i]
  BY InsertedElements

(* A layer with an id of its own, among those that were there.               *)
LEMMA NewLayerStays ==
    ASSUME NEW d \in CanvasDocument, NEW layer, HasSpot(layer), ~Has(d.layers, layer.id),
           NEW at \in Nat \union {AppendIndex}, ~IsOutside(at, d.layers),
           NEW e, HasParts(e), e.layers = Inserted(d.layers, at, layer), e.boards = d.boards
    PROVE  NothingMoves(e, d)
  <1>1. d.layers \in Seq(CanvasLayer \union {layer})
    <2>1. d.layers \in Seq(CanvasLayer) /\ CanvasLayer \subseteq CanvasLayer \union {layer}
      BY FieldTypes
    <2> QED
      BY <2>1, SeqDef
  <1>2. ASSUME NEW k \in DOMAIN e.layers
        PROVE  e.layers[k] = layer \/ \E i \in DOMAIN d.layers : e.layers[k] = d.layers[i]
    BY <1>1, InsertedOrOld
  <1> QED
    BY <1>2, OwnLayersHaveSpots DEF NothingMoves, LayersStayBut, StaysOr, SameSpot

LEMMA InsertLayerMovesNothing ==
    ASSUME NEW d \in CanvasDocument, NEW layer, HasSpot(layer), NEW at \in Nat \union {AppendIndex}
    PROVE  MovesNothing(d, InsertLayer(d, layer, at))
  <1> DEFINE raised == RaisedFor(d, layer)
             new == [raised EXCEPT !.layers = Inserted(@, at, layer)]
  <1>1. HasParts(raised) /\ raised.layers = d.layers /\ raised.boards = d.boards
    BY SameLayers
  <1>2. InsertLayer(d, layer, at) =
            Edit(d, CannotInsert(d, layer, at), FALSE, new, {"layers", "minor"})
    BY DEF InsertLayer
  <1> HIDE DEF raised
  <1>3. HasParts(new) /\ new.layers = Inserted(d.layers, at, layer) /\ new.boards = d.boards
    BY <1>1 DEF HasParts
  <1> HIDE DEF new
  <1>4. ~CannotInsert(d, layer, at) => NothingMoves(new, d)
    BY <1>3, NewLayerStays DEF CannotInsert
  <1> QED
    BY <1>2, <1>4, EditMovesNothing

LEMMA InsertKeyframedMovesNothing ==
    ASSUME NEW d \in CanvasDocument, NEW layer, HasSpot(layer), NEW placements,
           NEW at \in Nat \union {AppendIndex}
    PROVE  MovesNothing(d, InsertKeyframedLayer(d, layer, placements, at))
  <1> DEFINE raised == RaisedFor(d, layer)
             plain == [layer EXCEPT !.index = <<>>]
             held == [raised EXCEPT !.layers = Inserted(@, at, plain)]
             frames == InsertPlacements(d.frames, layer.id, SortedPlacements(placements))
             new == Reindexed(held, frames, layer.id)
             refused == ~layer.keyed \/ CannotInsert(d, layer, at)
  <1>1. HasParts(raised) /\ raised.layers = d.layers /\ raised.boards = d.boards
    BY SameLayers
  <1>2. HasSpot(plain) /\ plain.id = layer.id
    BY DEF HasSpot
  <1>3. InsertKeyframedLayer(d, layer, placements, at) =
            Edit(d, refused, FALSE, new, {"layers", "frames", "minor"})
    BY DEF InsertKeyframedLayer
  <1> HIDE DEF raised, plain, frames
  <1>4. HasParts(held) /\ held.layers = Inserted(d.layers, at, plain) /\ held.boards = d.boards
    BY <1>1 DEF HasParts
  <1> HIDE DEF held
  <1>5. ~refused => NothingMoves(held, d)
    BY <1>2, <1>4, NewLayerStays DEF CannotInsert
  <1>6. ~refused => NothingMoves(new, d)
    BY <1>5, RebuiltMovesNothing
  <1> HIDE DEF new, refused
  <1> QED
    BY <1>3, <1>6, EditMovesNothing

LEMMA InsertEitherMovesNothing ==
    ASSUME NEW d \in CanvasDocument, NEW layer \in CanvasLayer, NEW placements,
           NEW at \in Nat \union {AppendIndex}
    PROVE  /\ MovesNothing(d, InsertStaticLayer(d, layer, at))
           /\ MovesNothing(d, InsertDynamicLayer(d, layer, placements, at))
           /\ \A kind : MovesNothing(d, InsertControlLayer(d, kind, layer, placements, at))
  <1> DEFINE static == [layer EXCEPT !.keyed = FALSE, !.index = <<>>]
             dynamic == [layer EXCEPT !.keyed = TRUE, !.asset = 0]
  <1>1. HasSpot(layer)
    BY LayersHaveSpots
  <1>2. /\ HasSpot(static) /\ HasSpot(dynamic)
        /\ \A kind : HasSpot(OfType(kind, layer))
    BY <1>1 DEF HasSpot, OfType
  <1>3. MovesNothing(d, Outcome(d, "rejected"))
    BY EndsUnchanged
  <1> HIDE DEF static, dynamic
  <1>4. MovesNothing(d, InsertStaticLayer(d, layer, at))
    BY <1>2, <1>3, InsertLayerMovesNothing DEF InsertStaticLayer, static
  <1>5. MovesNothing(d, InsertDynamicLayer(d, layer, placements, at))
    BY <1>2, <1>3, InsertKeyframedMovesNothing DEF InsertDynamicLayer, dynamic
  <1>6. \A kind : MovesNothing(d, InsertControlLayer(d, kind, layer, placements, at))
    BY <1>2, <1>3, InsertLayerMovesNothing, InsertKeyframedMovesNothing DEF InsertControlLayer
  <1> QED
    BY <1>4, <1>5, <1>6

(* Layers that were all there.                                               *)
LEMMA OldLayersStay ==
    ASSUME NEW d \in CanvasDocument, NEW e, HasParts(e), e.boards = d.boards,
           \A k \in DOMAIN e.layers : \E i \in DOMAIN d.layers : e.layers[k] = d.layers[i]
    PROVE  NothingMoves(e, d)
  BY OwnLayersHaveSpots DEF NothingMoves, LayersStayBut, StaysOr, SameSpot

LEMMA MoveLayerMovesNothing ==
    ASSUME NEW d \in CanvasDocument, NEW id, NEW to \in Nat
    PROVE  MovesNothing(d, MoveLayer(d, id, to))
  <1> DEFINE from == Item(d.layers, id)
             s == MoveElement(d.layers, from, to)
             new == [d EXCEPT !.layers = MoveElement(@, from, to)]
             refused == ~Has(d.layers, id) \/ to >= Len(d.layers)
  <1>1. ASSUME ~refused PROVE NothingMoves(new, d)
    <2>1. d.layers \in Seq(CanvasLayer) /\ Len(d.layers) \in Nat
      BY FieldTypes, LenProperties
    <2>2. from \in DOMAIN d.layers /\ to < Len(d.layers)
      BY <1>1, <2>1, FoundType
    <2> HIDE DEF from
    <2>3. \A k \in DOMAIN s : \E i \in DOMAIN d.layers : s[k] = d.layers[i]
      BY <2>1, <2>2, MovedElements
    <2>4. HasParts(new) /\ new.layers = s /\ new.boards = d.boards
      BY DEF HasParts, CanvasDocument
    <2> HIDE DEF s, new
    <2> QED
      BY <2>3, <2>4, OldLayersStay
  <1>2. MoveLayer(d, id, to) = Unchecked(d, refused, from = to + 1, new)
    BY DEF MoveLayer
  <1> HIDE DEF new, refused, from
  <1> QED
    BY <1>1, <1>2, UncheckedMovesNothing

LEMMA RemoveLayerMovesNothing ==
    ASSUME NEW d \in CanvasDocument, NEW id PROVE MovesNothing(d, RemoveLayer(d, id))
  <1> DEFINE s == RemoveAt(d.layers, Item(d.layers, id))
             new == [d EXCEPT !.frames = RemoveLayerKeyframes(@, id),
                              !.layers = RemoveAt(@, Item(@, id))]
  <1>1. ASSUME Has(d.layers, id) PROVE NothingMoves(new, d)
    <2>1. d.layers \in Seq(CanvasLayer) /\ Item(d.layers, id) \in DOMAIN d.layers
      BY <1>1, FieldTypes, FoundType
    <2>2. \A k \in DOMAIN s : \E i \in DOMAIN d.layers : s[k] = d.layers[i]
      BY <2>1, RemovedElements
    <2>3. HasParts(new) /\ new.layers = s /\ new.boards = d.boards
      BY DEF HasParts, CanvasDocument
    <2> HIDE DEF s, new
    <2> QED
      BY <2>2, <2>3, OldLayersStay
  <1>2. RemoveLayer(d, id) = Unchecked(d, ~Has(d.layers, id), FALSE, new)
    BY DEF RemoveLayer
  <1> HIDE DEF new
  <1> QED
    BY <1>1, <1>2, UncheckedMovesNothing

(* Under its new id a layer lies where it did under the old one.             *)
LEMMA RenameLayerPlaces ==
    ASSUME NEW d \in CanvasDocument, NEW id, NEW to
    PROVE  KeepsPlaces(d, RenameLayer(d, id, to), {}, id, to)
  <1> DEFINE n == Item(d.layers, id)
             renamed == [Layer(d, id) EXCEPT !.id = to]
             s == [d.layers EXCEPT ![n] = renamed]
             held == WithLayer(d, id, renamed)
             frames == RenameLayerKeyframes(d.frames, id, to)
             new == Reindexed(held, frames, to)
             refused == ~Has(d.layers, id) \/ (id # to /\ (to = 0 \/ Has(d.layers, to)))
  <1>1. ASSUME Valid(d), ~refused, id # to PROVE HasParts(new) /\ SamePlaces(d, new, {}, id, to)
    <2>1. /\ n \in DOMAIN d.layers /\ d.layers[n] = Layer(d, id) /\ Layer(d, id).id = id
          /\ HasSpot(Layer(d, id)) /\ ~Has(d.layers, to) /\ HasParts(d) /\ Distinct(d.layers)
      BY <1>1, LayerFound, LayersHaveSpots, PlacesAreKnown
    <2>2. HasParts(held) /\ held.layers = s /\ held.boards = d.boards
      BY <2>1 DEF WithLayer, HasParts
    <2>3. /\ HasSpot(renamed) /\ renamed.id = to
          /\ renamed.board = Layer(d, id).board /\ renamed.x = Layer(d, id).x
      BY <2>1 DEF HasSpot
    <2> HIDE DEF n, renamed
    <2>4. /\ DOMAIN s = DOMAIN d.layers /\ s[n] = renamed
          /\ \A j \in DOMAIN d.layers : j # n => s[j] = d.layers[j]
      BY <2>1
    <2> HIDE DEF s, held
    <2>5. \A j \in DOMAIN held.layers : HasSpot(held.layers[j])
      BY <2>2, <2>3, <2>4, OwnLayersHaveSpots
    <2>6. /\ HasParts(new) /\ new.boards = d.boards /\ DOMAIN new.layers = DOMAIN d.layers
          /\ \A j \in DOMAIN d.layers : SameSpot(new.layers[j], s[j])
      BY <2>2, <2>4, <2>5, ReindexedSpots
    <2> HIDE DEF new
    <2>7. ASSUME NEW i \in DOMAIN d.layers, NEW j \in DOMAIN new.layers,
                 new.layers[j].id = Renamed(d.layers[i].id, id, to)
          PROVE  /\ new.layers[j].board = d.layers[i].board
                 /\ new.layers[j].x = d.layers[i].x
      <3>1. /\ j \in DOMAIN d.layers /\ SameSpot(new.layers[j], s[j])
            /\ s[j].id = Renamed(d.layers[i].id, id, to)
        BY <2>6, <2>7 DEF SameSpot
      <3>2. CASE i = n
        <4>1. s[j].id = to
          BY <2>1, <3>1, <3>2 DEF Renamed
        <4>2. j = n
          BY <2>1, <2>4, <3>1, <4>1 DEF Has
        <4> QED
          BY <2>1, <2>3, <2>4, <3>1, <3>2, <4>2 DEF SameSpot
      <3>3. CASE i # n
        <4>1. d.layers[i].id # id
          BY <2>1, <3>3 DEF Distinct
        <4>2. s[j].id = d.layers[i].id
          BY <3>1, <4>1 DEF Renamed
        <4>3. j # n
          BY <2>1, <2>3, <2>4, <4>2 DEF Has
        <4>4. j = i
          BY <2>1, <2>4, <3>1, <4>2, <4>3 DEF Distinct
        <4> QED
          BY <2>4, <3>1, <3>3, <4>4 DEF SameSpot
      <3> QED
        BY <3>2, <3>3
    <2> QED
      BY <2>6, <2>7, OwnBoards DEF SamePlaces, Placement
  <1>2. RenameLayer(d, id, to) = Unchecked(d, refused, id = to, new)
    BY DEF RenameLayer
  <1> DEFINE same == id = to
  <1>3. Valid(d) /\ ~refused /\ ~same => HasParts(new) /\ SamePlaces(d, new, {}, id, to)
    BY <1>1
  <1>4. RenameLayer(d, id, to) = Unchecked(d, refused, same, new)
    BY <1>2
  <1> HIDE DEF new, refused, same
  <1>5. KeepsPlaces(d, Unchecked(d, refused, same, new), {}, id, to)
    BY <1>3, UncheckedPlaces
  <1> QED
    BY <1>4, <1>5

-----------------------------------------------------------------------------
(* ControlNet assets                                                         *)

LEMMA SetPartMovesNothing ==
    ASSUME NEW d \in CanvasDocument, NEW kind, NEW id, NEW index, NEW refused, NEW value
    PROVE  MovesNothing(d, SetPart(d, kind, id, index, refused, value))
  <1>1. \A parts : MovesNothing(d, ReplaceControlAsset(d, kind, id, parts))
    BY AssetCallsMoveNothing DEF ReplaceControlAsset
  <1> QED
    BY <1>1, CheckedMovesNothing DEF SetPart

-----------------------------------------------------------------------------
(* Artboards                                                                 *)

LEMMA BoardsEditPlaces ==
    ASSUME NEW d, NEW refused, NEW same, NEW new, NEW moved,
           Valid(d) /\ ~refused /\ ~same => HasParts(new) /\ SamePlaces(d, new, moved, 0, 0)
    PROVE  KeepsPlaces(d, EditArtboards(d, refused, same, new), moved, 0, 0)
  <1>1. ASSUME HasParts(new), SamePlaces(d, new, moved, 0, 0)
        PROVE  HasParts(Raised(new)) /\ SamePlaces(d, Raised(new), moved, 0, 0)
    <2>1. /\ HasParts(Raised(new)) /\ Raised(new).layers = new.layers
          /\ Raised(new).boards = new.boards
      BY <1>1 DEF HasParts, Raised
    <2> HIDE DEF Raised
    <2>2. \A j \in DOMAIN new.layers :
                Placement(Raised(new), new.layers[j]) = Placement(new, new.layers[j])
      BY <2>1, OwnBoards DEF Placement
    <2> QED
      BY <1>1, <2>1, <2>2 DEF SamePlaces
  <1> DEFINE undone == [Restored(new, d, TouchedByArtboards) EXCEPT
                            !.assets = SubSeq(@, 1, Len(d.assets))]
             raised == Raised(new)
  <1>2. EditArtboards(d, refused, same, new) = EditOr(d, refused, same, raised, undone)
    BY DEF EditArtboards
  <1>3. Valid(d) /\ ~refused /\ ~same => HasParts(raised) /\ SamePlaces(d, raised, moved, 0, 0)
    BY <1>1
  <1> HIDE DEF undone, raised
  <1> QED
    BY <1>2, <1>3, EditOrPlaces

(* The layers as they are, on artboards that stay.                           *)
LEMMA BoardsStayPlaces ==
    ASSUME NEW d \in CanvasDocument, Valid(d), NEW e, HasParts(e), e.layers = d.layers, NEW moved,
           \A i \in DOMAIN d.layers :
                \/ d.layers[i].id \in moved \/ d.layers[i].board = 0
                \/ BoardStays(e, d, d.layers[i].board)
    PROVE  SamePlaces(d, e, moved, 0, 0)
  <1>1. \A i \in DOMAIN d.layers :
            \/ d.layers[i].id \in moved
            \/ BoardOrigin(e, d.layers[i].board) = BoardOrigin(d, d.layers[i].board)
    <2> TAKE i \in DOMAIN d.layers
    <2>1. CASE d.layers[i].board = 0
      BY <2>1 DEF BoardOrigin
    <2>2. CASE d.layers[i].board # 0
      BY <2>2, PlacesAreKnown, BoardOriginStays
    <2> QED
      BY <2>1, <2>2
  <1> QED
    BY <1>1, OwnLayersStay, LayersAndBoardsStay

(* An artboard put in the place of one with the same id.                     *)
LEMMA WithBoardPlaces ==
    ASSUME NEW d \in CanvasDocument, NEW id, NEW board, NEW same, NEW moved,
           Has(d.boards, id) =>
                /\ board.id = id
                /\ \/ board.origin = Board(d, id).origin
                   \/ \A i \in DOMAIN d.layers : d.layers[i].board = id => d.layers[i].id \in moved
    PROVE  KeepsPlaces(d, EditArtboards(d, ~Has(d.boards, id), same, WithBoard(d, id, board)),
                       moved, 0, 0)
  <1> DEFINE n == Item(d.boards, id)
             s == [d.boards EXCEPT ![n] = board]
             new == WithBoard(d, id, board)
             refused == ~Has(d.boards, id)
  <1>1. ASSUME Valid(d), ~refused PROVE HasParts(new) /\ SamePlaces(d, new, moved, 0, 0)
    <2>1. HasParts(new) /\ new.layers = d.layers /\ new.boards = s
      BY DEF HasParts, WithBoard, CanvasDocument
    <2>2. n \in DOMAIN d.boards /\ d.boards[n].id = id /\ d.boards[n] = Board(d, id)
      BY <1>1, ItemProperties DEF Board, Found
    <2>3. DOMAIN s = DOMAIN d.boards /\ s[n] = board /\ \A b \in DOMAIN s : b # n => s[b] = d.boards[b]
      BY <2>2
    <2> HIDE DEF s, n, new
    <2>4. ASSUME NEW i \in DOMAIN d.layers, d.layers[i].board # 0, d.layers[i].id \notin moved
          PROVE  BoardStays(new, d, d.layers[i].board)
      <3>1. Has(d.boards, d.layers[i].board)
        BY <1>1, <2>4, PlacesAreKnown
      <3>2. Has(s, d.layers[i].board)
        BY <1>1, <2>2, <2>3, <3>1 DEF Has
      <3>3. d.layers[i].board = id => board.origin = d.boards[n].origin
        BY <1>1, <2>2, <2>4
      <3>4. ASSUME NEW c \in DOMAIN s, s[c].id = d.layers[i].board
            PROVE  \E b \in DOMAIN d.boards :
                        d.boards[b].id = d.layers[i].board /\ d.boards[b].origin = s[c].origin
        <4>1. CASE c = n
          BY <1>1, <2>2, <2>3, <3>3, <3>4, <4>1
        <4>2. CASE c # n
          BY <2>3, <3>4, <4>2
        <4> QED
          BY <4>1, <4>2
      <3> QED
        BY <2>1, <3>2, <3>4 DEF BoardStays
    <2> QED
      BY <1>1, <2>1, <2>4, BoardsStayPlaces
  <1> HIDE DEF new, refused
  <1>2. KeepsPlaces(d, EditArtboards(d, refused, same, new), moved, 0, 0)
    BY <1>1, BoardsEditPlaces
  <1> QED
    BY <1>2 DEF new, refused

LEMMA BoardHas ==
    ASSUME NEW d \in CanvasDocument, NEW id, Has(d.boards, id)
    PROVE  Board(d, id).id = id /\ Board(d, id) \in Artboard
  BY FieldTypes, FoundType DEF Board

(* The name, background and visibility of an artboard are no place.          *)
LEMMA ArtboardSettersPlaces ==
    ASSUME NEW d \in CanvasDocument, NEW id, NEW v, NEW moved
    PROVE  /\ KeepsPlaces(d, SetArtboardName(d, id, v), moved, 0, 0)
           /\ KeepsPlaces(d, SetArtboardBackground(d, id, v), moved, 0, 0)
           /\ KeepsPlaces(d, SetArtboardVisible(d, id, v), moved, 0, 0)
  <1> DEFINE board == Board(d, id)
             named == [board EXCEPT !.name = v]
             painted == [board EXCEPT !.background = v]
             shown == [board EXCEPT !.visible = v]
  <1>1. Has(d.boards, id) => /\ named.id = id /\ named.origin = board.origin
                             /\ painted.id = id /\ painted.origin = board.origin
                             /\ shown.id = id /\ shown.origin = board.origin
    BY BoardHas DEF Artboard
  <1> HIDE DEF named, painted, shown
  <1>2. \A same :
            /\ KeepsPlaces(d, EditArtboards(d, ~Has(d.boards, id), same, WithBoard(d, id, named)),
                           moved, 0, 0)
            /\ KeepsPlaces(d, EditArtboards(d, ~Has(d.boards, id), same, WithBoard(d, id, painted)),
                           moved, 0, 0)
            /\ KeepsPlaces(d, EditArtboards(d, ~Has(d.boards, id), same, WithBoard(d, id, shown)),
                           moved, 0, 0)
    BY <1>1, WithBoardPlaces
  <1> QED
    BY <1>2 DEF SetArtboardName, SetArtboardBackground, SetArtboardVisible, named, painted, shown

(* What stays of a sequence is what it had at the places that stay.          *)
LEMMA KeptElements ==
    ASSUME NEW S, NEW s \in Seq(S), NEW places, places \subseteq DOMAIN s
    PROVE  /\ \A k \in DOMAIN Kept(s, places) : \E i \in places : Kept(s, places)[k] = s[i]
           /\ \A i \in places : \E k \in DOMAIN Kept(s, places) : Kept(s, places)[k] = s[i]
  <1> DEFINE left == Kept(s, places)
  <1>1. PICK from \in [DOMAIN left -> places] :
            /\ \A n \in DOMAIN from : left[n] = s[from[n]]
            /\ \A i \in places : \E n \in DOMAIN from : from[n] = i
            /\ \A n, m \in DOMAIN from : n < m => from[n] < from[m]
    BY KeptOrder
  <1> HIDE DEF left
  <1>2. DOMAIN from = DOMAIN left /\ \A n \in DOMAIN left : from[n] \in places
    BY <1>1
  <1>3. \A k \in DOMAIN left : \E i \in places : left[k] = s[i]
    BY <1>1, <1>2
  <1>4. \A i \in places : \E k \in DOMAIN left : left[k] = s[i]
    BY <1>1, <1>2
  <1> QED
    BY <1>3, <1>4 DEF left

(* Nothing of it is lost.                                                    *)
LEMMA TheKeptStay ==
    ASSUME NEW S, NEW s \in Seq(S), NEW places, places \subseteq DOMAIN s, NEW i \in places
    PROVE  s[i] \in ToSet(Kept(s, places))
  BY KeptElements DEF ToSet

(* Every layer of an artboard is among those on it.                          *)
LEMMA AllOnBoard ==
    ASSUME NEW d \in CanvasDocument, NEW board, NEW i \in DOMAIN d.layers, d.layers[i].board = board
    PROVE  d.layers[i] \in ToSet(OnBoard(d, board))
  <1>1. d.layers \in Seq(CanvasLayer) /\ PlacesOn(d, board) \subseteq DOMAIN d.layers
    BY FieldTypes DEF PlacesOn
  <1>2. i \in PlacesOn(d, board)
    BY DEF PlacesOn
  <1> QED
    BY <1>1, <1>2, TheKeptStay DEF OnBoard

(* An artboard that is moved takes its layers along, and no other.           *)
LEMMA SetArtboardRegionPlaces ==
    ASSUME NEW d \in CanvasDocument, NEW id, NEW origin, NEW width, NEW moved,
           \A layer \in ToSet(OnBoard(d, id)) : layer.id \in moved
    PROVE  KeepsPlaces(d, SetArtboardRegion(d, id, origin, width), moved, 0, 0)
  <1> DEFINE board == [Board(d, id) EXCEPT !.origin = origin, !.width = width]
  <1>1. Has(d.boards, id) => board.id = id
    BY BoardHas DEF Artboard
  <1>2. \A i \in DOMAIN d.layers : d.layers[i].board = id => d.layers[i].id \in moved
    BY AllOnBoard
  <1> HIDE DEF board
  <1>3. \A same :
            KeepsPlaces(d, EditArtboards(d, ~Has(d.boards, id), same, WithBoard(d, id, board)),
                        moved, 0, 0)
    BY <1>1, <1>2, WithBoardPlaces
  <1> QED
    BY <1>3 DEF SetArtboardRegion, board

(* One more artboard.                                                        *)
LEMMA InsertedOrOldBoard ==
    ASSUME NEW s \in Seq(Artboard), NEW at \in Nat \union {AppendIndex}, ~IsOutside(at, s),
           NEW board \in Artboard, NEW k \in DOMAIN Inserted(s, at, board)
    PROVE  \/ Inserted(s, at, board)[k] = board
           \/ \E i \in DOMAIN s : Inserted(s, at, board)[k] = s[i]
  BY InsertedElements, SMTT(30)

LEMMA OldBoardInserted ==
    ASSUME NEW s \in Seq(Artboard), NEW at \in Nat \union {AppendIndex}, ~IsOutside(at, s),
           NEW board \in Artboard, NEW i \in DOMAIN s
    PROVE  \E k \in DOMAIN Inserted(s, at, board) : Inserted(s, at, board)[k] = s[i]
  BY InsertedElements

LEMMA OldBoardsStay ==
    ASSUME NEW d \in CanvasDocument, NEW board \in Artboard, ~Has(d.boards, board.id),
           NEW at \in Nat \union {AppendIndex}, ~IsOutside(at, d.boards),
           NEW e, e.boards = Inserted(d.boards, at, board), NEW id, Has(d.boards, id)
    PROVE  BoardStays(e, d, id)
  <1>1. d.boards \in Seq(Artboard)
    BY FieldTypes
  <1>2. ASSUME NEW k \in DOMAIN e.boards
        PROVE  e.boards[k] = board \/ \E i \in DOMAIN d.boards : e.boards[k] = d.boards[i]
    BY <1>1, InsertedOrOldBoard
  <1>3. ASSUME NEW i \in DOMAIN d.boards PROVE \E k \in DOMAIN e.boards : e.boards[k] = d.boards[i]
    BY <1>1, OldBoardInserted
  <1>4. Has(e.boards, id)
    <2>1. PICK i \in DOMAIN d.boards : d.boards[i].id = id
      BY DEF Has
    <2>2. PICK k \in DOMAIN e.boards : e.boards[k] = d.boards[i]
      BY <1>3
    <2> QED
      BY <2>1, <2>2 DEF Has
  <1>5. ASSUME NEW c \in DOMAIN e.boards, e.boards[c].id = id
        PROVE  \E b \in DOMAIN d.boards :
                    d.boards[b].id = id /\ d.boards[b].origin = e.boards[c].origin
    <2>1. e.boards[c] # board
      BY <1>5
    <2>2. PICK b \in DOMAIN d.boards : e.boards[c] = d.boards[b]
      BY <1>2, <2>1
    <2> QED
      BY <1>5, <2>2
  <1> QED
    BY <1>4, <1>5 DEF BoardStays

LEMMA InsertArtboardPlaces ==
    ASSUME NEW d \in CanvasDocument, NEW board \in Artboard, NEW at \in Nat \union {AppendIndex},
           NEW moved
    PROVE  KeepsPlaces(d, InsertArtboard(d, board, at), moved, 0, 0)
  <1> DEFINE new == [d EXCEPT !.boards = Inserted(@, at, board)]
             refused == Has(d.boards, board.id) \/ IsOutside(at, d.boards)
  <1>1. ASSUME Valid(d), ~refused PROVE HasParts(new) /\ SamePlaces(d, new, moved, 0, 0)
    <2>1. /\ HasParts(new) /\ new.layers = d.layers
          /\ new.boards = Inserted(d.boards, at, board)
      BY DEF HasParts, CanvasDocument
    <2> HIDE DEF new
    <2>2. \A id : Has(d.boards, id) => BoardStays(new, d, id)
      BY <1>1, <2>1, OldBoardsStay
    <2> QED
      BY <1>1, <2>1, <2>2, PlacesAreKnown, BoardsStayPlaces
  <1>2. InsertArtboard(d, board, at) = EditArtboards(d, refused, FALSE, new)
    BY DEF InsertArtboard
  <1> HIDE DEF new, refused
  <1> QED
    BY <1>1, <1>2, BoardsEditPlaces

LEMMA MoveArtboardPlaces ==
    ASSUME NEW d \in CanvasDocument, NEW id, NEW to \in Nat, NEW moved
    PROVE  KeepsPlaces(d, MoveArtboard(d, id, to), moved, 0, 0)
  <1> DEFINE from == Item(d.boards, id)
             s == MoveElement(d.boards, from, to)
             new == [d EXCEPT !.boards = MoveElement(@, from, to)]
             refused == ~Has(d.boards, id) \/ to >= Len(d.boards)
             same == from = to + 1
  <1>1. ASSUME Valid(d), ~refused PROVE HasParts(new) /\ SamePlaces(d, new, moved, 0, 0)
    <2>1. d.boards \in Seq(Artboard) /\ Len(d.boards) \in Nat
      BY FieldTypes, LenProperties
    <2>2. from \in DOMAIN d.boards /\ to < Len(d.boards)
      BY <1>1, <2>1, FoundType
    <2>3. HasParts(new) /\ new.layers = d.layers /\ new.boards = s
      BY DEF HasParts, CanvasDocument
    <2> HIDE DEF from, new
    <2>4. /\ \A k \in DOMAIN s : \E i \in DOMAIN d.boards : s[k] = d.boards[i]
          /\ \A i \in DOMAIN d.boards : \E k \in DOMAIN s : s[k] = d.boards[i]
      BY <2>1, <2>2, MovedElements
    <2> HIDE DEF s
    <2>5. \A b : Has(d.boards, b) => BoardStays(new, d, b)
      BY <2>3, <2>4 DEF BoardStays, Has
    <2> QED
      BY <1>1, <2>3, <2>5, PlacesAreKnown, BoardsStayPlaces
  <1>2. MoveArtboard(d, id, to) = EditArtboards(d, refused, same, new)
    BY DEF MoveArtboard
  <1> HIDE DEF new, refused, same
  <1> QED
    BY <1>1, <1>2, BoardsEditPlaces

(* A layer that changes its artboard moves as far on it as the artboard lies *)
(* elsewhere.                                                                *)
LEMMA OriginsAreNumbers ==
    ASSUME NEW d \in CanvasDocument, NEW b, b = 0 \/ Has(d.boards, b)
    PROVE  BoardOrigin(d, b) \in Int
  <1>1. CASE b = 0
    BY <1>1 DEF BoardOrigin
  <1>2. CASE b # 0
    <2>1. Found(d.boards, b) \in Artboard
      BY <1>2, FieldTypes, FoundType
    <2> QED
      BY <1>2, <2>1 DEF BoardOrigin, Artboard
  <1> QED
    BY <1>1, <1>2

LEMMA SetLayerArtboardPlaces ==
    ASSUME NEW d \in CanvasDocument, NEW id, NEW board \in Nat, NEW moved
    PROVE  KeepsPlaces(d, SetLayerArtboard(d, id, board), moved, 0, 0)
  <1> DEFINE prior == Layer(d, id)
             x == prior.x + BoardOrigin(d, prior.board) - BoardOrigin(d, board)
             changed == [prior EXCEPT !.x = x, !.board = board]
             n == Item(d.layers, id)
             s == [d.layers EXCEPT ![n] = changed]
             new == WithLayer(d, id, changed)
             refused == ~Has(d.layers, id) \/ (board # 0 /\ ~Has(d.boards, board))
             same == prior.board = board
  <1>1. ASSUME Valid(d), ~refused PROVE HasParts(new) /\ SamePlaces(d, new, moved, 0, 0)
    <2>1. /\ prior \in CanvasLayer /\ prior.id = id /\ n \in DOMAIN d.layers
          /\ d.layers[n] = prior
      BY <1>1, LayerFound
    <2>2. BoardOrigin(d, prior.board) \in Int /\ BoardOrigin(d, board) \in Int /\ prior.x \in Int
      <3>1. prior.board = 0 \/ Has(d.boards, prior.board)
        BY <1>1, <2>1, PlacesAreKnown
      <3>2. board = 0 \/ Has(d.boards, board)
        BY <1>1
      <3> QED
        BY <2>1, <3>1, <3>2, OriginsAreNumbers, LayerFieldTypes
    <2>3. BoardOrigin(d, board) + x = BoardOrigin(d, prior.board) + prior.x
      <3> HIDE DEF prior
      <3> QED
        BY <2>2
    <2>4. changed.id = id /\ changed.board = board /\ changed.x = x
      <3> HIDE DEF x
      <3> QED
        BY <2>1 DEF CanvasLayer
    <2> HIDE DEF changed, x
    <2>5. HasParts(new) /\ new.layers = s /\ new.boards = d.boards
      BY DEF WithLayer, HasParts, CanvasDocument
    <2> HIDE DEF new, n
    <2>6. /\ DOMAIN s = DOMAIN d.layers /\ s[n] = changed
          /\ \A j \in DOMAIN d.layers : j # n => s[j] = d.layers[j]
      BY <2>1
    <2> HIDE DEF s
    <2>7. ASSUME NEW i \in DOMAIN d.layers, NEW j \in DOMAIN s, s[j].id = d.layers[i].id
          PROVE  Placement(d, s[j]) = Placement(d, d.layers[i])
      <3>1. s[j].id = d.layers[j].id
        BY <2>1, <2>4, <2>6
      <3>2. i = j
        BY <1>1, <2>6, <2>7, <3>1, PlacesAreKnown DEF Distinct
      <3>3. CASE j = n
        <4>1. /\ s[j].board = board /\ s[j].x = x
              /\ d.layers[i].board = prior.board /\ d.layers[i].x = prior.x
          BY <2>1, <2>4, <2>6, <3>2, <3>3
        <4> HIDE DEF prior
        <4> QED
          BY <2>3, <4>1 DEF Placement
      <3>4. CASE j # n
        BY <2>6, <3>2, <3>4
      <3> QED
        BY <3>3, <3>4
    <2>8. \A j \in DOMAIN s : Placement(new, s[j]) = Placement(d, s[j])
      BY <2>5, OwnBoards DEF Placement
    <2> QED
      BY <2>5, <2>7, <2>8 DEF SamePlaces, Renamed
  <1>2. SetLayerArtboard(d, id, board) = EditArtboards(d, refused, same, new)
    BY DEF SetLayerArtboard
  <1> HIDE DEF new, refused, same
  <1> QED
    BY <1>1, <1>2, BoardsEditPlaces

(* The copies of layers have ids of their own, and so has their artboard.    *)
LEMMA AppendedElements ==
    ASSUME NEW S, NEW s \in Seq(S), NEW t \in Seq(S), NEW k \in DOMAIN (s \o t)
    PROVE  \/ \E i \in DOMAIN s : (s \o t)[k] = s[i]
           \/ \E i \in DOMAIN t : (s \o t)[k] = t[i]
  <1>1. Len(s) \in Nat /\ Len(t) \in Nat /\ DOMAIN s = 1 .. Len(s) /\ DOMAIN t = 1 .. Len(t)
    BY LenProperties
  <1>2. /\ s \o t \in Seq(S) /\ Len(s \o t) = Len(s) + Len(t)
        /\ \A j \in 1 .. Len(s) + Len(t) : (s \o t)[j] = IF j <= Len(s) THEN s[j] ELSE t[j - Len(s)]
    BY ConcatProperties
  <1>3. DOMAIN (s \o t) = 1 .. Len(s) + Len(t)
    BY <1>2, LenProperties
  <1>4. CASE k <= Len(s)
    <2>1. k \in DOMAIN s /\ (s \o t)[k] = s[k]
      BY <1>1, <1>2, <1>3, <1>4
    <2> QED
      BY <2>1
  <1>5. CASE ~(k <= Len(s))
    <2>1. k - Len(s) \in DOMAIN t /\ (s \o t)[k] = t[k - Len(s)]
      BY <1>1, <1>2, <1>3, <1>5
    <2> QED
      BY <2>1
  <1> QED
    BY <1>4, <1>5

LEMMA AppendedLayers ==
    ASSUME NEW s \in Seq(CanvasLayer), NEW t \in Seq(CanvasLayer)
    PROVE  \A k \in DOMAIN (s \o t) :
                \/ \E i \in DOMAIN s : (s \o t)[k] = s[i]
                \/ \E i \in DOMAIN t : (s \o t)[k] = t[i]
  <1> TAKE k \in DOMAIN (s \o t)
  <1> QED
    BY AppendedElements

LEMMA DuplicateArtboardPlaces ==
    ASSUME NEW d \in CanvasDocument, NEW id, NEW to \in Nat, NEW origin \in Int,
           NEW at \in Nat \union {AppendIndex}, NEW moved
    PROVE  KeepsPlaces(d, DuplicateArtboard(d, id, to, origin, at), moved, 0, 0)
  <1> DEFINE copies == CopiedAssets(d, id, to)
             layers == CopiedLayers(d, id, to)
             board == [Board(d, id) EXCEPT !.id = to, !.origin = origin]
             drawings == d.assets \o copies
             all == d.layers \o layers
             frames == [i \in DOMAIN d.frames |-> CopiedFrame(d, d.frames[i], id, to)]
             boards == Inserted(d.boards, at, board)
             new == [d EXCEPT !.assets = drawings, !.layers = all, !.frames = frames,
                              !.boards = boards]
             refused ==
                \/ ~Has(d.boards, id) \/ Has(d.boards, to) \/ IsOutside(at, d.boards)
                \/ \E i \in DOMAIN copies : Has(d.assets, copies[i].id)
                \/ \E i \in DOMAIN layers : Has(d.layers, layers[i].id) \/ Has(d.tracks, layers[i].id)
  <1>1. DuplicateArtboard(d, id, to, origin, at) = EditArtboards(d, refused, FALSE, new)
    BY DEF DuplicateArtboard
  <1>2. ASSUME Valid(d), ~refused PROVE HasParts(new) /\ SamePlaces(d, new, moved, 0, 0)
    <2>1. /\ Has(d.boards, id) /\ ~Has(d.boards, to) /\ ~IsOutside(at, d.boards)
          /\ \A i \in DOMAIN layers : ~Has(d.layers, layers[i].id)
      BY <1>2
    <2> HIDE DEF refused
    <2>2. HasParts(new) /\ new.layers = all /\ new.boards = boards
      <3> HIDE DEF drawings, all, frames, boards
      <3> QED
        BY DEF HasParts, CanvasDocument
    <2> HIDE DEF new
    <2>3. board \in Artboard /\ board.id = to
      <3>1. Board(d, id) \in Artboard /\ 0 \in Nat /\ 0 \in Int
        BY <2>1, BoardHas
      <3>2. board \in Artboard
        BY <3>1, BoardFieldsChange
      <3> QED
        BY <3>1, <3>2 DEF Artboard
    <2> HIDE DEF board
    <2>4. \A b : Has(d.boards, b) => BoardStays(new, d, b)
      BY <2>1, <2>2, <2>3, OldBoardsStay
    <2>5. d.layers \in Seq(CanvasLayer) /\ layers \in Seq(CanvasLayer)
      BY FieldTypes, CopiedLayersType
    <2>6. LayersStayBut(new, d, moved)
      <3>1. \A j \in DOMAIN layers : HasSpot(layers[j])
        BY <2>5, LenProperties, ElementOfSeq, LayersHaveSpots
      <3> HIDE DEF layers
      <3>2. \A j \in DOMAIN all :
                \/ \E i \in DOMAIN d.layers : all[j] = d.layers[i]
                \/ \E i \in DOMAIN layers : all[j] = layers[i]
        BY <2>5, AppendedLayers
      <3> HIDE DEF all
      <3>3. \A j \in DOMAIN all : HasSpot(all[j]) /\ StaysOr(all[j], d.layers, moved)
        <4> TAKE j \in DOMAIN all
        <4>1. CASE \E i \in DOMAIN d.layers : all[j] = d.layers[i]
          BY <4>1, OwnLayersHaveSpots DEF StaysOr, SameSpot
        <4>2. CASE \E i \in DOMAIN layers : all[j] = layers[i]
          BY <2>1, <3>1, <4>2 DEF StaysOr
        <4> QED
          BY <3>2, <4>1, <4>2
      <3> QED
        BY <2>2, <3>3 DEF LayersStayBut
    <2>7. \A i \in DOMAIN d.layers :
                BoardOrigin(new, d.layers[i].board) = BoardOrigin(d, d.layers[i].board)
      <3> TAKE i \in DOMAIN d.layers
      <3>1. CASE d.layers[i].board = 0
        BY <3>1 DEF BoardOrigin
      <3>2. CASE d.layers[i].board # 0
        BY <1>2, <2>4, <3>2, PlacesAreKnown, BoardOriginStays
      <3> QED
        BY <3>1, <3>2
    <2> QED
      BY <1>2, <2>2, <2>6, <2>7, LayersAndBoardsStay
  <1> HIDE DEF new, refused
  <1> QED
    BY <1>1, <1>2, BoardsEditPlaces

(* All artboards but one.                                                    *)
LEMMA OtherBoardsStay ==
    ASSUME NEW d \in CanvasDocument, NEW e \in CanvasDocument, e.boards = d.boards, NEW id
    PROVE  /\ HasParts(WithoutBoard(e, id)) /\ WithoutBoard(e, id).layers = e.layers
           /\ \A b : b # id /\ Has(d.boards, b) => BoardStays(WithoutBoard(e, id), d, b)
  <1> DEFINE places == {i \in DOMAIN e.boards : e.boards[i].id # id}
             s == e.boards
             left == Kept(s, places)
             new == WithoutBoard(e, id)
  <1>1. HasParts(new) /\ new.layers = e.layers /\ new.boards = left
    BY DEF HasParts, WithoutBoard, CanvasDocument
  <1>2. s \in Seq(Artboard) /\ s = d.boards
    BY FieldTypes
  <1>3. places \subseteq DOMAIN s /\ \A i \in DOMAIN s : i \in places <=> s[i].id # id
    OBVIOUS
  <1> HIDE DEF places, s, new
  <1>4. \A k \in DOMAIN left : \E i \in places : left[k] = s[i]
    BY <1>2, <1>3, KeptElements
  <1>5. \A i \in places : s[i] \in ToSet(left)
    BY <1>2, <1>3, TheKeptStay
  <1> HIDE DEF left
  <1>6. ASSUME NEW b, b # id, Has(d.boards, b) PROVE BoardStays(new, d, b)
    <2>1. PICK i \in DOMAIN s : s[i].id = b
      BY <1>2, <1>6 DEF Has
    <2>2. \E k \in DOMAIN left : left[k].id = b
      BY <1>3, <1>5, <1>6, <2>1 DEF ToSet
    <2>3. \A k \in DOMAIN left : \E j \in DOMAIN s : left[k] = s[j]
      BY <1>3, <1>4
    <2> QED
      BY <1>1, <1>2, <2>2, <2>3 DEF BoardStays, Has
  <1> QED
    BY <1>1, <1>6 DEF new

(* Without their artboard its layers lie in the world where they lay on it.  *)
LEMMA KeptLayersPlaces ==
    ASSUME NEW d \in CanvasDocument, Valid(d), NEW id, Has(d.boards, id), NEW moved
    PROVE  LET new == WithoutBoard(KeepLayers(d, id), id)
           IN  HasParts(new) /\ SamePlaces(d, new, moved, 0, 0)
  <1> DEFINE e == KeepLayers(d, id)
             new == WithoutBoard(e, id)
             origin == Board(d, id).origin
             s == [i \in DOMAIN d.layers |->
                    IF d.layers[i].board = id THEN Released(d.layers[i], Board(d, id))
                    ELSE d.layers[i]]
  <1>1. e \in CanvasDocument
    BY KeepLayersType
  <1>2. e.boards = d.boards /\ e.layers = s
    BY DEF KeepLayers, CanvasDocument
  <1>3. id # 0
    <2>1. PICK b \in DOMAIN d.boards : d.boards[b].id = id
      BY DEF Has
    <2> QED
      BY <2>1 DEF Valid, ValidArtboards
  <1>4. origin \in Int /\ BoardOrigin(d, id) = origin
    BY <1>3, BoardHas DEF Artboard, BoardOrigin, Board
  <1>5. ASSUME NEW i \in DOMAIN d.layers, d.layers[i].board = id
        PROVE  s[i].id = d.layers[i].id /\ s[i].board = 0 /\ s[i].x = d.layers[i].x + origin
    <2>1. d.layers[i] \in CanvasLayer /\ s[i] = Released(d.layers[i], Board(d, id))
      BY <1>5, OwnLayersHaveSpots
    <2> HIDE DEF s
    <2> QED
      BY <2>1 DEF Released, CanvasLayer
  <1>6. DOMAIN s = DOMAIN d.layers /\ \A i \in DOMAIN s : d.layers[i].board # id => s[i] = d.layers[i]
    OBVIOUS
  <1> HIDE DEF e, s, origin
  <1>7. /\ HasParts(new) /\ new.layers = s
        /\ \A b : b # id /\ Has(d.boards, b) => BoardStays(new, d, b)
    BY <1>1, <1>2, OtherBoardsStay
  <1> HIDE DEF new
  <1>8. ASSUME NEW i \in DOMAIN d.layers, NEW j \in DOMAIN s, s[j].id = d.layers[i].id
        PROVE  Placement(new, s[j]) = Placement(d, d.layers[i])
    <2>1. i = j
      BY <1>5, <1>6, <1>8, PlacesAreKnown DEF Distinct
    <2>2. CASE d.layers[i].board = id
      <3>1. d.layers[i].x \in Int
        BY OwnLayersHaveSpots, LayerFieldTypes
      <3>2. s[j].board = 0 /\ s[j].x = d.layers[i].x + origin
        BY <1>5, <2>1, <2>2
      <3>3. Placement(new, s[j]) = 0 + (d.layers[i].x + origin)
        BY <3>2 DEF Placement, BoardOrigin
      <3>4. Placement(d, d.layers[i]) = origin + d.layers[i].x
        BY <1>4, <2>2 DEF Placement
      <3> QED
        BY <1>4, <3>1, <3>3, <3>4
    <2>3. CASE d.layers[i].board # id
      <3>1. s[j] = d.layers[i]
        BY <1>6, <2>1, <2>3
      <3>2. BoardOrigin(new, d.layers[i].board) = BoardOrigin(d, d.layers[i].board)
        <4>1. CASE d.layers[i].board = 0
          BY <4>1 DEF BoardOrigin
        <4>2. CASE d.layers[i].board # 0
          BY <1>7, <2>3, <4>2, PlacesAreKnown, BoardOriginStays
        <4> QED
          BY <4>1, <4>2
      <3> QED
        BY <3>1, <3>2 DEF Placement
    <2> QED
      BY <2>2, <2>3
  <1>9. SamePlaces(d, new, moved, 0, 0)
    BY <1>7, <1>8 DEF SamePlaces, Renamed
  <1> QED
    BY <1>7, <1>9 DEF new, e

(* Or they go with it.                                                       *)
LEMMA DeletedLayersPlaces ==
    ASSUME NEW d \in CanvasDocument, Valid(d), NEW id, NEW moved
    PROVE  LET new == WithoutBoard(DeleteLayers(d, id), id)
           IN  HasParts(new) /\ SamePlaces(d, new, moved, 0, 0)
  <1> DEFINE e == DeleteLayers(d, id)
             new == WithoutBoard(e, id)
             layers == d.layers
             places == DOMAIN layers \ PlacesOn(d, id)
             left == Kept(layers, places)
  <1>1. e \in CanvasDocument
    BY DeleteLayersType
  <1>2. e.boards = d.boards /\ e.layers = left
    BY DEF DeleteLayers, CanvasDocument
  <1>3. /\ layers \in Seq(CanvasLayer) /\ places \subseteq DOMAIN layers
        /\ \A i \in DOMAIN layers : i \in places <=> layers[i].board # id
    BY FieldTypes DEF PlacesOn
  <1> HIDE DEF e
  <1>4. /\ HasParts(new) /\ new.layers = left
        /\ \A b : b # id /\ Has(d.boards, b) => BoardStays(new, d, b)
    BY <1>1, <1>2, OtherBoardsStay
  <1> HIDE DEF new, places, layers
  <1>5. \A k \in DOMAIN left : \E i \in places : left[k] = layers[i]
    BY <1>3, KeptElements
  <1> HIDE DEF left
  <1>6. LayersStayBut(new, d, moved)
    <2>1. \A k \in DOMAIN left : \E i \in DOMAIN d.layers : left[k] = d.layers[i]
      BY <1>3, <1>5 DEF layers
    <2> QED
      BY <1>4, <2>1, OwnLayersHaveSpots DEF LayersStayBut, StaysOr, SameSpot
  <1>7. ASSUME NEW i \in DOMAIN d.layers
        PROVE  \/ ~Has(new.layers, d.layers[i].id)
               \/ BoardOrigin(new, d.layers[i].board) = BoardOrigin(d, d.layers[i].board)
    <2>1. CASE d.layers[i].board = 0
      BY <2>1 DEF BoardOrigin
    <2>2. CASE d.layers[i].board = id
      <3>1. ASSUME NEW k \in DOMAIN left, left[k].id = d.layers[i].id PROVE FALSE
        <4>1. PICK j \in places : left[k] = layers[j]
          BY <1>5
        <4>2. j \in DOMAIN d.layers /\ d.layers[j].id = d.layers[i].id /\ d.layers[j].board # id
          BY <1>3, <3>1, <4>1 DEF layers
        <4>3. j = i
          BY <4>2, PlacesAreKnown DEF Distinct
        <4> QED
          BY <2>2, <4>2, <4>3
      <3> QED
        BY <1>4, <3>1 DEF Has
    <2>3. CASE d.layers[i].board # 0 /\ d.layers[i].board # id
      BY <1>4, <2>3, PlacesAreKnown, BoardOriginStays
    <2> QED
      BY <2>1, <2>2, <2>3
  <1>8. SamePlaces(d, new, moved, 0, 0)
    BY <1>6, <1>7, LayersAndBoardsStay
  <1> QED
    BY <1>4, <1>8 DEF new, e

(* Either way the other layers and artboards lie where they lay.             *)
LEMMA RemoveArtboardPlaces ==
    ASSUME NEW d \in CanvasDocument, NEW id, NEW removal, NEW moved
    PROVE  KeepsPlaces(d, RemoveArtboard(d, id, removal), moved, 0, 0)
  <1> DEFINE kept == WithoutBoard(KeepLayers(d, id), id)
             cleared == WithoutBoard(DeleteLayers(d, id), id)
             new == WithoutBoard(IF removal = "KeepLayers" THEN KeepLayers(d, id)
                                 ELSE DeleteLayers(d, id), id)
             refused == ~Has(d.boards, id)
  <1>1. new = IF removal = "KeepLayers" THEN kept ELSE cleared
    OBVIOUS
  <1>2. Valid(d) /\ ~refused => /\ HasParts(kept) /\ SamePlaces(d, kept, moved, 0, 0)
                                /\ HasParts(cleared) /\ SamePlaces(d, cleared, moved, 0, 0)
    BY KeptLayersPlaces, DeletedLayersPlaces
  <1>3. RemoveArtboard(d, id, removal) = EditArtboards(d, refused, FALSE, new)
    BY DEF RemoveArtboard
  <1> HIDE DEF kept, cleared, new, refused
  <1>4. Valid(d) /\ ~refused => HasParts(new) /\ SamePlaces(d, new, moved, 0, 0)
    BY <1>1, <1>2
  <1> QED
    BY <1>3, <1>4, BoardsEditPlaces

-----------------------------------------------------------------------------
(* The calls of the editor                                                   *)

(* What each step does.                                                      *)
PlacesKept ==
    Edited => \A layer \in ToSet(doc.layers) :
        /\ Has(doc'.layers, NewId(layer.id)) /\ layer.id \notin touched'.moves
        => Placement(doc', Layer(doc', NewId(layer.id))) = Placement(doc, layer)

(* A step that counts makes the document the outcome of an applied call.     *)
LEMMA PerformApplies ==
    ASSUME DocumentTypeOK, NEW outcome, NEW touch, Perform(outcome, touch), Edited
    PROVE  outcome.result = "applied" /\ doc' = outcome.doc /\ touched' = touch
  BY PerformDoes DEF DocumentTypeOK

(* An outcome that keeps places, kept by the step that it is an outcome of.  *)
LEMMA PerformPlaces ==
    ASSUME DocumentTypeOK, NEW outcome, NEW touch, Perform(outcome, touch),
           KeepsPlaces(doc, outcome, touch.moves, touch.name[1], touch.name[2])
    PROVE  PlacesKept
  <1>1. Edited => outcome.result = "applied" /\ doc' = outcome.doc /\ touched' = touch
    BY PerformApplies
  <1> SUFFICES ASSUME Edited, NEW layer \in ToSet(doc.layers),
                      Has(doc'.layers, NewId(layer.id)), layer.id \notin touched'.moves
               PROVE  Placement(doc', Layer(doc', NewId(layer.id))) = Placement(doc, layer)
    BY DEF PlacesKept
  <1>2. SamePlaces(doc, doc', touch.moves, touch.name[1], touch.name[2])
    BY <1>1 DEF KeepsPlaces
  <1>3. PICK i \in DOMAIN doc.layers : doc.layers[i] = layer
    BY DEF ToSet
  <1> DEFINE id == NewId(layer.id)
             j == Item(doc'.layers, id)
  <1>4. j \in DOMAIN doc'.layers /\ doc'.layers[j].id = id /\ Layer(doc', id) = doc'.layers[j]
    BY ItemProperties DEF Layer, Found
  <1>5. id = Renamed(layer.id, touch.name[1], touch.name[2])
    BY <1>1 DEF NewId, Renamed
  <1> HIDE DEF id, j
  <1>6. Placement(doc', doc'.layers[j]) = Placement(doc, doc.layers[i])
    BY <1>1, <1>2, <1>3, <1>4, <1>5 DEF SamePlaces
  <1> QED
    BY <1>3, <1>4, <1>6 DEF id

(* Most calls say of no layer that it gets another id.                       *)
NamesNothing(touch) == touch.name[1] = 0 /\ touch.name[2] = 0

(* None of the calls but two changes the id of a layer.                      *)
LEMMA CallsNameNothing ==
    /\ NamesNothing(Nothing)
    /\ \A id, f : NamesNothing(Held(id, f))
    /\ \A pairs : NamesNothing(Shows(pairs))
    /\ \A id : NamesNothing(Asset(id)) /\ NamesNothing(Whole(id)) /\ Whole(id).moves = {id}
    /\ \A layers : NamesNothing(Moves(layers)) /\ Moves(layers).moves = layers
    /\ \A b, c : NamesNothing([Nothing EXCEPT !.copy = <<b, c>>])
  BY DEF NamesNothing, Nothing, Held, Shows, Asset, Whole, Moves

LEMMA PerformPlacesUnderTheirNames ==
    ASSUME DocumentTypeOK, NEW outcome, NEW touch, Perform(outcome, touch), NamesNothing(touch),
           KeepsPlaces(doc, outcome, touch.moves, 0, 0)
    PROVE  PlacesKept
  BY PerformPlaces DEF NamesNothing

LEMMA PerformMovesNothing ==
    ASSUME DocumentTypeOK, NEW outcome, NEW touch, Perform(outcome, touch), NamesNothing(touch),
           MovesNothing(doc, outcome)
    PROVE  PlacesKept
  <1>1. doc \in CanvasDocument
    BY DEF DocumentTypeOK
  <1>2. KeepsPlaces(doc, outcome, touch.moves, 0, 0)
    BY <1>1, MovesNothingPlaces
  <1> QED
    BY <1>2, PerformPlacesUnderTheirNames

LEMMA EditCanvasPlaces ==
    ASSUME DocumentTypeOK, EditCanvas PROVE PlacesKept
  <1>1. doc \in CanvasDocument
    BY DEF DocumentTypeOK
  <1> QED
    BY <1>1, CanvasCallsMoveNothing, CallsNameNothing, PerformMovesNothing DEF EditCanvas

LEMMA EditMetadataPlaces ==
    ASSUME DocumentTypeOK, EditMetadata PROVE PlacesKept
  <1>1. doc \in CanvasDocument
    BY DEF DocumentTypeOK
  <1> QED
    BY <1>1, MetadataCallsMoveNothing, CallsNameNothing, PerformMovesNothing DEF EditMetadata

LEMMA EditAssetsPlaces ==
    ASSUME DocumentTypeOK, EditAssets PROVE PlacesKept
  <1>1. doc \in CanvasDocument
    BY DEF DocumentTypeOK
  <1>2. \A a, v, at : /\ MovesNothing(doc, InsertRasterAsset(doc, a, v, at))
                      /\ MovesNothing(doc, InsertVectorAsset(doc, a, <<v>>, at))
                      /\ MovesNothing(doc, InsertChunkedRasterAsset(doc, a, <<v>>, at))
                      /\ MovesNothing(doc, InsertVideoAsset(doc, a, <<v, v>>, at))
    BY <1>1, AssetCallsMoveNothing
       DEF InsertRasterAsset, InsertVectorAsset, InsertChunkedRasterAsset, InsertVideoAsset
  <1>3. \A a, v : /\ MovesNothing(doc, ReplaceRasterPixels(doc, a, v))
                  /\ MovesNothing(doc, ReplaceVectorData(doc, a, <<v>>))
                  /\ MovesNothing(doc, ReplaceVideoAsset(doc, a, Visual(a, "Video", <<v>>)))
    BY <1>1, AssetCallsMoveNothing DEF ReplaceRasterPixels, ReplaceVideoAsset
  <1>4. /\ \A a, b : MovesNothing(doc, RenameAsset(doc, a, b))
        /\ \A a, to : MovesNothing(doc, MoveAsset(doc, a, to))
        /\ \A a : MovesNothing(doc, RemoveAsset(doc, a))
    BY <1>1, AssetCallsMoveNothing, RenameAssetMovesNothing
  <1> QED
    BY <1>2, <1>3, <1>4, CallsNameNothing, PerformMovesNothing DEF EditAssets

LEMMA EditPathsPlaces ==
    ASSUME DocumentTypeOK, EditPaths PROVE PlacesKept
  <1>1. doc \in CanvasDocument
    BY DEF DocumentTypeOK
  <1> QED
    BY <1>1, PathCallsMoveNothing, CallsNameNothing, PerformMovesNothing DEF EditPaths

LEMMA EditAudioPlaces ==
    ASSUME DocumentTypeOK, EditAudio PROVE PlacesKept
  <1>1. doc \in CanvasDocument
    BY DEF DocumentTypeOK
  <1> QED
    BY <1>1, AudioCallsMoveNothing, CallsNameNothing, PerformMovesNothing DEF EditAudio

LEMMA EditClipsPlaces ==
    ASSUME DocumentTypeOK, EditClips PROVE PlacesKept
  <1>1. doc \in CanvasDocument
    BY DEF DocumentTypeOK
  <1> QED
    BY <1>1, ClipCallsMoveNothing, CallsNameNothing, PerformMovesNothing DEF EditClips

LEMMA EditLayersPlaces ==
    ASSUME DocumentCallsAssumption, DocumentTypeOK, EditLayers PROVE PlacesKept
  <1>1. doc \in CanvasDocument
    BY DEF DocumentTypeOK
  <1>2. NewLayers \subseteq CanvasLayer /\ AppendDocumentIndex \in Nat \union {AppendIndex}
    BY DEF DocumentCallsAssumption, AppendDocumentIndex
  <1>3. CASE \E layer \in NewLayers, at \in Indexes :
                \/ Perform(InsertStaticLayer(doc, layer, at), Nothing)
                \/ ~layer.keyed /\ Perform(InsertLayer(doc, layer, at), Nothing)
    <2>1. \A layer \in NewLayers, at \in Indexes :
                /\ MovesNothing(doc, InsertStaticLayer(doc, layer, at))
                /\ MovesNothing(doc, InsertLayer(doc, layer, at))
      BY <1>1, <1>2, CallTypes, LayersHaveSpots, InsertEitherMovesNothing, InsertLayerMovesNothing
    <2> QED
      BY <1>3, <2>1, CallsNameNothing, PerformMovesNothing
  <1>4. CASE \E layer \in NewLayers, placements \in Placements :
                \/ Perform(InsertDynamicLayer(doc, layer, placements, AppendDocumentIndex), Nothing)
                \/ Perform(InsertKeyframedLayer(doc, layer, placements, AppendDocumentIndex), Nothing)
    <2>1. \A layer \in NewLayers, placements \in Placements :
            /\ MovesNothing(doc, InsertDynamicLayer(doc, layer, placements, AppendDocumentIndex))
            /\ MovesNothing(doc, InsertKeyframedLayer(doc, layer, placements, AppendDocumentIndex))
      BY <1>1, <1>2, LayersHaveSpots, InsertEitherMovesNothing, InsertKeyframedMovesNothing
    <2> QED
      BY <1>4, <2>1, CallsNameNothing, PerformMovesNothing
  <1>5. CASE \E id \in LayerIds, layer \in NewLayers :
                Perform(ReplaceLayer(doc, id, layer), [Whole(id) EXCEPT !.name = <<id, layer.id>>])
    <2>1. PICK id \in LayerIds, layer \in NewLayers :
                Perform(ReplaceLayer(doc, id, layer), [Whole(id) EXCEPT !.name = <<id, layer.id>>])
      BY <1>5
    <2> DEFINE touch == [Whole(id) EXCEPT !.name = <<id, layer.id>>]
    <2>2. touch.moves = {id} /\ touch.name[1] = id /\ touch.name[2] = layer.id
      BY DEF Whole, Nothing
    <2> HIDE DEF touch
    <2>3. HasSpot(layer)
      BY <1>2, LayersHaveSpots
    <2>4. KeepsPlaces(doc, ReplaceLayer(doc, id, layer), {id}, id, layer.id)
      BY <1>1, <2>3, ReplaceLayerPlaces
    <2>5. KeepsPlaces(doc, ReplaceLayer(doc, id, layer), touch.moves, touch.name[1], touch.name[2])
      BY <2>2, <2>4
    <2> QED
      BY <2>1, <2>5, PerformPlaces DEF touch
  <1>6. CASE \E id \in LayerIds, to \in LayerIds \union AudioIds :
                Perform(RenameLayer(doc, id, to), [Nothing EXCEPT !.name = <<id, to>>])
    <2>1. PICK id \in LayerIds, to \in LayerIds \union AudioIds :
                Perform(RenameLayer(doc, id, to), [Nothing EXCEPT !.name = <<id, to>>])
      BY <1>6
    <2> DEFINE touch == [Nothing EXCEPT !.name = <<id, to>>]
    <2>2. touch.moves = {} /\ touch.name[1] = id /\ touch.name[2] = to
      BY DEF Nothing
    <2> HIDE DEF touch
    <2>3. KeepsPlaces(doc, RenameLayer(doc, id, to), touch.moves, touch.name[1], touch.name[2])
      BY <1>1, <2>2, RenameLayerPlaces
    <2> QED
      BY <2>1, <2>3, PerformPlaces DEF touch
  <1>7. CASE \E id \in LayerIds, to \in Indexes : to >= 0 /\ Perform(MoveLayer(doc, id, to), Nothing)
    BY <1>1, <1>7, CallTypes, MoveLayerMovesNothing, CallsNameNothing, PerformMovesNothing
  <1>8. CASE \E id \in LayerIds : Perform(RemoveLayer(doc, id), Nothing)
    BY <1>1, <1>8, RemoveLayerMovesNothing, CallsNameNothing, PerformMovesNothing
  <1> QED
    BY <1>3, <1>4, <1>5, <1>6, <1>7, <1>8 DEF EditLayers

LEMMA EditLayerPropertiesPlaces ==
    ASSUME DocumentTypeOK, EditLayerProperties PROVE PlacesKept
  <1>1. doc \in CanvasDocument
    BY DEF DocumentTypeOK
  <1>2. PICK id \in LayerIds :
            \/ \E name \in Values : Perform(SetLayerName(doc, id, name), Nothing)
            \/ \E visible \in BOOLEAN : Perform(SetLayerVisible(doc, id, visible), Nothing)
            \/ \E opacity \in {0, 2} : Perform(SetLayerOpacity(doc, id, opacity), Nothing)
            \/ \E x \in Places : Perform(SetLayerTransform(doc, id, x), Moves({id}))
            \/ \E blend \in {0, 5, 9} : Perform(SetLayerBlendMode(doc, id, blend), Nothing)
            \/ \E look \in Appearances : Perform(SetLayerAppearance(doc, id, look), Nothing)
            \/ \E range \in Ranges : Perform(SetLayerFrameRange(doc, id, range), Whole(id))
            \/ \E f \in FrameNumbers : Perform(SetLayerMotion(doc, id, <<0, f>>), Nothing)
            \/ \E from \in {0, 1}, to \in {0, 2} :
                    Perform(SetVideoPlayback(doc, id, <<from, to>>), Nothing)
    BY DEF EditLayerProperties
  <1>3. CASE \E x \in Places : Perform(SetLayerTransform(doc, id, x), Moves({id}))
    BY <1>1, <1>3, SetLayerTransformPlaces, CallsNameNothing, PerformPlacesUnderTheirNames
  <1>4. \A v : /\ MovesNothing(doc, SetLayerName(doc, id, v))
               /\ MovesNothing(doc, SetLayerVisible(doc, id, v))
               /\ MovesNothing(doc, SetLayerOpacity(doc, id, v))
               /\ MovesNothing(doc, SetLayerBlendMode(doc, id, v))
               /\ MovesNothing(doc, SetLayerAppearance(doc, id, v))
               /\ MovesNothing(doc, SetLayerFrameRange(doc, id, v))
               /\ MovesNothing(doc, SetLayerMotion(doc, id, v))
               /\ MovesNothing(doc, SetVideoPlayback(doc, id, v))
    BY <1>1, PropertyCallsMoveNothing, ReplacingCallsMoveNothing
  <1> QED
    BY <1>2, <1>3, <1>4, CallsNameNothing, PerformMovesNothing

LEMMA EditSourcesPlaces ==
    ASSUME DocumentTypeOK, EditSources PROVE PlacesKept
  <1>1. doc \in CanvasDocument
    BY DEF DocumentTypeOK
  <1> QED
    BY <1>1, SourceCallsMoveNothing, CallsNameNothing, PerformMovesNothing DEF EditSources

LEMMA EditKeyframesPlaces ==
    ASSUME DocumentTypeOK, EditKeyframes PROVE PlacesKept
  <1>1. doc \in CanvasDocument
    BY DEF DocumentTypeOK
  <1> QED
    BY <1>1, KeyframeCallsMoveNothing, CallsNameNothing, PerformMovesNothing DEF EditKeyframes

LEMMA EditControlAssetsPlaces ==
    ASSUME DocumentTypeOK, EditControlAssets PROVE PlacesKept
  <1>1. doc \in CanvasDocument /\ session.kind \in ControlKind
    BY DEF DocumentTypeOK, EditControlAssets
  <1>2. \A a, parts, at : MovesNothing(doc, InsertAssetOf(session.kind, doc, a, parts, at))
    BY <1>1, AssetCallsOf, AssetCallsMoveNothing DEF InsertControlAsset
  <1>3. \A a, parts : MovesNothing(doc, ReplaceAssetOf(session.kind, doc, a, parts))
    BY <1>1, AssetCallsOf, AssetCallsMoveNothing DEF ReplaceControlAsset
  <1>4. \A a, i, v : MovesNothing(doc, SetPartOf(session.kind, doc, a, i, v))
    BY <1>1, PartCallsOf, SetPartMovesNothing
  <1> QED
    BY <1>2, <1>3, <1>4, CallsNameNothing, PerformMovesNothing DEF EditControlAssets

LEMMA EditControlLayersPlaces ==
    ASSUME DocumentCallsAssumption, DocumentTypeOK, EditControlLayers PROVE PlacesKept
  <1>1. /\ doc \in CanvasDocument /\ session.kind \in ControlKind \union {"SemanticSegment"}
        /\ NewLayers \subseteq CanvasLayer /\ AppendDocumentIndex \in Nat \union {AppendIndex}
    BY DEF DocumentTypeOK, EditControlLayers, DocumentCallsAssumption, Called, HasRole,
           AppendDocumentIndex
  <1>2. CASE \E layer \in NewLayers, placements \in Placements :
                Perform(InsertLayerOf(session.kind, doc, layer, placements, AppendDocumentIndex), Nothing)
    <2>1. \A layer \in NewLayers : \A placements :
            MovesNothing(doc, InsertLayerOf(session.kind, doc, layer, placements, AppendDocumentIndex))
      BY <1>1, LayerCallsOf, InsertEitherMovesNothing
    <2> QED
      BY <1>2, <2>1, CallsNameNothing, PerformMovesNothing
  <1>3. CASE \E id \in LayerIds, setup \in {"s2", "bad"} :
                \/ Perform(SetReferenceSettings(doc, id, setup), Nothing)
                \/ Perform(SetSemanticSegmentation(doc, id, setup), Nothing)
    BY <1>1, <1>3, ReplacingCallsMoveNothing, CallsNameNothing, PerformMovesNothing
       DEF SetReferenceSettings, SetSemanticSegmentation
  <1>4. CASE \E id \in LayerIds, model \in {"A", "B"}, scale \in {0, 2} :
                \/ Perform(SetControlNetSettings(doc, id, [model |-> model, scale |-> scale]), Nothing)
                \/ Perform(PatchControlNetSettings(doc, id, [model |-> model]), Nothing)
                \/ Perform(PatchControlNetSettings(doc, id, [scale |-> scale]), Nothing)
    BY <1>1, <1>4, ReplacingCallsMoveNothing, CallsNameNothing, PerformMovesNothing
  <1>5. CASE \E id \in LayerIds, layer \in ToSet(doc.layers), a, b \in ToSet(doc.assets),
                v \in session.parts, model \in {"A", "B"} :
                \E given \in {<<[a EXCEPT !.parts = <<v, v>>]>>, <<[a EXCEPT !.parts = <<v, v>>], b>>} :
                    Perform(SetControlNetParameters(doc, id, WithModel(layer, model), given),
                            Asset(a.id))
    <2>1. ASSUME NEW id, NEW layer \in ToSet(doc.layers), NEW model, NEW given
          PROVE  MovesNothing(doc, SetControlNetParameters(doc, id, WithModel(layer, model), given))
      <3>1. PICK i \in DOMAIN doc.layers : doc.layers[i] = layer
        BY DEF ToSet
      <3>2. HasSpot(layer)
        BY <1>1, <3>1, OwnLayersHaveSpots
      <3>3. HasSpot(WithModel(layer, model)) /\ SameSpot(WithModel(layer, model), layer)
        BY <3>2 DEF WithModel, HasSpot, SameSpot
      <3> HIDE DEF WithModel
      <3> QED
        BY <1>1, <3>1, <3>3, ParametersMoveNothing
    <2> QED
      BY <1>5, <2>1, CallsNameNothing, PerformMovesNothing
  <1> QED
    BY <1>2, <1>3, <1>4, <1>5 DEF EditControlLayers

(* The calls that move, copy and remove artboards.                           *)
LEMMA EditArtboardPlaces ==
    ASSUME DocumentCallsAssumption, DocumentTypeOK, EditArtboard PROVE PlacesKept
  <1>1. doc \in CanvasDocument
    BY DEF DocumentTypeOK
  <1>2. Places \subseteq Int /\ "n" \in STRING
    BY DEF DocumentCallsAssumption, TextsAreStrings
  <1>3. CASE \E b \in BoardIds, x \in Places, at \in Indexes :
                Perform(InsertArtboard(doc, [id |-> b, origin |-> x, width |-> 2, name |-> "n",
                                             background |-> 0, visible |-> TRUE], at), Nothing)
    <2>1. PICK b \in BoardIds, x \in Places, at \in Indexes :
                Perform(InsertArtboard(doc, [id |-> b, origin |-> x, width |-> 2, name |-> "n",
                                             background |-> 0, visible |-> TRUE], at), Nothing)
      BY <1>3
    <2> DEFINE board == [id |-> b, origin |-> x, width |-> 2, name |-> "n",
                         background |-> 0, visible |-> TRUE]
    <2>2. board \in Artboard
      BY <1>2, CallTypes DEF Artboard
    <2>3. Perform(InsertArtboard(doc, board, at), Nothing)
      BY <2>1
    <2> HIDE DEF board
    <2>4. KeepsPlaces(doc, InsertArtboard(doc, board, at), Nothing.moves, 0, 0)
      BY <1>1, <2>2, CallTypes, InsertArtboardPlaces
    <2> QED
      BY <2>3, <2>4, CallsNameNothing, PerformPlacesUnderTheirNames
  <1>4. CASE \E b \in BoardIds :
                \/ \E v \in Values : Perform(SetArtboardName(doc, b, v), Nothing)
                \/ \E argb \in {0, 1} : Perform(SetArtboardBackground(doc, b, argb), Nothing)
                \/ \E visible \in BOOLEAN : Perform(SetArtboardVisible(doc, b, visible), Nothing)
    BY <1>1, <1>4, ArtboardSettersPlaces, CallsNameNothing, PerformPlacesUnderTheirNames
  <1>5. CASE \E b \in BoardIds, x \in Places, n \in Counts :
                Perform(SetArtboardRegion(doc, b, x, n), Moves(On(b)))
    <2>1. PICK b \in BoardIds, x \in Places, n \in Counts :
                Perform(SetArtboardRegion(doc, b, x, n), Moves(On(b)))
      BY <1>5
    <2>2. \A layer \in ToSet(OnBoard(doc, b)) : layer.id \in On(b)
      BY DEF On
    <2>3. KeepsPlaces(doc, SetArtboardRegion(doc, b, x, n), On(b), 0, 0)
      BY <1>1, <2>2, SetArtboardRegionPlaces
    <2> QED
      BY <2>1, <2>3, CallsNameNothing, PerformPlacesUnderTheirNames
  <1>6. CASE \E b \in BoardIds, to \in Indexes : to >= 0 /\ Perform(MoveArtboard(doc, b, to), Nothing)
    BY <1>1, <1>6, CallTypes, MoveArtboardPlaces, CallsNameNothing, PerformPlacesUnderTheirNames
  <1>7. CASE \E b \in BoardIds, removal \in {"KeepLayers", "DeleteLayers"} :
                Perform(RemoveArtboard(doc, b, removal), Nothing)
    BY <1>1, <1>7, RemoveArtboardPlaces, CallsNameNothing, PerformPlacesUnderTheirNames
  <1>8. CASE \E id \in LayerIds, b \in BoardIds \union {0} :
                Perform(SetLayerArtboard(doc, id, b), Nothing)
    <2>1. \A b \in BoardIds \union {0} : b \in Nat
      BY CallTypes
    <2> QED
      BY <1>1, <1>8, <2>1, SetLayerArtboardPlaces, CallsNameNothing, PerformPlacesUnderTheirNames
  <1>9. CASE \E b, c \in BoardIds, x \in Places, at \in Indexes :
                Perform(DuplicateArtboard(doc, b, c, x, at), [Nothing EXCEPT !.copy = <<b, c>>])
    <2>1. PICK b \in BoardIds, c \in BoardIds, x \in Places, at \in Indexes :
                Perform(DuplicateArtboard(doc, b, c, x, at), [Nothing EXCEPT !.copy = <<b, c>>])
      BY <1>9
    <2>2. c \in Nat /\ x \in Int /\ at \in Nat \union {AppendIndex}
      BY <1>2, CallTypes
    <2>3. \A moved : KeepsPlaces(doc, DuplicateArtboard(doc, b, c, x, at), moved, 0, 0)
      BY <1>1, <2>2, DuplicateArtboardPlaces
    <2> QED
      BY <2>1, <2>3, CallsNameNothing, PerformPlacesUnderTheirNames
  <1> QED
    BY <1>3, <1>4, <1>5, <1>6, <1>7, <1>8, <1>9 DEF EditArtboard

-----------------------------------------------------------------------------
(* Every step, and every run                                                 *)

LEMMA PlacesStep ==
    ASSUME DocumentCallsAssumption, DocumentTypeOK, [Next]_vars PROVE [PlacesKept]_vars
  <1>1. CASE UNCHANGED vars
    BY <1>1
  <1>2. CASE Bind \/ Unbind \/ FileGoes
    <2>1. ~Edited
      BY <1>2 DEF Bind, Unbind, FileGoes, countVars, DocumentTypeOK, Edited
    <2> QED
      BY <2>1 DEF PlacesKept
  <1> QED
    BY <1>1, <1>2, EditCanvasPlaces, EditMetadataPlaces, EditAssetsPlaces, EditPathsPlaces,
       EditAudioPlaces, EditClipsPlaces, EditLayersPlaces, EditLayerPropertiesPlaces,
       EditSourcesPlaces, EditKeyframesPlaces, EditControlAssetsPlaces, EditControlLayersPlaces,
       EditArtboardPlaces
       DEF Next

(* A layer keeps its place in the world unless it, or the artboard it is on, *)
(* is moved.  setLayerArtboard() makes up for where the two artboards lie,   *)
(* and removeArtboard() with KeepLayers for the artboard that goes;          *)
(* duplicateArtboard() gives its copies ids and an artboard of their own; a  *)
(* renamed layer lies where it lay under its old id; nothing else touches    *)
(* the origins of artboards or the transforms of layers                      *)
(* (DocumentEditor.cpp, editArtboards()).                                    *)
THEOREM PlacementIsLocalCorrect ==
    DocumentCallsAssumption => (Spec => PlacementIsLocal)
  <1> SUFFICES ASSUME DocumentCallsAssumption PROVE Spec => PlacementIsLocal
    OBVIOUS
  <1>1. DocumentTypeOK /\ [Next]_vars =>
            [Edited => \A layer \in ToSet(doc.layers) :
                /\ Has(doc'.layers, NewId(layer.id)) /\ layer.id \notin touched'.moves
                => Placement(doc', Layer(doc', NewId(layer.id))) = Placement(doc, layer)]_vars
    BY PlacesStep DEF PlacesKept
  <1>2. Spec => []DocumentTypeOK
    BY DocumentTypeCorrect
  <1> QED
    BY <1>1, <1>2, PTL DEF Spec, PlacementIsLocal

-----------------------------------------------------------------------------
(* What a copy of an artboard shares                                         *)

(* A frame of the document owns a keyframe of a layer for an asset.          *)
HoldsKey(d, layer, f, asset) ==
    \E i \in DOMAIN d.frames : \E k \in DOMAIN d.frames[i].keys :
        /\ d.frames[i].at = f
        /\ d.frames[i].keys[k].layer = layer /\ d.frames[i].keys[k].asset = asset

(* Of a valid document that is all there is to finding keyframes.            *)
LEMMA KeysAreHeld ==
    ASSUME NEW d \in CanvasDocument, Valid(d), NEW layer, NEW f
    PROVE  /\ HasKey(d, layer, f) => HoldsKey(d, layer, f, KeyAsset(d, layer, f))
           /\ \A asset : HoldsKey(d, layer, f, asset) =>
                            HasKey(d, layer, f) /\ KeyAsset(d, layer, f) = asset
  <1>1. FramesInOrder(d.frames)
    BY FramesAreValid
  <1>2. ASSUME NEW asset, HoldsKey(d, layer, f, asset)
        PROVE  HasKey(d, layer, f) /\ KeyAsset(d, layer, f) = asset
    <2>1. PICK i \in DOMAIN d.frames : \E k \in DOMAIN d.frames[i].keys :
                /\ d.frames[i].at = f
                /\ d.frames[i].keys[k].layer = layer /\ d.frames[i].keys[k].asset = asset
      BY <1>2 DEF HoldsKey
    <2>2. PICK k \in DOMAIN d.frames[i].keys :
                d.frames[i].keys[k].layer = layer /\ d.frames[i].keys[k].asset = asset
      BY <2>1
    <2>3. /\ HasKey(d, d.frames[i].keys[k].layer, d.frames[i].at)
          /\ KeyAsset(d, d.frames[i].keys[k].layer, d.frames[i].at) = d.frames[i].keys[k].asset
      BY <1>1, KeyIsFound
    <2> QED
      BY <2>1, <2>2, <2>3
  <1>3. ASSUME HasKey(d, layer, f) PROVE \E asset : HoldsKey(d, layer, f, asset)
    <2> DEFINE i == FrameOf(d.frames, f)
    <2>1. i \in DOMAIN d.frames /\ d.frames[i].at = f /\ OwnsKey(d.frames[i], layer)
      BY <1>3 DEF HasKey, HasFrame, FrameOf
    <2> HIDE DEF i
    <2>2. PICK k \in DOMAIN d.frames[i].keys : d.frames[i].keys[k].layer = layer
      BY <2>1 DEF OwnsKey
    <2>3. HoldsKey(d, layer, f, d.frames[i].keys[k].asset)
      BY <2>1, <2>2 DEF HoldsKey
    <2> QED
      BY <2>3
  <1> QED
    BY <1>2, <1>3

(* Keyframes name layers and assets of a valid document.                     *)
LEMMA KeysAreKnown ==
    ASSUME NEW d \in CanvasDocument, Valid(d), NEW layer, NEW f, NEW asset,
           HoldsKey(d, layer, f, asset)
    PROVE  Has(d.layers, layer) /\ Has(d.assets, asset)
  <1>1. PICK i \in DOMAIN d.frames : \E k \in DOMAIN d.frames[i].keys :
            d.frames[i].keys[k].layer = layer /\ d.frames[i].keys[k].asset = asset
    BY DEF HoldsKey
  <1>2. PICK k \in DOMAIN d.frames[i].keys :
            d.frames[i].keys[k].layer = layer /\ d.frames[i].keys[k].asset = asset
    BY <1>1
  <1>3. ValidKeyframe(d, d.frames[i].keys[k])
    BY FramesAreValid
  <1> QED
    BY <1>2, <1>3 DEF ValidKeyframe, ReferenceIsValid

(* The assets a layer shows at some frame, by itself or through a keyframe.  *)
IsSource(d, layer, asset) ==
    IF layer.keyed THEN \E f : HoldsKey(d, layer.id, f, asset) ELSE asset = layer.asset

(* The layers on an artboard are layers of the document that name it.        *)
LEMMA OnBoardLayers ==
    ASSUME NEW d \in CanvasDocument, NEW board, NEW layer \in ToSet(OnBoard(d, board))
    PROVE  \E n \in DOMAIN d.layers : layer = d.layers[n] /\ d.layers[n].board = board
  <1> DEFINE places == PlacesOn(d, board)
             on == Kept(d.layers, places)
  <1>1. d.layers \in Seq(CanvasLayer) /\ places \subseteq DOMAIN d.layers
    BY FieldTypes DEF PlacesOn
  <1>2. \A n \in places : n \in DOMAIN d.layers /\ d.layers[n].board = board
    BY DEF PlacesOn
  <1>3. layer \in ToSet(on)
    BY DEF OnBoard
  <1> HIDE DEF places
  <1>4. \A k \in DOMAIN on : \E n \in places : on[k] = d.layers[n]
    BY <1>1, KeptElements
  <1> HIDE DEF on
  <1>5. PICK k \in DOMAIN on : layer = on[k]
    BY <1>3 DEF ToSet
  <1> QED
    BY <1>2, <1>4, <1>5

(* The sources of the layers on an artboard.                                 *)
LEMMA SourcesAre ==
    ASSUME NEW d \in CanvasDocument, Valid(d), NEW board, NEW asset
    PROVE  asset \in SourcesOn(d, board) <=>
              \E n \in DOMAIN d.layers :
                    d.layers[n].board = board /\ IsSource(d, d.layers[n], asset)
  <1> DEFINE OfLayer(layer) ==
                IF layer.keyed
                THEN {KeyAsset(d, layer.id, f) :
                        f \in {d.frames[i].at : i \in {j \in DOMAIN d.frames :
                                                        OwnsKey(d.frames[j], layer.id)}}}
                ELSE {layer.asset}
  <1>1. asset \in SourcesOn(d, board) <=>
            \E layer \in ToSet(OnBoard(d, board)) : asset \in OfLayer(layer)
    BY DEF SourcesOn
  <1>2. \A layer : asset \in OfLayer(layer) <=> IsSource(d, layer, asset)
    <2> TAKE layer
    <2>1. CASE ~layer.keyed
      BY <2>1 DEF IsSource
    <2>2. CASE layer.keyed
      <3>1. ASSUME asset \in OfLayer(layer) PROVE \E f : HoldsKey(d, layer.id, f, asset)
        <4>1. PICK j \in DOMAIN d.frames :
                    /\ OwnsKey(d.frames[j], layer.id)
                    /\ asset = KeyAsset(d, layer.id, d.frames[j].at)
          BY <2>2, <3>1
        <4>2. PICK k \in DOMAIN d.frames[j].keys : d.frames[j].keys[k].layer = layer.id
          BY <4>1 DEF OwnsKey
        <4>3. HoldsKey(d, layer.id, d.frames[j].at, d.frames[j].keys[k].asset)
          BY <4>2 DEF HoldsKey
        <4> QED
          BY <4>1, <4>3, KeysAreHeld
      <3>2. ASSUME NEW f, HoldsKey(d, layer.id, f, asset) PROVE asset \in OfLayer(layer)
        <4>1. PICK i \in DOMAIN d.frames : \E k \in DOMAIN d.frames[i].keys :
                    d.frames[i].at = f /\ d.frames[i].keys[k].layer = layer.id
          BY <3>2 DEF HoldsKey
        <4>2. OwnsKey(d.frames[i], layer.id) /\ d.frames[i].at = f
          BY <4>1 DEF OwnsKey
        <4>3. KeyAsset(d, layer.id, f) = asset
          BY <3>2, KeysAreHeld
        <4> QED
          BY <2>2, <4>2, <4>3
      <3> HIDE DEF OfLayer
      <3> QED
        BY <2>2, <3>1, <3>2 DEF IsSource
    <2> QED
      BY <2>1, <2>2
  <1> HIDE DEF OfLayer
  <1>3. \A n \in DOMAIN d.layers :
            d.layers[n].board = board => d.layers[n] \in ToSet(OnBoard(d, board))
    BY AllOnBoard
  <1>4. ASSUME NEW layer \in ToSet(OnBoard(d, board))
        PROVE  \E n \in DOMAIN d.layers : layer = d.layers[n] /\ d.layers[n].board = board
    BY OnBoardLayers
  <1> QED
    BY <1>1, <1>2, <1>3, <1>4

-----------------------------------------------------------------------------
(* The duplicate of an artboard                                              *)

(* e is d with a copy of the artboard id, under new ids, named after to.     *)
IsDuplicate(e, d, id, to) ==
    /\ d \in CanvasDocument /\ Valid(d)
    /\ e \in CanvasDocument /\ Valid(e)
    /\ id \in Nat /\ to \in Nat /\ ~Has(d.boards, to) /\ Has(e.boards, to)
    /\ e.frameCount = d.frameCount
    /\ e.assets = d.assets \o CopiedAssets(d, id, to)
    /\ e.layers = d.layers \o CopiedLayers(d, id, to)
    /\ e.frames = [i \in DOMAIN d.frames |-> CopiedFrame(d, d.frames[i], id, to)]
    /\ \A i \in DOMAIN CopiedAssets(d, id, to) : ~Has(d.assets, CopiedAssets(d, id, to)[i].id)
    /\ \A i \in DOMAIN CopiedLayers(d, id, to) : ~Has(d.layers, CopiedLayers(d, id, to)[i].id)

LEMMA NewBoardIsThere ==
    ASSUME NEW s \in Seq(Artboard), NEW at \in Nat \union {AppendIndex}, ~IsOutside(at, s),
           NEW board \in Artboard
    PROVE  Has(Inserted(s, at, board), board.id)
  <1>1. \E k \in DOMAIN Inserted(s, at, board) : Inserted(s, at, board)[k] = board
    BY InsertedElements
  <1> QED
    BY <1>1 DEF Has

LEMMA DuplicateArtboardDuplicates ==
    ASSUME NEW d \in CanvasDocument, NEW id \in Nat, NEW to \in Nat, NEW origin \in Int,
           NEW at \in Nat \union {AppendIndex},
           DuplicateArtboard(d, id, to, origin, at).result = "applied"
    PROVE  IsDuplicate(DuplicateArtboard(d, id, to, origin, at).doc, d, id, to)
  <1> DEFINE copies == CopiedAssets(d, id, to)
             layers == CopiedLayers(d, id, to)
             board == [Board(d, id) EXCEPT !.id = to, !.origin = origin]
             drawings == d.assets \o copies
             all == d.layers \o layers
             frames == [i \in DOMAIN d.frames |-> CopiedFrame(d, d.frames[i], id, to)]
             boards == Inserted(d.boards, at, board)
             new == [d EXCEPT !.assets = drawings, !.layers = all, !.frames = frames,
                              !.boards = boards]
             refused ==
                \/ ~Has(d.boards, id) \/ Has(d.boards, to) \/ IsOutside(at, d.boards)
                \/ \E i \in DOMAIN copies : Has(d.assets, copies[i].id)
                \/ \E i \in DOMAIN layers : Has(d.layers, layers[i].id) \/ Has(d.tracks, layers[i].id)
             outcome == DuplicateArtboard(d, id, to, origin, at)
             e == Raised(new)
  <1>1. outcome = EditArtboards(d, refused, FALSE, new)
    BY DEF DuplicateArtboard
  <1>2. outcome.doc \in CanvasDocument /\ outcome.result = "applied"
    BY DuplicateArtboardLeavesNoTrace DEF NoTrace
  <1>3. /\ (Has(d.boards, id) /\ ~IsOutside(at, d.boards)) \/ refused
        /\ ~Has(d.boards, to) \/ refused
        /\ (\A i \in DOMAIN copies : ~Has(d.assets, copies[i].id)) \/ refused
        /\ (\A i \in DOMAIN layers : ~Has(d.layers, layers[i].id)) \/ refused
    OBVIOUS
  <1> HIDE DEF refused, board, outcome
  <1>4. /\ new.assets = drawings /\ new.layers = all /\ new.frames = frames
        /\ new.boards = boards /\ new.frameCount = d.frameCount /\ "minor" \in DOMAIN new
    <2> HIDE DEF drawings, all, frames, boards
    <2> QED
      BY DEF CanvasDocument
  <1> HIDE DEF new
  <1>5. /\ Valid(d) /\ ~refused /\ Valid(e)
        /\ outcome.doc = RecordDocumentChange(e)
    BY <1>1, <1>2 DEF EditArtboards, EditOr, Checked, Applied, Outcome
  <1>6. RecordDocumentChange(e) = e
    BY DEF RecordDocumentChange, Raised
  <1>7. /\ e.assets = drawings /\ e.layers = all /\ e.frames = frames
        /\ e.boards = boards /\ e.frameCount = d.frameCount
    BY <1>4 DEF Raised
  <1> HIDE DEF e
  <1>8. outcome.doc = e /\ e \in CanvasDocument
    BY <1>2, <1>5, <1>6
  <1>9. Has(e.boards, to)
    <2>1. Board(d, id) \in Artboard /\ 0 \in Nat /\ 0 \in Int
      BY <1>3, <1>5, BoardHas
    <2>2. board \in Artboard
      BY <2>1, BoardFieldsChange DEF board
    <2>3. board.id = to
      BY <2>1 DEF board, Artboard
    <2>4. d.boards \in Seq(Artboard) /\ ~IsOutside(at, d.boards)
      BY <1>3, <1>5, FieldTypes
    <2>5. Has(boards, board.id)
      BY <2>2, <2>4, NewBoardIsThere
    <2> QED
      BY <1>7, <2>3, <2>5
  <1> HIDE DEF copies, layers, drawings, all, frames, boards
  <1> QED
    BY <1>3, <1>5, <1>7, <1>8, <1>9
       DEF IsDuplicate, outcome, copies, layers, drawings, all, frames

(* Two sequences in one.                                                     *)
LEMMA BothAreIn ==
    ASSUME NEW S, NEW s \in Seq(S), NEW t \in Seq(S)
    PROVE  /\ \A i \in DOMAIN s : \E k \in DOMAIN (s \o t) : (s \o t)[k] = s[i]
           /\ \A i \in DOMAIN t : \E k \in DOMAIN (s \o t) : (s \o t)[k] = t[i]
  <1> DEFINE u == s \o t
  <1>1. Len(s) \in Nat /\ Len(t) \in Nat /\ DOMAIN s = 1 .. Len(s) /\ DOMAIN t = 1 .. Len(t)
    BY LenProperties
  <1>2. /\ u \in Seq(S) /\ Len(u) = Len(s) + Len(t)
        /\ \A j \in 1 .. Len(s) + Len(t) : u[j] = IF j <= Len(s) THEN s[j] ELSE t[j - Len(s)]
    BY ConcatProperties
  <1> HIDE DEF u
  <1>3. DOMAIN u = 1 .. Len(s) + Len(t)
    BY <1>2, LenProperties
  <1>4. ASSUME NEW i \in DOMAIN s PROVE i \in DOMAIN u /\ u[i] = s[i]
    BY <1>1, <1>2, <1>3
  <1>5. ASSUME NEW i \in DOMAIN t PROVE \E k \in DOMAIN u : u[k] = t[i]
    <2> DEFINE k == Len(s) + i
    <2>1. k \in DOMAIN u /\ ~(k <= Len(s)) /\ k - Len(s) = i
      BY <1>1, <1>3
    <2> HIDE DEF k
    <2>2. u[k] = t[i]
      BY <1>2, <1>3, <2>1
    <2> QED
      BY <2>1, <2>2
  <1> QED
    BY <1>4, <1>5 DEF u

LEMMA AppendedKeys ==
    ASSUME NEW s \in Seq(FrameKeyframe), NEW t \in Seq(FrameKeyframe)
    PROVE  /\ \A n \in DOMAIN (s \o t) : \/ \E i \in DOMAIN s : (s \o t)[n] = s[i]
                                        \/ \E i \in DOMAIN t : (s \o t)[n] = t[i]
           /\ \A i \in DOMAIN s : \E k \in DOMAIN (s \o t) : (s \o t)[k] = s[i]
           /\ \A i \in DOMAIN t : \E k \in DOMAIN (s \o t) : (s \o t)[k] = t[i]
  <1>1. ASSUME NEW n \in DOMAIN (s \o t)
        PROVE  \/ \E i \in DOMAIN s : (s \o t)[n] = s[i]
               \/ \E i \in DOMAIN t : (s \o t)[n] = t[i]
    BY AppendedElements
  <1>2. \A i \in DOMAIN s : \E k \in DOMAIN (s \o t) : (s \o t)[k] = s[i]
    BY BothAreIn
  <1>3. \A i \in DOMAIN t : \E k \in DOMAIN (s \o t) : (s \o t)[k] = t[i]
    BY BothAreIn
  <1> QED
    BY <1>1, <1>2, <1>3

(* s has the keyframes it was made of, and for those of the artboard one for *)
(* the copy of the layer with the copy of the asset.                         *)
IsKeyCopy(copy, key, to) ==
    copy.layer = CopyId(to, key.layer) /\ copy.asset = CopyId(to, key.asset)

CopiesKeys(s, d, keys, board, to) ==
    /\ \A n \in DOMAIN s :
            \/ \E k \in DOMAIN keys : s[n] = keys[k]
            \/ \E k \in DOMAIN keys :
                    Layer(d, keys[k].layer).board = board /\ IsKeyCopy(s[n], keys[k], to)
    /\ \A k \in DOMAIN keys : \E n \in DOMAIN s : s[n] = keys[k]
    /\ \A k \in DOMAIN keys : Layer(d, keys[k].layer).board = board =>
            \E n \in DOMAIN s : IsKeyCopy(s[n], keys[k], to)

LEMMA CopiedKeysElements ==
    ASSUME NEW d, NEW keys \in Seq(FrameKeyframe), NEW board, NEW to \in Nat
    PROVE  CopiesKeys(CopiedKeys(d, keys, board, to), d, keys, board, to)
  <1> DEFINE IsCopied(k) == Layer(d, keys[k].layer).board = board
             IsCopy(key, k) == IsKeyCopy(key, keys[k], to)
             places == {k \in DOMAIN keys : IsCopied(k)}
             mine == Kept(keys, places)
             t == [i \in DOMAIN mine |->
                    [mine[i] EXCEPT !.layer = CopyId(to, @), !.asset = CopyId(to, @)]]
             both == keys \o t
             number == [k \in DOMAIN both |-> both[k].layer]
             s == SortedBy(both, number)
  <1>1. CopiedKeys(d, keys, board, to) = s
    BY DEF CopiedKeys, KeysOn, SortedKeys
  <1>2. /\ places \subseteq DOMAIN keys /\ \A k \in places : IsCopied(k)
        /\ \A k \in DOMAIN keys : IsCopied(k) => k \in places
    OBVIOUS
  <1> HIDE DEF places, IsCopied
  <1>3. /\ mine \in Seq(FrameKeyframe)
        /\ \A i \in DOMAIN mine : \E k \in places : mine[i] = keys[k]
        /\ \A k \in places : \E i \in DOMAIN mine : mine[i] = keys[k]
    BY <1>2, KeptType, KeptElements
  <1> HIDE DEF mine
  <1>4. ASSUME NEW i \in DOMAIN mine
        PROVE  /\ t[i] \in FrameKeyframe
               /\ t[i].layer = CopyId(to, mine[i].layer) /\ t[i].asset = CopyId(to, mine[i].asset)
    <2>1. mine[i] \in FrameKeyframe
      BY <1>3, LenProperties, ElementOfSeq
    <2> DEFINE layer == CopyId(to, mine[i].layer)
               asset == CopyId(to, mine[i].asset)
    <2>2. layer \in Nat /\ asset \in Nat
      BY <2>1, KeyTypes, CopyIdType
    <2>3. t[i] = [mine[i] EXCEPT !.layer = layer, !.asset = asset]
      OBVIOUS
    <2> HIDE DEF t, layer, asset
    <2>4. [mine[i] EXCEPT !.layer = layer, !.asset = asset] \in FrameKeyframe
      BY <2>1, <2>2, KeyChanges
    <2>5. t[i].layer = layer /\ t[i].asset = asset
      BY <2>1, <2>3 DEF FrameKeyframe
    <2> QED
      BY <2>3, <2>4, <2>5 DEF layer, asset
  <1>5. t = [i \in DOMAIN mine |-> t[i]]
    OBVIOUS
  <1>6. DOMAIN t = DOMAIN mine
    OBVIOUS
  <1> HIDE DEF t
  <1>7. t \in Seq(FrameKeyframe)
    BY <1>3, <1>4, <1>5, MappedType
  <1>8. /\ \A i \in DOMAIN t : \E k \in DOMAIN keys : IsCopied(k) /\ IsCopy(t[i], k)
        /\ \A k \in DOMAIN keys : IsCopied(k) => \E i \in DOMAIN t : IsCopy(t[i], k)
    <2>1. ASSUME NEW i \in DOMAIN t PROVE \E k \in DOMAIN keys : IsCopied(k) /\ IsCopy(t[i], k)
      <3>1. PICK k \in places : mine[i] = keys[k]
        BY <1>3, <1>6, <2>1
      <3> QED
        BY <1>2, <1>4, <1>6, <2>1, <3>1 DEF IsKeyCopy
    <2>2. ASSUME NEW k \in DOMAIN keys, IsCopied(k) PROVE \E i \in DOMAIN t : IsCopy(t[i], k)
      <3>1. PICK i \in DOMAIN mine : mine[i] = keys[k]
        BY <1>2, <1>3, <2>2
      <3> QED
        BY <1>4, <1>6, <3>1 DEF IsKeyCopy
    <2> QED
      BY <2>1, <2>2
  <1> HIDE DEF IsCopy
  <1>9. both \in Seq(FrameKeyframe)
    BY <1>7, CutBack
  <1>10. /\ \A n \in DOMAIN both : \/ \E k \in DOMAIN keys : both[n] = keys[k]
                                   \/ \E i \in DOMAIN t : both[n] = t[i]
         /\ \A k \in DOMAIN keys : \E n \in DOMAIN both : both[n] = keys[k]
         /\ \A i \in DOMAIN t : \E n \in DOMAIN both : both[n] = t[i]
    BY <1>7, AppendedKeys
  <1>11. \A n \in DOMAIN both : number[n] \in Int
    <2> TAKE n \in DOMAIN both
    <2>1. both[n] \in FrameKeyframe
      BY <1>9, LenProperties, ElementOfSeq
    <2> QED
      BY <2>1, KeyTypes
  <1> HIDE DEF both, number
  <1>12. Sorts(s, both, number)
    BY <1>9, <1>11, SortedByOrder
  <1> HIDE DEF s
  <1>13. PICK place \in [DOMAIN s -> DOMAIN both] :
            /\ \A n \in DOMAIN place : s[n] = both[place[n]]
            /\ \A i \in DOMAIN both : \E n \in DOMAIN place : place[n] = i
    BY <1>12, Zenon DEF Sorts
  <1>14. DOMAIN place = DOMAIN s /\ \A n \in DOMAIN s : place[n] \in DOMAIN both
    BY <1>13
  <1>15. \A n \in DOMAIN s : \/ \E k \in DOMAIN keys : s[n] = keys[k]
                             \/ \E k \in DOMAIN keys : IsCopied(k) /\ IsCopy(s[n], k)
    <2> TAKE n \in DOMAIN s
    <2>1. s[n] = both[place[n]] /\ place[n] \in DOMAIN both
      BY <1>13, <1>14
    <2> QED
      BY <1>8, <1>10, <2>1
  <1>16. \A m \in DOMAIN both : \E n \in DOMAIN s : s[n] = both[m]
    BY <1>13, <1>14
  <1>17. \A k \in DOMAIN keys : \E n \in DOMAIN s : s[n] = keys[k]
    BY <1>10, <1>16
  <1>18. \A k \in DOMAIN keys : IsCopied(k) => \E n \in DOMAIN s : IsCopy(s[n], k)
    <2> TAKE k \in DOMAIN keys
    <2> HAVE IsCopied(k)
    <2>1. PICK i \in DOMAIN t : IsCopy(t[i], k)
      BY <1>8
    <2>2. PICK n \in DOMAIN s : s[n] = t[i]
      BY <1>10, <1>16
    <2> QED
      BY <2>1, <2>2
  <1> QED
    BY <1>1, <1>15, <1>17, <1>18 DEF CopiesKeys, IsCopied, IsCopy

(* A copy of a layer is one like it, with an id, an artboard and a source of *)
(* its own.                                                                  *)
IsLayerCopy(copy, layer, to) ==
    /\ copy.id = CopyId(to, layer.id) /\ copy.board = to
    /\ copy.keyed = layer.keyed /\ copy.kind = layer.kind
    /\ copy.range = layer.range /\ copy.index = layer.index
    /\ ~layer.keyed => copy.asset = CopyId(to, layer.asset)

LEMMA LayersAreCopied ==
    ASSUME NEW d \in CanvasDocument, NEW board, NEW to \in Nat
    PROVE  LET s == CopiedLayers(d, board, to)
           IN  /\ \A n \in DOMAIN s : \E i \in DOMAIN d.layers :
                        d.layers[i].board = board /\ IsLayerCopy(s[n], d.layers[i], to)
               /\ \A i \in DOMAIN d.layers : d.layers[i].board = board =>
                        \E n \in DOMAIN s : IsLayerCopy(s[n], d.layers[i], to)
  <1> DEFINE mine == OnBoard(d, board)
             s == [i \in DOMAIN mine |->
                    [mine[i] EXCEPT !.id = CopyId(to, @), !.board = to,
                                    !.asset = IF mine[i].keyed THEN @ ELSE CopyId(to, @)]]
  <1>1. CopiedLayers(d, board, to) = s
    BY DEF CopiedLayers
  <1>2. mine \in Seq(CanvasLayer)
    BY OnBoardType
  <1>3. /\ \A i \in DOMAIN mine : mine[i] \in ToSet(OnBoard(d, board))
        /\ \A layer \in ToSet(OnBoard(d, board)) : \E i \in DOMAIN mine : mine[i] = layer
    BY DEF ToSet
  <1> HIDE DEF mine
  <1>4. DOMAIN s = DOMAIN mine
    OBVIOUS
  <1>5. ASSUME NEW i \in DOMAIN mine PROVE IsLayerCopy(s[i], mine[i], to)
    <2>1. mine[i] \in CanvasLayer
      BY <1>2, LenProperties, ElementOfSeq
    <2>2. {"id", "board", "asset", "keyed", "kind", "range", "index"} \subseteq DOMAIN mine[i]
      BY <2>1 DEF CanvasLayer
    <2>3. s[i] = [mine[i] EXCEPT !.id = CopyId(to, @), !.board = to,
                                 !.asset = IF mine[i].keyed THEN @ ELSE CopyId(to, @)]
      OBVIOUS
    <2> HIDE DEF s
    <2> QED
      BY <2>2, <2>3 DEF IsLayerCopy
  <1> HIDE DEF s
  <1>6. ASSUME NEW n \in DOMAIN s
        PROVE  \E i \in DOMAIN d.layers :
                    d.layers[i].board = board /\ IsLayerCopy(s[n], d.layers[i], to)
    <2>1. \E i \in DOMAIN d.layers : mine[n] = d.layers[i] /\ d.layers[i].board = board
      BY <1>3, <1>4, OnBoardLayers
    <2> QED
      BY <1>4, <1>5, <2>1
  <1>7. ASSUME NEW i \in DOMAIN d.layers, d.layers[i].board = board
        PROVE  \E n \in DOMAIN s : IsLayerCopy(s[n], d.layers[i], to)
    <2>1. d.layers[i] \in ToSet(OnBoard(d, board))
      BY <1>7, AllOnBoard
    <2>2. PICK n \in DOMAIN mine : mine[n] = d.layers[i]
      BY <1>3, <2>1
    <2> QED
      BY <1>4, <1>5, <2>2
  <1> QED
    BY <1>1, <1>6, <1>7

(* So is a copy of an asset.                                                 *)
IsAssetCopy(copy, asset, to) ==
    copy.id = CopyId(to, asset.id) /\ copy.kind = asset.kind /\ copy.parts = asset.parts

LEMMA AssetsAreCopied ==
    ASSUME NEW d \in CanvasDocument, NEW board, NEW to \in Nat,
           NEW i \in DOMAIN d.assets, d.assets[i].id \in SourcesOn(d, board)
    PROVE  LET s == CopiedAssets(d, board, to)
           IN  \E n \in DOMAIN s : IsAssetCopy(s[n], d.assets[i], to)
  <1> DEFINE places == {j \in DOMAIN d.assets : d.assets[j].id \in SourcesOn(d, board)}
             sources == Kept(d.assets, places)
             s == [j \in DOMAIN sources |-> [sources[j] EXCEPT !.id = CopyId(to, @)]]
  <1>1. CopiedAssets(d, board, to) = s
    BY DEF CopiedAssets
  <1>2. d.assets \in Seq(VisualAsset) /\ places \subseteq DOMAIN d.assets /\ i \in places
    BY FieldTypes
  <1> HIDE DEF places
  <1>3. d.assets[i] \in ToSet(sources)
    BY <1>2, TheKeptStay
  <1> HIDE DEF sources
  <1>4. d.assets[i] \in VisualAsset
    BY <1>2, LenProperties, ElementOfSeq
  <1>5. PICK n \in DOMAIN s : s[n] = [d.assets[i] EXCEPT !.id = CopyId(to, @)]
    BY <1>3 DEF ToSet
  <1> HIDE DEF s
  <1>6. IsAssetCopy(s[n], d.assets[i], to)
    BY <1>4, <1>5 DEF IsAssetCopy, VisualAsset
  <1> QED
    BY <1>1, <1>5, <1>6

LEMMA CopiesAreAmongLayers ==
    ASSUME NEW s \in Seq(CanvasLayer), NEW t \in Seq(CanvasLayer)
    PROVE  \A i \in DOMAIN t : \E k \in DOMAIN (s \o t) : (s \o t)[k] = t[i]
  BY BothAreIn

LEMMA CopiesAreAmongAssets ==
    ASSUME NEW s \in Seq(VisualAsset), NEW t \in Seq(VisualAsset)
    PROVE  \A i \in DOMAIN t : \E k \in DOMAIN (s \o t) : (s \o t)[k] = t[i]
  BY BothAreIn

(* The layers of the duplicate are those there were and their copies.        *)
LEMMA DuplicateLayers ==
    ASSUME NEW e, NEW d, NEW id, NEW to, IsDuplicate(e, d, id, to)
    PROVE  /\ \A n \in DOMAIN e.layers :
                \/ \E i \in DOMAIN d.layers : e.layers[n] = d.layers[i]
                \/ \E i \in DOMAIN d.layers :
                        d.layers[i].board = id /\ IsLayerCopy(e.layers[n], d.layers[i], to)
           /\ \A i \in DOMAIN d.layers : d.layers[i].board = id =>
                /\ ~Has(d.layers, CopyId(to, d.layers[i].id))
                /\ \E n \in DOMAIN e.layers : IsLayerCopy(e.layers[n], d.layers[i], to)
  <1> DEFINE s == CopiedLayers(d, id, to)
  <1>1. /\ d \in CanvasDocument /\ to \in Nat /\ e.layers = d.layers \o s
        /\ \A n \in DOMAIN s : ~Has(d.layers, s[n].id)
    BY DEF IsDuplicate
  <1>2. d.layers \in Seq(CanvasLayer) /\ s \in Seq(CanvasLayer)
    BY <1>1, FieldTypes, CopiedLayersType
  <1>3. \A n \in DOMAIN s : \E i \in DOMAIN d.layers :
                d.layers[i].board = id /\ IsLayerCopy(s[n], d.layers[i], to)
    BY <1>1, LayersAreCopied
  <1>4. \A i \in DOMAIN d.layers : d.layers[i].board = id =>
                \E n \in DOMAIN s : IsLayerCopy(s[n], d.layers[i], to)
    BY <1>1, LayersAreCopied
  <1> HIDE DEF s
  <1>5. \A n \in DOMAIN (d.layers \o s) :
            \/ \E i \in DOMAIN d.layers : (d.layers \o s)[n] = d.layers[i]
            \/ \E i \in DOMAIN s : (d.layers \o s)[n] = s[i]
    BY <1>2, AppendedLayers
  <1>6. \A i \in DOMAIN s : \E n \in DOMAIN (d.layers \o s) : (d.layers \o s)[n] = s[i]
    BY <1>2, CopiesAreAmongLayers
  <1>7. \A n \in DOMAIN e.layers :
            \/ \E i \in DOMAIN d.layers : e.layers[n] = d.layers[i]
            \/ \E i \in DOMAIN d.layers :
                    d.layers[i].board = id /\ IsLayerCopy(e.layers[n], d.layers[i], to)
    BY <1>1, <1>3, <1>5
  <1>8. ASSUME NEW i \in DOMAIN d.layers, d.layers[i].board = id
        PROVE  /\ ~Has(d.layers, CopyId(to, d.layers[i].id))
               /\ \E n \in DOMAIN e.layers : IsLayerCopy(e.layers[n], d.layers[i], to)
    <2>1. PICK m \in DOMAIN s : IsLayerCopy(s[m], d.layers[i], to)
      BY <1>4, <1>8
    <2>2. PICK n \in DOMAIN e.layers : e.layers[n] = s[m]
      BY <1>1, <1>6
    <2>3. s[m].id = CopyId(to, d.layers[i].id)
      BY <2>1 DEF IsLayerCopy
    <2> QED
      BY <1>1, <2>1, <2>2, <2>3
  <1> QED
    BY <1>7, <1>8

(* A source of the artboard has a copy, which is found by its new id.        *)
LEMMA DuplicateAssets ==
    ASSUME NEW e, NEW d, NEW id, NEW to, IsDuplicate(e, d, id, to),
           NEW asset \in SourcesOn(d, id), Has(d.assets, asset)
    PROVE  /\ ~Has(d.assets, CopyId(to, asset)) /\ Has(e.assets, CopyId(to, asset))
           /\ Found(e.assets, CopyId(to, asset)).kind = Found(d.assets, asset).kind
           /\ Found(e.assets, CopyId(to, asset)).parts = Found(d.assets, asset).parts
  <1> DEFINE s == CopiedAssets(d, id, to)
             all == d.assets \o s
             i == Item(d.assets, asset)
             there == Item(e.assets, CopyId(to, asset))
  <1>1. /\ d \in CanvasDocument /\ to \in Nat /\ e.assets = all /\ Valid(e)
        /\ \A n \in DOMAIN s : ~Has(d.assets, s[n].id)
    BY DEF IsDuplicate
  <1>2. d.assets \in Seq(VisualAsset) /\ s \in Seq(VisualAsset)
    BY <1>1, FieldTypes, CopiedAssetsType
  <1>3. i \in DOMAIN d.assets /\ d.assets[i].id = asset /\ Found(d.assets, asset) = d.assets[i]
    BY ItemProperties DEF Found
  <1> HIDE DEF i
  <1>4. PICK m \in DOMAIN s : IsAssetCopy(s[m], d.assets[i], to)
    BY <1>1, <1>3, AssetsAreCopied
  <1> HIDE DEF s
  <1>5. \A k \in DOMAIN s : \E n \in DOMAIN all : all[n] = s[k]
    BY <1>2, CopiesAreAmongAssets
  <1> HIDE DEF all
  <1>6. PICK n \in DOMAIN e.assets : e.assets[n] = s[m]
    BY <1>1, <1>5
  <1>7. s[m].id = CopyId(to, asset)
    BY <1>3, <1>4 DEF IsAssetCopy
  <1>8. Has(e.assets, CopyId(to, asset))
    BY <1>6, <1>7 DEF Has
  <1>9. /\ there \in DOMAIN e.assets /\ e.assets[there].id = CopyId(to, asset)
        /\ Found(e.assets, CopyId(to, asset)) = e.assets[there]
    BY <1>8, ItemProperties DEF Found
  <1> HIDE DEF there
  <1>10. Distinct(e.assets)
    BY <1>1 DEF Valid, ValidAssets
  <1>11. there = n
    BY <1>6, <1>7, <1>9, <1>10 DEF Distinct
  <1> QED
    BY <1>1, <1>3, <1>4, <1>6, <1>7, <1>8, <1>9, <1>11 DEF IsAssetCopy

(* So are its keyframes, those there were and the copies.                    *)
LEMMA DuplicateKeys ==
    ASSUME NEW e, NEW d, NEW id, NEW to, IsDuplicate(e, d, id, to)
    PROVE  /\ \A layer, f, asset : HoldsKey(e, layer, f, asset) =>
                \/ HoldsKey(d, layer, f, asset)
                \/ \E l, a : /\ HoldsKey(d, l, f, a) /\ Layer(d, l).board = id
                             /\ layer = CopyId(to, l) /\ asset = CopyId(to, a)
           /\ \A layer, f, asset : HoldsKey(d, layer, f, asset) /\ Layer(d, layer).board = id =>
                HoldsKey(e, CopyId(to, layer), f, CopyId(to, asset))
  <1>1. /\ d \in CanvasDocument /\ to \in Nat
        /\ e.frames = [i \in DOMAIN d.frames |-> CopiedFrame(d, d.frames[i], id, to)]
    BY DEF IsDuplicate
  <1>2. DOMAIN e.frames = DOMAIN d.frames
    BY <1>1
  <1>3. ASSUME NEW i \in DOMAIN d.frames
        PROVE  /\ d.frames[i].keys \in Seq(FrameKeyframe)
               /\ e.frames[i].at = d.frames[i].at
               /\ e.frames[i].keys = CopiedKeys(d, d.frames[i].keys, id, to)
    <2>1. d.frames[i] \in CanvasFrame /\ d.frames[i].keys \in Seq(FrameKeyframe)
      BY <1>1, FieldTypes, FrameTypes
    <2> QED
      BY <1>1, <2>1 DEF CopiedFrame, CanvasFrame
  <1>4. ASSUME NEW layer, NEW f, NEW asset, HoldsKey(e, layer, f, asset)
        PROVE  \/ HoldsKey(d, layer, f, asset)
               \/ \E l, a : /\ HoldsKey(d, l, f, a) /\ Layer(d, l).board = id
                            /\ layer = CopyId(to, l) /\ asset = CopyId(to, a)
    <2>1. PICK i \in DOMAIN e.frames : \E n \in DOMAIN e.frames[i].keys :
                /\ e.frames[i].at = f
                /\ e.frames[i].keys[n].layer = layer /\ e.frames[i].keys[n].asset = asset
      BY <1>4 DEF HoldsKey
    <2> DEFINE keys == d.frames[i].keys
               s == CopiedKeys(d, keys, id, to)
    <2>2. PICK n \in DOMAIN s : s[n].layer = layer /\ s[n].asset = asset
      BY <1>2, <1>3, <2>1
    <2>3. keys \in Seq(FrameKeyframe) /\ d.frames[i].at = f /\ i \in DOMAIN d.frames
      BY <1>2, <1>3, <2>1
    <2>4. CopiesKeys(s, d, keys, id, to)
      BY <1>1, <2>3, CopiedKeysElements
    <2> HIDE DEF s
    <2>5. \A k \in DOMAIN keys : HoldsKey(d, keys[k].layer, f, keys[k].asset)
      BY <2>3 DEF HoldsKey
    <2> QED
      BY <2>2, <2>4, <2>5 DEF CopiesKeys, IsKeyCopy
  <1>5. ASSUME NEW layer, NEW f, NEW asset, HoldsKey(d, layer, f, asset), Layer(d, layer).board = id
        PROVE  HoldsKey(e, CopyId(to, layer), f, CopyId(to, asset))
    <2>1. PICK i \in DOMAIN d.frames : \E k \in DOMAIN d.frames[i].keys :
                /\ d.frames[i].at = f
                /\ d.frames[i].keys[k].layer = layer /\ d.frames[i].keys[k].asset = asset
      BY <1>5 DEF HoldsKey
    <2> DEFINE keys == d.frames[i].keys
               s == CopiedKeys(d, keys, id, to)
    <2>2. PICK k \in DOMAIN keys : keys[k].layer = layer /\ keys[k].asset = asset
      BY <2>1
    <2>3. keys \in Seq(FrameKeyframe) /\ e.frames[i].at = f /\ e.frames[i].keys = s
      BY <1>3, <2>1
    <2>4. CopiesKeys(s, d, keys, id, to)
      BY <1>1, <2>3, CopiedKeysElements
    <2> HIDE DEF s
    <2>5. PICK n \in DOMAIN s : s[n].layer = CopyId(to, layer) /\ s[n].asset = CopyId(to, asset)
      BY <1>5, <2>2, <2>4 DEF CopiesKeys, IsKeyCopy
    <2> QED
      BY <1>2, <2>1, <2>3, <2>5 DEF HoldsKey
  <1> QED
    BY <1>4, <1>5

(* Sources of layers are assets of a valid document.                         *)
LEMMA SourcesAreKnown ==
    ASSUME NEW d \in CanvasDocument, Valid(d), NEW n \in DOMAIN d.layers,
           NEW asset, IsSource(d, d.layers[n], asset)
    PROVE  Has(d.assets, asset)
  <1>1. CASE d.layers[n].keyed
    BY <1>1, KeysAreKnown DEF IsSource
  <1>2. CASE ~d.layers[n].keyed
    BY <1>2, LayerIsValid DEF IsSource, ValidSource, ReferenceIsValid
  <1> QED
    BY <1>1, <1>2

(* New ids of a layer and of an asset tell which one they are of.            *)
LEMMA CopyIdsDiffer ==
    ASSUME NEW to \in Nat, NEW a \in Nat, NEW b \in Nat, CopyId(to, a) = CopyId(to, b) PROVE a = b
  BY DEF CopyId

LEMMA HeldLayersHaveIds ==
    ASSUME NEW d \in CanvasDocument, NEW layer, NEW f, NEW asset, HoldsKey(d, layer, f, asset)
    PROVE  layer \in Nat
  <1>1. PICK i \in DOMAIN d.frames : \E k \in DOMAIN d.frames[i].keys :
            d.frames[i].keys[k].layer = layer
    BY DEF HoldsKey
  <1>2. PICK k \in DOMAIN d.frames[i].keys : d.frames[i].keys[k].layer = layer
    BY <1>1
  <1>3. d.frames[i].keys[k] \in FrameKeyframe
    BY FieldTypes, FrameTypes
  <1> QED
    BY <1>2, <1>3, KeyTypes

(* The copy of a layer has keyframes where the layer has them, for the       *)
(* copies of their assets.                                                   *)
LEMMA CopyHoldsKeys ==
    ASSUME NEW e, NEW d, NEW id, NEW to, IsDuplicate(e, d, id, to),
           NEW i \in DOMAIN d.layers, d.layers[i].board = id, NEW f
    PROVE  LET layer == d.layers[i].id
               copy == CopyId(to, layer)
           IN  /\ HasKey(e, copy, f) => HasKey(d, layer, f)
               /\ HasKey(d, layer, f) => /\ HasKey(e, copy, f)
                                         /\ KeyAsset(e, copy, f) = CopyId(to, KeyAsset(d, layer, f))
  <1> DEFINE layer == d.layers[i].id
             copy == CopyId(to, layer)
  <1>1. /\ d \in CanvasDocument /\ Valid(d) /\ e \in CanvasDocument /\ Valid(e) /\ to \in Nat
    BY DEF IsDuplicate
  <1>2. Layer(d, layer) = d.layers[i] /\ layer \in Nat /\ ~Has(d.layers, copy)
    BY <1>1, LayerIsValid, LayerFieldTypes, DuplicateLayers DEF Layer
  <1> HIDE DEF layer, copy
  <1>3. ASSUME HasKey(e, copy, f) PROVE HasKey(d, layer, f)
    <2>1. PICK asset : HoldsKey(e, copy, f, asset)
      BY <1>1, <1>3, KeysAreHeld
    <2>2. ~HoldsKey(d, copy, f, asset)
      BY <1>1, <1>2, KeysAreKnown
    <2>3. PICK l, a : /\ HoldsKey(d, l, f, a) /\ Layer(d, l).board = id
                      /\ copy = CopyId(to, l) /\ asset = CopyId(to, a)
      BY <2>1, <2>2, DuplicateKeys
    <2>4. l = layer
      BY <1>1, <1>2, <2>3, CopyIdsDiffer, HeldLayersHaveIds DEF copy
    <2> QED
      BY <1>1, <2>3, <2>4, KeysAreHeld
  <1>4. ASSUME HasKey(d, layer, f)
        PROVE  HasKey(e, copy, f) /\ KeyAsset(e, copy, f) = CopyId(to, KeyAsset(d, layer, f))
    <2>1. HoldsKey(d, layer, f, KeyAsset(d, layer, f))
      BY <1>1, <1>4, KeysAreHeld
    <2>2. HoldsKey(e, copy, f, CopyId(to, KeyAsset(d, layer, f)))
      BY <1>2, <2>1, DuplicateKeys DEF copy
    <2> QED
      BY <1>1, <2>2, KeysAreHeld
  <1> QED
    BY <1>3, <1>4 DEF layer, copy

(* It shows what the layer shows.                                            *)
LEMMA CopyShowsTheSame ==
    ASSUME NEW e, NEW d, NEW id, NEW to, IsDuplicate(e, d, id, to),
           NEW i \in DOMAIN d.layers, d.layers[i].board = id, NEW f \in Nat
    PROVE  Content(e, Layer(e, CopyId(to, d.layers[i].id)), f) = Content(d, d.layers[i], f)
  <1> DEFINE layer == d.layers[i]
  <1>1. /\ d \in CanvasDocument /\ Valid(d) /\ e \in CanvasDocument /\ Valid(e) /\ to \in Nat
        /\ e.frameCount = d.frameCount
    BY DEF IsDuplicate
  <1>2. PICK n \in DOMAIN e.layers : IsLayerCopy(e.layers[n], layer, to)
    BY DuplicateLayers
  <1> DEFINE copy == e.layers[n]
             owner == OwnerFrame(layer, f)
  <1>3. Layer(e, CopyId(to, layer.id)) = copy
    BY <1>1, <1>2, LayerIsValid DEF Layer, IsLayerCopy
  <1>4. /\ LayerExistsAt(e, copy, f) <=> LayerExistsAt(d, layer, f)
        /\ OwnerFrame(copy, f) = owner
    BY <1>1, <1>2 DEF LayerExistsAt, OwnerFrame, IsLayerCopy
  <1>5. CASE ~LayerExistsAt(d, layer, f)
    <2>1. ResolveAssetAt(d, layer, f) = 0 /\ ResolveAssetAt(e, copy, f) = 0
      BY <1>4, <1>5 DEF ResolveAssetAt
    <2> QED
      BY <1>3, <2>1 DEF Content
  <1>6. CASE LayerExistsAt(d, layer, f)
    <2> DEFINE asset == ResolvedId(d, layer, f)
    <2>1. ResolveAssetAt(d, layer, f) # 0 /\ ResolveAssetAt(e, copy, f) # 0
      BY <1>1, <1>4, <1>6, LayersShow
    <2>2. /\ ResolveAssetAt(d, layer, f) = asset /\ asset # 0 /\ Has(d.assets, asset)
          /\ ResolveAssetAt(e, copy, f) = ResolvedId(e, copy, f)
      BY <2>1 DEF ResolveAssetAt
    <2>3. ResolvedId(e, copy, f) = CopyId(to, asset) /\ IsSource(d, layer, asset)
      <3>1. CASE ~layer.keyed
        BY <1>2, <3>1 DEF ResolvedId, IsSource, IsLayerCopy
      <3>2. CASE layer.keyed
        <4>1. /\ \E k \in DOMAIN layer.index : layer.index[k] <= f
              /\ HasKey(d, layer.id, owner) /\ asset = KeyAsset(d, layer.id, owner)
          BY <2>2, <3>2 DEF ResolvedId
        <4>2. /\ HasKey(e, CopyId(to, layer.id), owner)
              /\ KeyAsset(e, CopyId(to, layer.id), owner) = CopyId(to, asset)
          BY <4>1, CopyHoldsKeys
        <4>3. /\ copy.keyed /\ copy.index = layer.index /\ copy.id = CopyId(to, layer.id)
          BY <1>2, <3>2 DEF IsLayerCopy
        <4>4. HoldsKey(d, layer.id, owner, asset)
          BY <1>1, <4>1, KeysAreHeld
        <4> HIDE DEF asset, owner, copy
        <4>5. ResolvedId(e, copy, f) = CopyId(to, asset)
          BY <1>4, <4>1, <4>2, <4>3 DEF ResolvedId
        <4> QED
          BY <3>2, <4>4, <4>5 DEF IsSource
      <3> QED
        BY <3>1, <3>2
    <2>4. asset \in SourcesOn(d, id)
      BY <1>1, <2>3, SourcesAre
    <2> HIDE DEF asset, copy
    <2>5. /\ Found(e.assets, CopyId(to, asset)).kind = Found(d.assets, asset).kind
          /\ Found(e.assets, CopyId(to, asset)).parts = Found(d.assets, asset).parts
      BY <2>2, <2>4, DuplicateAssets
    <2> QED
      BY <1>3, <2>1, <2>2, <2>3, <2>5 DEF Content
  <1> QED
    BY <1>5, <1>6

(* Its artboard is one, and not the canvas.                                  *)
LEMMA DuplicateIsNotTheCanvas ==
    ASSUME NEW e, NEW d, NEW id, NEW to, IsDuplicate(e, d, id, to) PROVE to # 0
  <1>1. e \in CanvasDocument /\ Valid(e) /\ Has(e.boards, to)
    BY DEF IsDuplicate
  <1> QED
    BY <1>1, ItemProperties DEF Valid, ValidArtboards

(* No asset is a source both of a copy and of another layer.                 *)
LEMMA CopiesShareNoSource ==
    ASSUME NEW e, NEW d, NEW id, NEW to, IsDuplicate(e, d, id, to),
           NEW board, board # to, NEW asset \in SourcesOn(e, to)
    PROVE  asset \notin SourcesOn(e, board)
  <1>1. /\ d \in CanvasDocument /\ Valid(d) /\ e \in CanvasDocument /\ Valid(e) /\ to \in Nat
        /\ ~Has(d.boards, to)
    BY DEF IsDuplicate
  <1>2. ASSUME NEW i \in DOMAIN d.layers, d.layers[i].board = to PROVE to = 0
    BY <1>1, <1>2, LayerIsValid DEF ValidProperties
  <1>3. ~Has(d.assets, asset)
    <2>1. PICK n \in DOMAIN e.layers : e.layers[n].board = to /\ IsSource(e, e.layers[n], asset)
      BY <1>1, SourcesAre
    <2>2. PICK i \in DOMAIN d.layers :
                d.layers[i].board = id /\ IsLayerCopy(e.layers[n], d.layers[i], to)
      BY <1>2, <2>1, DuplicateIsNotTheCanvas, DuplicateLayers
    <2>3. PICK source : IsSource(d, d.layers[i], source) /\ asset = CopyId(to, source)
      <3>1. CASE ~d.layers[i].keyed
        BY <2>1, <2>2, <3>1 DEF IsSource, IsLayerCopy
      <3>2. CASE d.layers[i].keyed
        <4>1. PICK f : HoldsKey(e, CopyId(to, d.layers[i].id), f, asset)
          BY <2>1, <2>2, <3>2 DEF IsSource, IsLayerCopy
        <4>2. /\ HasKey(e, CopyId(to, d.layers[i].id), f)
              /\ asset = KeyAsset(e, CopyId(to, d.layers[i].id), f)
          BY <1>1, <4>1, KeysAreHeld
        <4>3. /\ HasKey(d, d.layers[i].id, f)
              /\ asset = CopyId(to, KeyAsset(d, d.layers[i].id, f))
          BY <2>2, <4>2, CopyHoldsKeys
        <4>4. HoldsKey(d, d.layers[i].id, f, KeyAsset(d, d.layers[i].id, f))
          BY <1>1, <4>3, KeysAreHeld
        <4> QED
          BY <3>2, <4>3, <4>4 DEF IsSource
      <3> QED
        BY <3>1, <3>2
    <2>4. source \in SourcesOn(d, id)
      BY <1>1, <2>2, <2>3, SourcesAre
    <2>5. Has(d.assets, source)
      BY <1>1, <2>3, SourcesAreKnown
    <2> QED
      BY <2>3, <2>4, <2>5, DuplicateAssets
  <1>4. ASSUME asset \in SourcesOn(e, board) PROVE Has(d.assets, asset)
    <2>1. PICK n \in DOMAIN e.layers : e.layers[n].board = board /\ IsSource(e, e.layers[n], asset)
      BY <1>1, <1>4, SourcesAre
    <2>2. PICK i \in DOMAIN d.layers : e.layers[n] = d.layers[i]
      BY <2>1, DuplicateLayers DEF IsLayerCopy
    <2>3. IsSource(d, d.layers[i], asset)
      <3>1. CASE ~d.layers[i].keyed
        BY <2>1, <2>2, <3>1 DEF IsSource
      <3>2. CASE d.layers[i].keyed
        <4> DEFINE layer == d.layers[i].id
        <4>1. PICK f : HoldsKey(e, layer, f, asset)
          BY <2>1, <2>2, <3>2 DEF IsSource
        <4>2. Has(d.layers, layer)
          BY DEF Has
        <4> HIDE DEF layer
        <4>3. ASSUME NEW l, NEW a, HoldsKey(d, l, f, a), Layer(d, l).board = id,
                     layer = CopyId(to, l)
              PROVE  FALSE
          <5>1. Has(d.layers, l)
            BY <1>1, <4>3, KeysAreKnown
          <5>2. PICK j \in DOMAIN d.layers : d.layers[j].id = l /\ d.layers[j].board = id
            BY <1>1, <4>3, <5>1, LayerFound
          <5> QED
            BY <4>2, <4>3, <5>2, DuplicateLayers
        <4>4. HoldsKey(d, layer, f, asset)
          BY <4>1, <4>3, DuplicateKeys
        <4> QED
          BY <3>2, <4>4 DEF IsSource, layer
      <3> QED
        BY <3>1, <3>2
    <2> QED
      BY <1>1, <2>3, SourcesAreKnown
  <1> QED
    BY <1>3, <1>4

-----------------------------------------------------------------------------
(* The steps that copy                                                       *)

CopyKept ==
    Edited /\ touched'.copy # <<0, 0>> =>
        LET from == touched'.copy[1]
            to == touched'.copy[2]
        IN  /\ \A layer \in ToSet(OnBoard(doc, from)), f \in Frames :
                    Content(doc', Layer(doc', CopyId(to, layer.id)), f) = Content(doc, layer, f)
            /\ SourcesOn(doc', to) \intersect
                  UNION {SourcesOn(doc', b) : b \in {l.board : l \in ToSet(doc'.layers)} \ {to}} = {}

(* Only one call copies an artboard.                                         *)
CopiesNothing(touch) == touch.copy = <<0, 0>>

LEMMA CallsCopyNothing ==
    /\ CopiesNothing(Nothing)
    /\ \A id, f : CopiesNothing(Held(id, f))
    /\ \A pairs : CopiesNothing(Shows(pairs))
    /\ \A id : /\ CopiesNothing(Asset(id)) /\ CopiesNothing(Whole(id))
               /\ \A name : CopiesNothing([Whole(id) EXCEPT !.name = name])
    /\ \A layers : CopiesNothing(Moves(layers))
    /\ \A name : CopiesNothing([Nothing EXCEPT !.name = name])
  BY DEF CopiesNothing, Nothing, Held, Shows, Asset, Whole, Moves

LEMMA PerformCopiesNothing ==
    ASSUME DocumentTypeOK, NEW outcome, NEW touch, Perform(outcome, touch), CopiesNothing(touch)
    PROVE  CopyKept
  <1>1. Edited => touched'.copy = <<0, 0>>
    BY PerformApplies DEF CopiesNothing
  <1> QED
    BY <1>1 DEF CopyKept

LEMMA PerformDuplicates ==
    ASSUME DocumentCallsAssumption, DocumentTypeOK, NEW b \in BoardIds, NEW c \in BoardIds,
           NEW x \in Places, NEW at \in Indexes,
           Perform(DuplicateArtboard(doc, b, c, x, at), [Nothing EXCEPT !.copy = <<b, c>>])
    PROVE  CopyKept
  <1> SUFFICES ASSUME Edited
               PROVE  /\ touched'.copy[1] = b /\ touched'.copy[2] = c
                      /\ \A layer \in ToSet(OnBoard(doc, b)), f \in Frames :
                            Content(doc', Layer(doc', CopyId(c, layer.id)), f)
                                = Content(doc, layer, f)
                      /\ SourcesOn(doc', c) \intersect
                            UNION {SourcesOn(doc', board) :
                                    board \in {l.board : l \in ToSet(doc'.layers)} \ {c}} = {}
    BY DEF CopyKept
  <1> DEFINE outcome == DuplicateArtboard(doc, b, c, x, at)
             touch == [Nothing EXCEPT !.copy = <<b, c>>]
  <1>1. /\ b \in Nat /\ c \in Nat /\ x \in Int /\ at \in Nat \union {AppendIndex}
        /\ doc \in CanvasDocument
    BY CallTypes DEF DocumentCallsAssumption, DocumentTypeOK
  <1>2. outcome.result = "applied" /\ doc' = outcome.doc /\ touched' = touch
    BY PerformApplies
  <1>3. touch.copy[1] = b /\ touch.copy[2] = c
    BY DEF Nothing
  <1>4. IsDuplicate(doc', doc, b, c)
    BY <1>1, <1>2, DuplicateArtboardDuplicates
  <1> HIDE DEF outcome, touch
  <1>5. ASSUME NEW layer \in ToSet(OnBoard(doc, b)), NEW f \in Frames
        PROVE  Content(doc', Layer(doc', CopyId(c, layer.id)), f) = Content(doc, layer, f)
    <2>1. PICK i \in DOMAIN doc.layers : layer = doc.layers[i] /\ doc.layers[i].board = b
      BY <1>1, OnBoardLayers
    <2>2. f \in Nat
      BY <1>1, FieldTypes DEF Frames
    <2> QED
      BY <1>4, <2>1, <2>2, CopyShowsTheSame
  <1>6. ASSUME NEW board, board # c PROVE SourcesOn(doc', c) \intersect SourcesOn(doc', board) = {}
    BY <1>4, <1>6, CopiesShareNoSource
  <1> QED
    BY <1>2, <1>3, <1>5, <1>6

LEMMA CopyStep ==
    ASSUME DocumentCallsAssumption, DocumentTypeOK, [Next]_vars PROVE [CopyKept]_vars
  <1>1. CASE UNCHANGED vars
    BY <1>1
  <1>2. CASE Bind \/ Unbind \/ FileGoes
    <2>1. ~Edited
      BY <1>2 DEF Bind, Unbind, FileGoes, countVars, DocumentTypeOK, Edited
    <2> QED
      BY <2>1 DEF CopyKept
  <1>3. CASE EditCanvas \/ EditMetadata
    BY <1>3, CallsCopyNothing, PerformCopiesNothing DEF EditCanvas, EditMetadata
  <1>4. CASE EditAssets
    BY <1>4, CallsCopyNothing, PerformCopiesNothing DEF EditAssets
  <1>5. CASE EditPaths
    BY <1>5, CallsCopyNothing, PerformCopiesNothing DEF EditPaths
  <1>6. CASE EditAudio
    BY <1>6, CallsCopyNothing, PerformCopiesNothing DEF EditAudio
  <1>7. CASE EditClips
    BY <1>7, CallsCopyNothing, PerformCopiesNothing DEF EditClips
  <1>8. CASE EditLayers
    BY <1>8, CallsCopyNothing, PerformCopiesNothing DEF EditLayers
  <1>9. CASE EditLayerProperties
    BY <1>9, CallsCopyNothing, PerformCopiesNothing DEF EditLayerProperties
  <1>10. CASE EditSources
    BY <1>10, CallsCopyNothing, PerformCopiesNothing DEF EditSources
  <1>11. CASE EditKeyframes
    BY <1>11, CallsCopyNothing, PerformCopiesNothing DEF EditKeyframes
  <1>12. CASE EditControlAssets
    BY <1>12, CallsCopyNothing, PerformCopiesNothing DEF EditControlAssets
  <1>13. CASE EditControlLayers
    BY <1>13, CallsCopyNothing, PerformCopiesNothing DEF EditControlLayers
  <1>14. CASE EditArtboard
    BY <1>14, CallsCopyNothing, PerformCopiesNothing, PerformDuplicates DEF EditArtboard
  <1> QED
    BY <1>1, <1>2, <1>3, <1>4, <1>5, <1>6, <1>7, <1>8, <1>9, <1>10, <1>11, <1>12, <1>13, <1>14
       DEF Next

(* The copy of an artboard shows at every frame what the original shows, and *)
(* shares no source with any other layer, so that editing one leaves the     *)
(* other alone: duplicateArtboard() copies every asset that is a source of a *)
(* layer, by itself or through a keyframe, gives the keyframes of the copies *)
(* the copied assets, and refuses ids that are taken                         *)
(* (DocumentEditor.cpp, editArtboards()).                                    *)
THEOREM DuplicatesAreIndependentCorrect ==
    DocumentCallsAssumption => (Spec => DuplicatesAreIndependent)
  <1> SUFFICES ASSUME DocumentCallsAssumption PROVE Spec => DuplicatesAreIndependent
    OBVIOUS
  <1>1. DocumentTypeOK /\ [Next]_vars =>
            [Edited /\ touched'.copy # <<0, 0>> =>
                LET from == touched'.copy[1]
                    to == touched'.copy[2]
                IN  /\ \A layer \in ToSet(OnBoard(doc, from)), f \in Frames :
                            Content(doc', Layer(doc', CopyId(to, layer.id)), f)
                                = Content(doc, layer, f)
                    /\ SourcesOn(doc', to) \intersect
                          UNION {SourcesOn(doc', b) :
                                    b \in {l.board : l \in ToSet(doc'.layers)} \ {to}} = {}]_vars
    BY CopyStep DEF CopyKept
  <1>2. Spec => []DocumentTypeOK
    BY DocumentTypeCorrect
  <1> QED
    BY <1>1, <1>2, PTL DEF Spec, DuplicatesAreIndependent
===============================================================================
