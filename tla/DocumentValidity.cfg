SPECIFICATION Spec
CONSTANTS
    Sessions <- MCSessions
    AssetIds = {1, 2, 3, 7}
    LayerIds = {1, 2, 3}
    BoardIds = {1, 2, 3}
    AudioIds = {4, 5, 6}
    FrameNumbers = {0, 1, 2}
    Counts = {1, 2, 4}
    Places <- MCPlaces
    Indexes <- MCIndexes
    Values = {"a", "bad"}
    Appearances <- MCAppearances
    Ranges <- MCRanges
    Placements <- MCPlacements
    NewLayers <- MCNewLayers
CHECK_DEADLOCK FALSE
INVARIANT AcceptedEditsKeepTheDocumentValid
