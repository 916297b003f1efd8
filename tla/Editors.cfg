SPECIFICATION EditorsSpec
CONSTANTS
    Sessions <- MCSessions
    AssetIds = {1, 2, 3, 7}
    LayerIds = {1, 2, 3}
    BoardIds = {1, 2, 3}
    AudioIds = {4, 5, 6}
    FrameNumbers = {0, 1, 2}
    Counts = {1, 2, 4}
    Places <- MCPlaces
    Indexes <- MCIndexes
    Values = {"a", "bad"}
    Appearances <- MCAppearances
    Ranges <- MCRanges
    Placements <- MCPlacements
    NewLayers <- MCNewLayers
    TransformFits <- MCTransformFits
    MaskFits <- MCMaskFits
    FiltersApply <- MCFiltersApply
    SerializationLimits <- MCLimits
    Inputs <- MCInputs
    Replacements <- MCReplacements
    MaxOthers = 2
    TimelineSessions <- MCTimelineSessions
    TimelineIds = {1, 2, 3}
    TimelinePlaces <- MCTimelinePlaces
    Names = {"none", "b"}
    DrawingIds = {1, 2}
    Extents = {0, 1, 2}
    Numbers = {1, 2, 3}
    Plane = {"p", "q", "nan"}
    Points = {"p", "nan"}
    NaN = "nan"
    NewPaths <- MCNewPaths
    NewCommands <- MCNewCommands
    OtherDrawings <- MCOtherDrawings
    MaxEdits = 2
CHECK_DEADLOCK FALSE
INVARIANTS
    ReferencesResolve
    FileStaysValid
    FileReadsBack
    TimelineIsConnected
    RepresentationsAreInterchangeable
    ClipsPlayExactly
    EveryFrameRenders
PROPERTIES
    RejectedEditLeavesNoTrace
    ContentIsLocal
    PlacementIsLocal
    DuplicatesAreIndependent
    UpgradesKeepContent
    EditsShowInTheDrawing
