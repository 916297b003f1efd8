SPECIFICATION FairSpec
CONSTANTS
    RenderTilePixelSize = 1
    MaximumResidentTiles = 5
    MaximumResidentLayerTiles = 6
    Width = {1, 5}
    ItemWidth = 2
    Viewport <- Panning
    HomeViewport <- Home
    Layers = 2
    Content = {c0, c1}
    Frame = {0, 1}
    Board = {"all", "b1"}
    Binding = {"memory", "file"}
    RenderFails = TRUE
    MaxGeneration = 2
    MaxRequest = 4
INVARIANTS
    PresentationIsComplete
    TilesDoNotOverlap
    CurrentTilesShowTheSnapshot
    InvalidShowsNothing
PROPERTIES
    VisibleIsShown
CHECK_DEADLOCK FALSE
