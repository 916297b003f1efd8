SPECIFICATION Spec
CONSTANTS
    RenderTilePixelSize = 1
    MaximumResidentTiles = 6
    MaximumResidentLayerTiles = 6
    Width = {6}
    ItemWidth = 2
    Viewport <- Zooming
    HomeViewport <- HomeWide
    Layers = 1
    Content = {c0}
    Frame = {0}
    Board = {"all"}
    Binding = {"memory"}
    RenderFails = FALSE
    MaxGeneration = 2
    MaxRequest = 4
INVARIANTS
    PresentationIsComplete
CHECK_DEADLOCK FALSE
