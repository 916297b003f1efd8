SPECIFICATION EditingSpec
CONSTANTS
    sheet = sheet
    plane = plane
    moving = moving
    still = still
    Asset = {sheet, plane}
    Chunked = {plane}
    NoAsset = NoAsset
    Content = {blank, paint}
    Gone = Gone
    HistoryLimit = 2
    MaxRevision = 4
    CanvasRevisions = 2
    CanvasHistory = 1
    Owned = sheet
    Layer = {moving, still}
    NoLayer = NoLayer
    Frame = {0, 1}
    Source <- Sources
SYMMETRY Contents
INVARIANTS
    EveryStepShows
    EditsWhatIsShown
PROPERTIES
    GesturesAreUndoSteps
    ChangesAreNoted
    CallsAreAnnounced
    EditsAreRendered
    SeeksSettleStrokes
CHECK_DEADLOCK FALSE
