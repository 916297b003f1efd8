SPECIFICATION Spec
CONSTANTS
    sheet = sheet
    plane = plane
    moving = moving
    still = still
    Asset = {sheet, plane}
    Chunked = {plane}
    NoAsset = NoAsset
    Content = {blank, paint}
    Gone = Gone
    HistoryLimit = 2
    MaxRevision = 3
    Layer = {moving, still}
    NoLayer = NoLayer
    Frame = {0, 1}
    Source <- Sources
INVARIANTS
    CountsFollowHistory
CHECK_DEADLOCK FALSE
