SPECIFICATION MCSpec

CONSTANTS
    NoData = NoData
    Requests <- MCRequests
    PageSizes <- MCPageSizes
    MaxMoves = 3
    MaxEvents = 1
    Records <- MCRecords
    Existing <- MCExisting
    RowsPerPage = 2
    MaxActs = 2
    MaxFaults = 1
    SubAdmins <- MCSubAdmins
    Scripts <- MCScripts
    AssignedFirst <- MCAssignedFirst
    MaxOpenings = 2
    MaxSaves = 1
    MaxUpsets = 1
    Fields <- MCFields
    MaxValues = 3
    MaxSteps = 2
    MaxMishaps = 1
    Uploads <- MCUploads
    MaxRequestsSent = 2
    MaxRoutes = 5
    MaxCallsSent = 4
    MaxTroubles = 1
    Items <- MCItems
    Price <- MCPrice
    Matches <- MCMatches
    ViewSizes <- MCViewSizes
    MaxReloads = 3
    MaxCount = 3
    MaxChanges = 1

INVARIANTS
    ReasonBelongsToRequest
    SavedDataBelongsToRecord
    SavedForItsTarget
    FreshProofKept
    PagesCoverMatches
    GridAddsUp
    OwnWritesShown
PROPERTIES
    EditsYieldToNewsOnly
CHECK_DEADLOCK FALSE
