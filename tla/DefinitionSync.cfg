SPECIFICATION Spec
CONSTANTS
    Kinds <- MCKinds
    Services <- MCServices
    Variable <- MCVariable
    TypeNames <- MCTypeNames
    AwsPrefixed <- MCAwsPrefixed
    Releases <- AllReleases
    ServiceRank <- MCServiceRank
    Starts <- MCStarts
    EditPaths <- MCEditPaths
    Events <- MCEvents
    MaxEvents = 2
    MaxLost = 1
INVARIANTS
    SyncTypeOK
    SuccessPassesCheck
    UpdatedBuildKnowsRelease
    CheckedBuildKnowsSnapshot
    HandwrittenIsKept
PROPERTIES
    SyncConverges
