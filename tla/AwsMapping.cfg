SPECIFICATION Spec
CONSTANTS
  none = none
  Missing <- none
  Zone <- MCZone
  ZoneName <- MCZoneName
  ZoneRegion <- MCZoneRegion
  Graphs <- MCGraphs
INVARIANTS
  MappingTypeOK
  NothingLost
  OrdinaryIsAccepted
  IdentitiesDistinct
  VisibilityIsShown
  VpcDependencyAccounted
CHECK_DEADLOCK FALSE
