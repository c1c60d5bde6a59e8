SPECIFICATION Spec
CONSTANTS
  none = none
  Missing <- none
  Zone <- MCZone
  ZoneName <- MCZoneName
  ZoneRegion <- MCZoneRegion
  Graphs <- MCGraphs
INVARIANTS
  AmbiguousStaysNeutral
CHECK_DEADLOCK FALSE
