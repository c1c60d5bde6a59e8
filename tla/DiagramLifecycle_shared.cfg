\* Two resources that can name one output; links turn, operations fail half-way.
SPECIFICATION Spec
CONSTANTS
  f1 = f1
  f2 = f2
  r1 = r1
  r2 = r2
  l1 = l1
  l2 = l2
  s1 = s1
  s2 = s2
  bad = bad
  b1 = b1
  b2 = b2
  x = x
  y = y
  Contents = {x, y}
  Absent = Absent
  NoDigest = NoDigest
  Resources = {r1, r2}
  Files = {f1, f2}
  Irregular = Irregular
  Sources = {s1, s2}
  Builds = {b1, b2}
  Converted <- Conversion
  Invalid = Invalid
  Links = {l1, l2}
  RealFile <- LinkedPaths
  LexicalFile <- LinkedPaths
  LexicalId = LexicalId
  NoState = NoState
  NoPlan = NoPlan
  NoWrite = NoWrite
  Nobody = Nobody
  Outsider = Outsider
  Faults = TRUE
  MaxChanges = 2
CHECK_DEADLOCK FALSE
PROPERTIES
  WritesOnlyWhatWasPlanned
  KeepsForeignOutput
