\* Three operations and an editor of the output; processes and the machine may die.
SPECIFICATION Spec
CONSTANTS
  r1 = r1
  real = real
  out = out
  x = x
  y = y
  Callers = {c1, c2, c3}
  Repositories = {r1}
  RepositoryOf <- OneRepository
  Keys = {real}
  Mutexes = {m1, m2, m3}
  NoMutex = NoMutex
  NoCaller = NoCaller
  NoKey = NoKey
  Files = {out}
  FileOf <- OneFile
  Contents = {x, y}
  Absent = Absent
  Symlink = Symlink
  Directory = Directory
  Torn = Torn
  NoDigest = NoDigest
  Requests <- CoreRequests
  NoRequest = NoRequest
  NoAnswer = NoAnswer
  OutsideWrites = {Absent, Directory}
  RaceWindow = TRUE
  PowerMayFail = TRUE
SYMMETRY Interchangeable
INVARIANTS
  StoreTypeOK
  NoTornOutput
  AcknowledgedIsDurable
