\* Two operations and another program that edits the output, except in the one-call window.
SPECIFICATION FairSpec
CONSTANTS
  r1 = r1
  real = real
  out = out
  x = x
  y = y
  Callers = {c1, c2}
  Repositories = {r1}
  RepositoryOf <- OneRepository
  Keys = {real}
  Mutexes = {m1, m2}
  NoMutex = NoMutex
  NoCaller = NoCaller
  NoKey = NoKey
  Files = {out}
  FileOf <- OneFile
  Contents = {x, y}
  Absent = Absent
  Symlink = Symlink
  Directory = Directory
  Torn = Torn
  NoDigest = NoDigest
  Requests <- AllRequests
  NoRequest = NoRequest
  NoAnswer = NoAnswer
  OutsideWrites = {Absent, y, Symlink}
  RaceWindow = FALSE
  PowerMayFail = FALSE
PROPERTIES
  EveryOperationReturns
  TouchesOnlyManaged
  ImplementsOutputStore
