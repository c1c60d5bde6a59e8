\* Two repositories; three callers share the first one.
SPECIFICATION FairLockSpec
CONSTANTS
  c1 = c1
  c2 = c2
  c3 = c3
  c4 = c4
  r1 = r1
  r2 = r2
  Callers = {c1, c2, c3, c4}
  Repositories = {r1, r2}
  RepositoryOf <- MCRepositoryOf
  Keys = {k1, k2}
  Mutexes = {m1, m2, m3, m4}
  NoMutex = NoMutex
  NoCaller = NoCaller
  NoKey = NoKey
INVARIANTS
  LockTypeOK
  MutualExclusion
  TableMatchesUse
  BlockedOnlyByOwnKey
PROPERTIES
  EveryCallReturns
