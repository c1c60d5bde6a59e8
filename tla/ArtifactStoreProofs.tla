-------------------------- MODULE ArtifactStoreProofs --------------------------
(*****************************************************************************)
(* Proofs about the lock table of KeyedLocks, for any finite set of callers, *)
(* any repositories, paths and mutexes; and, resting on them, proofs about   *)
(* ArtifactStore, for any number of callers, repositories, paths, files and  *)
(* contents: its safety invariants, and that it implements OutputStore under *)
(* the conditions the code relies on and cannot check.                       *)
(*****************************************************************************)
EXTENDS ArtifactStore, FiniteSetTheorems, TLAPS

-------------------------------------------------------------------------------
(* The lock table: its inductive invariant.                                  *)

\* A locked mutex belongs to a call that is inside withLock with it, and every
\* call that is inside has locked its mutex.
OwnersAreInside ==
  /\ \A m \in Mutexes : owner[m] # NoCaller =>
       pc[owner[m]] = "inside" /\ lock[owner[m]] = m
  /\ \A c \in Callers : pc[c] = "inside" => owner[lock[c]] = c

\* A running call knows its path and its mutex.
LocalsKnown ==
  \A c \in Callers : pc[c] # "idle" => key[c] \in Keys /\ lock[c] \in Mutexes

\* One mutex serves one path of one repository.
MutexOfOnePath ==
  \A c, d \in Callers :
    /\ pc[c] # "idle"
    /\ pc[d] # "idle"
    /\ lock[c] = lock[d]
    => RepositoryOf[c] = RepositoryOf[d] /\ key[c] = key[d]

\* The inductive invariant.
LockInv ==
  /\ LockTypeOK
  /\ LocalsKnown
  /\ OwnersAreInside
  /\ MutexOfOnePath
  /\ TableMatchesUse

USE CallersAssumption

-------------------------------------------------------------------------------

\* The users of a path are finitely many, so they can be counted.
LEMMA UsersFinite ==
  ASSUME NEW r, NEW k
  PROVE  /\ IsFiniteSet(Users(r, k))
         /\ Cardinality(Users(r, k)) \in Nat
         /\ Cardinality(Users(r, k)) = 0 <=> Users(r, k) = {}
<1>1. Users(r, k) \subseteq Callers
  BY DEF Users
<1>2. IsFiniteSet(Users(r, k))
  BY <1>1, FS_Subset
<1> QED
  BY <1>2, FS_CardinalityType, FS_EmptySet

\* Under the invariant a path has no entry exactly while it has no users.
LEMMA EntryIffUsed ==
  ASSUME TableMatchesUse, NEW r \in Repositories, NEW k \in Keys
  PROVE  locks[r][k] = NoMutex <=> Users(r, k) = {}
  BY UsersFinite DEF TableMatchesUse

LEMMA LockInitInv == LockInit => LockInv
<1> SUFFICES ASSUME LockInit PROVE LockInv
  OBVIOUS
<1>1. \A r, k : Users(r, k) = {}
  BY DEF LockInit, Users
<1>2. LockTypeOK
  BY DEF LockInit, LockTypeOK
<1>3. TableMatchesUse
  <2> SUFFICES ASSUME NEW r \in Repositories, NEW k \in Keys
               PROVE  /\ references[r][k] = Cardinality(Users(r, k))
                      /\ locks[r][k] = NoMutex <=> references[r][k] = 0
                      /\ \A c \in Users(r, k) : lock[c] = locks[r][k]
    BY DEF TableMatchesUse
  <2> QED
    BY <1>1, FS_EmptySet DEF LockInit
<1>4. LocalsKnown /\ OwnersAreInside /\ MutexOfOnePath
  BY DEF LockInit, LocalsKnown, OwnersAreInside, MutexOfOnePath
<1> QED
  BY <1>2, <1>3, <1>4 DEF LockInv

-------------------------------------------------------------------------------
(* One lemma per action.                                                     *)

LEMMA RegisterInv ==
  ASSUME LockInv, NEW c \in Callers, NEW k \in Keys, Register(c, k)
  PROVE  LockInv'
<1> DEFINE r == RepositoryOf[c]
<1> USE DEF LockInv
<1>1. PICK m \in Mutexes :
        /\ IF locks[r][k] = NoMutex THEN m \notin Reachable ELSE m = locks[r][k]
        /\ locks' = [locks EXCEPT ![r][k] = m]
        /\ lock' = [lock EXCEPT ![c] = m]
  BY DEF Register
<1>2. r \in Repositories /\ m # NoMutex /\ pc[c] = "idle"
  BY DEF Register
<1>3. LockTypeOK'
  BY <1>1, <1>2 DEF Register, LockTypeOK
<1>4. LocalsKnown'
  BY <1>1 DEF Register, LocalsKnown, LockTypeOK
<1>5. OwnersAreInside'
  BY <1>1, <1>2 DEF Register, OwnersAreInside, LockTypeOK
<1>6. ASSUME NEW d \in Callers, d # c, pc[d] # "idle", lock[d] = m
      PROVE  RepositoryOf[d] = r /\ key[d] = k
  <2>1. d \in Callers /\ m \in Reachable
    BY <1>6 DEF Reachable
  <2>2. locks[r][k] # NoMutex /\ m = locks[r][k]
    BY <1>1, <2>1
  <2>3. PICK u \in Users(r, k) : TRUE
    BY <1>2, <2>2, EntryIffUsed
  <2>4. u \in Callers /\ pc[u] # "idle" /\ lock[u] = m /\ RepositoryOf[u] = r /\ key[u] = k
    BY <1>2, <2>2, <2>3 DEF Users, TableMatchesUse
  <2> QED
    BY <1>6, <2>4 DEF MutexOfOnePath
<1>7. MutexOfOnePath'
  BY <1>1, <1>2, <1>6 DEF Register, MutexOfOnePath, LockTypeOK
<1>8. TableMatchesUse'
  <2> SUFFICES ASSUME NEW q \in Repositories, NEW j \in Keys
               PROVE  /\ references'[q][j] = Cardinality(Users(q, j)')
                      /\ locks'[q][j] = NoMutex <=> references'[q][j] = 0
                      /\ \A d \in Users(q, j)' : lock'[d] = locks'[q][j]
    BY DEF TableMatchesUse
  <2>1. CASE q = r /\ j = k
    <3>1. Users(r, k)' = Users(r, k) \cup {c}
      BY <1>2 DEF Users, Register, LockTypeOK
    <3>2. c \notin Users(r, k)
      BY <1>2 DEF Users
    <3>3. Cardinality(Users(r, k)') = Cardinality(Users(r, k)) + 1
      BY <3>1, <3>2, UsersFinite, FS_AddElement
    <3>4. references'[r][k] = references[r][k] + 1 /\ locks'[r][k] = m
      BY <1>1, <1>2 DEF Register, LockTypeOK
    <3>5. references[r][k] = Cardinality(Users(r, k)) /\ references[r][k] \in Nat
      BY <1>2 DEF TableMatchesUse, LockTypeOK
    <3>6. \A d \in Users(r, k) : lock[d] = m
      BY <1>1, <1>2, EntryIffUsed DEF TableMatchesUse
    <3>7. \A d \in Users(r, k)' : lock'[d] = m
      BY <1>1, <3>1, <3>2, <3>6 DEF LockTypeOK, Users
    <3> QED
      BY <1>2, <2>1, <3>3, <3>4, <3>5, <3>7
  <2>2. CASE ~(q = r /\ j = k)
    <3>1. Users(q, j)' = Users(q, j)
      BY <1>2, <2>2 DEF Users, Register, LockTypeOK
    <3>2. references'[q][j] = references[q][j] /\ locks'[q][j] = locks[q][j]
      BY <1>1, <1>2, <2>2 DEF Register, LockTypeOK
    <3>3. \A d \in Users(q, j) : lock'[d] = lock[d]
      BY <1>1, <1>2 DEF Users, LockTypeOK
    <3> QED
      BY <3>1, <3>2, <3>3 DEF TableMatchesUse
  <2> QED
    BY <2>1, <2>2
<1> QED
  BY <1>3, <1>4, <1>5, <1>7, <1>8

LEMMA LockStepInv ==
  ASSUME LockInv, NEW c \in Callers, Lock(c)
  PROVE  LockInv'
<1> USE DEF LockInv
<1>1. pc[c] = "waiting" /\ lock[c] \in Mutexes
  BY DEF Lock, LocalsKnown
<1>2. LockTypeOK'
  BY <1>1 DEF Lock, LockTypeOK
<1>3. LocalsKnown'
  BY <1>1 DEF Lock, LocalsKnown, LockTypeOK
<1>4. OwnersAreInside'
  BY <1>1 DEF Lock, OwnersAreInside, LockTypeOK
<1>5. MutexOfOnePath'
  BY <1>1 DEF Lock, MutexOfOnePath, LockTypeOK
<1>6. \A r, k : Users(r, k)' = Users(r, k)
  BY <1>1 DEF Lock, Users, LockTypeOK
<1>7. TableMatchesUse'
  BY <1>6 DEF Lock, TableMatchesUse
<1> QED
  BY <1>2, <1>3, <1>4, <1>5, <1>7

LEMMA UnlockInv ==
  ASSUME LockInv, NEW c \in Callers, Unlock(c)
  PROVE  LockInv'
<1> USE DEF LockInv
<1>1. pc[c] = "inside" /\ lock[c] \in Mutexes /\ owner[lock[c]] = c
  BY DEF Unlock, LocalsKnown, OwnersAreInside
<1>2. LockTypeOK'
  BY <1>1 DEF Unlock, LockTypeOK
<1>3. LocalsKnown'
  BY <1>1 DEF Unlock, LocalsKnown, LockTypeOK
<1>4. OwnersAreInside'
  <2>1. ASSUME NEW d \in Callers, d # c, pc[d] = "inside" PROVE lock[d] # lock[c]
    BY <1>1, <2>1 DEF OwnersAreInside
  <2> QED
    BY <1>1, <2>1 DEF Unlock, OwnersAreInside, LocalsKnown, LockTypeOK
<1>5. MutexOfOnePath'
  BY <1>1 DEF Unlock, MutexOfOnePath, LockTypeOK
<1>6. \A r, k : Users(r, k)' = Users(r, k)
  BY <1>1 DEF Unlock, Users, LockTypeOK
<1>7. TableMatchesUse'
  BY <1>6 DEF Unlock, TableMatchesUse
<1> QED
  BY <1>2, <1>3, <1>4, <1>5, <1>7

LEMMA UnregisterInv ==
  ASSUME LockInv, NEW c \in Callers, Unregister(c)
  PROVE  LockInv'
<1> DEFINE r == RepositoryOf[c]
<1> USE DEF LockInv
<1>0. PICK k \in Keys : k = key[c]
  BY DEF Unregister, LocalsKnown
<1>1. /\ pc[c] = "leaving"
      /\ r \in Repositories
      /\ c \in Users(r, k)
  BY <1>0 DEF Unregister, Users
<1>2. /\ IsFiniteSet(Users(r, k))
      /\ Cardinality(Users(r, k)) \in Nat
      /\ Cardinality(Users(r, k)) # 0
      /\ references[r][k] = Cardinality(Users(r, k))
  BY <1>1, UsersFinite DEF TableMatchesUse
<1>3. references'[r][k] = references[r][k] - 1 /\ references'[r][k] \in Nat
  <2>1. references' = [references EXCEPT ![r][k] = references[r][k] - 1]
    BY <1>0 DEF Unregister
  <2>2. references'[r][k] = references[r][k] - 1
    BY <1>1, <2>1 DEF LockTypeOK
  <2> QED
    BY <1>2, <2>2
<1>4. LockTypeOK'
  BY <1>0, <1>1, <1>3 DEF Unregister, Leave, LockTypeOK
<1>5. LocalsKnown'
  BY DEF Unregister, Leave, LocalsKnown, LockTypeOK
<1>6. OwnersAreInside'
  BY <1>1 DEF Unregister, Leave, OwnersAreInside, LockTypeOK
<1>7. MutexOfOnePath'
  BY DEF Unregister, Leave, MutexOfOnePath, LockTypeOK
<1>8. TableMatchesUse'
  <2> SUFFICES ASSUME NEW q \in Repositories, NEW j \in Keys
               PROVE  /\ references'[q][j] = Cardinality(Users(q, j)')
                      /\ locks'[q][j] = NoMutex <=> references'[q][j] = 0
                      /\ \A d \in Users(q, j)' : lock'[d] = locks'[q][j]
    BY DEF TableMatchesUse
  <2>1. \A d \in Callers \ {c} : lock'[d] = lock[d]
    BY DEF Unregister, Leave, LockTypeOK
  <2>2. Users(q, j)' = Users(q, j) \ {c}
    BY DEF Users, Unregister, Leave, LockTypeOK
  <2>3. CASE q = r /\ j = k
    <3>1. Cardinality(Users(r, k)') = Cardinality(Users(r, k)) - 1
      BY <1>1, <1>2, <2>2, <2>3, FS_RemoveElement
    <3>2. references'[r][k] = Cardinality(Users(r, k)')
      BY <1>2, <1>3, <3>1
    <3>3. CASE references'[r][k] = 0
      <4>1. Users(r, k)' = {}
        BY <1>2, <2>2, <2>3, <3>2, <3>3, FS_RemoveElement, FS_EmptySet
      <4>2. locks'[r][k] = NoMutex
        BY <1>0, <1>1, <3>3 DEF Unregister, LockTypeOK
      <4> QED
        BY <2>3, <3>2, <3>3, <4>1, <4>2
    <3>4. CASE references'[r][k] # 0
      <4>1. locks' = locks
        BY <1>0, <3>4 DEF Unregister
      <4>2. locks[r][k] # NoMutex
        BY <1>1, <1>2 DEF TableMatchesUse
      <4>3. \A d \in Users(r, k) : lock[d] = locks[r][k]
        BY <1>1 DEF TableMatchesUse
      <4>4. \A d \in Users(r, k)' : lock'[d] = locks'[r][k]
        BY <2>1, <2>2, <2>3, <4>1, <4>3 DEF Users
      <4> QED
        BY <2>3, <3>2, <3>4, <4>1, <4>2, <4>4
    <3> QED
      BY <3>3, <3>4
  <2>4. CASE ~(q = r /\ j = k)
    <3>1. c \notin Users(q, j)
      BY <1>0, <2>4 DEF Users
    <3>2. references'[q][j] = references[q][j]
      BY <1>0, <1>1, <2>4 DEF Unregister, LockTypeOK
    <3>3. locks'[q][j] = locks[q][j]
      BY <1>0, <1>1, <2>4 DEF Unregister, LockTypeOK
    <3>4. Users(q, j)' = Users(q, j)
      BY <2>2, <3>1
    <3>5. \A d \in Users(q, j) : lock'[d] = lock[d]
      BY <2>1, <3>1 DEF Users
    <3> QED
      BY <3>2, <3>3, <3>4, <3>5 DEF TableMatchesUse
  <2> QED
    BY <2>3, <2>4
<1> QED
  BY <1>4, <1>5, <1>6, <1>7, <1>8

LEMMA LockCrashInv ==
  ASSUME LockInv, NEW R \in SUBSET Repositories, LockCrash(R)
  PROVE  LockInv'
<1> DEFINE dead == CallersOf(R)
<1> USE DEF LockInv
<1>1. /\ \A d \in dead : pc'[d] = "idle"
      /\ \A d \in Callers \ dead :
           pc'[d] = pc[d] /\ key'[d] = key[d] /\ lock'[d] = lock[d]
      /\ \A m \in Mutexes : owner[m] \notin dead => owner'[m] = owner[m]
  BY DEF LockCrash, CallersOf
<1>2. LockTypeOK'
  BY DEF LockCrash, LockTypeOK, CallersOf
<1>3. LocalsKnown'
  BY <1>1, <1>2 DEF LocalsKnown
<1>4. OwnersAreInside'
  <2>1. ASSUME NEW m \in Mutexes, owner'[m] # NoCaller
        PROVE  pc'[owner'[m]] = "inside" /\ lock'[owner'[m]] = m
    <3>1. owner'[m] = owner[m] /\ owner[m] \notin dead /\ owner[m] \in Callers
      BY <2>1 DEF LockCrash, LockTypeOK
    <3> QED
      BY <1>1, <2>1, <3>1 DEF OwnersAreInside
  <2>2. ASSUME NEW d \in Callers, pc'[d] = "inside" PROVE owner'[lock'[d]] = d
    <3>1. d \notin dead /\ pc[d] = "inside" /\ lock'[d] = lock[d]
      BY <1>1, <2>2
    <3>2. lock[d] \in Mutexes /\ owner[lock[d]] = d
      BY <3>1 DEF LocalsKnown, OwnersAreInside
    <3> QED
      BY <1>1, <3>1, <3>2
  <2> QED
    BY <2>1, <2>2 DEF OwnersAreInside
<1>5. MutexOfOnePath'
  BY <1>1 DEF MutexOfOnePath
<1>6. TableMatchesUse'
  <2> SUFFICES ASSUME NEW q \in Repositories, NEW j \in Keys
               PROVE  /\ references'[q][j] = Cardinality(Users(q, j)')
                      /\ locks'[q][j] = NoMutex <=> references'[q][j] = 0
                      /\ \A d \in Users(q, j)' : lock'[d] = locks'[q][j]
    BY DEF TableMatchesUse
  <2>1. CASE q \in R
    <3>1. Users(q, j)' = {}
      BY <1>1, <2>1 DEF Users, CallersOf
    <3>2. references'[q][j] = 0 /\ locks'[q][j] = NoMutex
      BY <2>1 DEF LockCrash
    <3> QED
      BY <3>1, <3>2, FS_EmptySet
  <2>2. CASE q \notin R
    <3>1. \A d \in Callers : RepositoryOf[d] = q => d \notin dead
      BY <2>2 DEF CallersOf
    <3>2. Users(q, j)' = Users(q, j)
      BY <1>1, <3>1 DEF Users
    <3>3. references'[q][j] = references[q][j] /\ locks'[q][j] = locks[q][j]
      BY <2>2 DEF LockCrash
    <3>4. \A d \in Users(q, j) : lock'[d] = lock[d]
      BY <1>1, <3>1 DEF Users
    <3> QED
      BY <3>2, <3>3, <3>4 DEF TableMatchesUse
  <2> QED
    BY <2>1, <2>2
<1> QED
  BY <1>2, <1>3, <1>4, <1>5, <1>6

LEMMA LockStutterInv ==
  ASSUME LockInv, UNCHANGED lockVars
  PROVE  LockInv'
<1>1. \A r, k : Users(r, k)' = Users(r, k)
  BY DEF lockVars, Users
<1>2. TableMatchesUse'
  BY <1>1 DEF LockInv, lockVars, TableMatchesUse
<1>3. LockTypeOK' /\ LocalsKnown' /\ OwnersAreInside' /\ MutexOfOnePath'
  BY DEF LockInv, lockVars, LockTypeOK, LocalsKnown, OwnersAreInside, MutexOfOnePath
<1> QED
  BY <1>2, <1>3 DEF LockInv

\* Every step of the lock table, of a caller or of a crash, keeps the invariant.
LEMMA LockNextInv == LockInv /\ [LockNext]_lockVars => LockInv'
<1> SUFFICES ASSUME LockInv, [LockNext]_lockVars PROVE LockInv'
  OBVIOUS
<1>1. ASSUME NEW c \in Callers, NEW k \in Keys, Register(c, k) PROVE LockInv'
  BY <1>1, RegisterInv
<1>2. ASSUME NEW c \in Callers, Lock(c) PROVE LockInv'
  BY <1>2, LockStepInv
<1>3. ASSUME NEW c \in Callers, Unlock(c) PROVE LockInv'
  BY <1>3, UnlockInv
<1>4. ASSUME NEW c \in Callers, Unregister(c) PROVE LockInv'
  BY <1>4, UnregisterInv
<1>5. ASSUME NEW R \in SUBSET Repositories, LockCrash(R) PROVE LockInv'
  BY <1>5, LockCrashInv
<1>6. CASE UNCHANGED lockVars
  BY <1>6, LockStutterInv
<1> QED
  BY <1>1, <1>2, <1>3, <1>4, <1>5, <1>6 DEF LockNext, CallerStep

-------------------------------------------------------------------------------

\* The invariant holds in every reachable state of the lock table.
THEOREM LockInvariant == LockSpec => []LockInv
<1>1. LockInit => LockInv
  BY LockInitInv
<1>2. LockInv /\ [LockNext]_lockVars => LockInv'
  BY LockNextInv
<1> QED
  BY <1>1, <1>2, PTL DEF LockSpec

\* The invariant excludes two operations on one path of one repository.
LEMMA InvExcludes == LockInv => MutualExclusion
<1> SUFFICES ASSUME LockInv,
                    NEW c \in Callers, NEW d \in Callers,
                    pc[c] = "inside", pc[d] = "inside",
                    RepositoryOf[c] = RepositoryOf[d], key[c] = key[d]
             PROVE  c = d
  BY DEF MutualExclusion
<1>1. key[c] \in Keys /\ RepositoryOf[c] \in Repositories
  BY DEF LockInv, LocalsKnown
<1>2. {c, d} \subseteq Users(RepositoryOf[c], key[c])
  BY DEF Users
<1>3. lock[c] = lock[d]
  BY <1>1, <1>2 DEF LockInv, TableMatchesUse
<1> QED
  BY <1>3 DEF LockInv, OwnersAreInside

\* The invariant tells who can hold a waiting call up.
LEMMA InvBlocks == LockInv => BlockedOnlyByOwnKey
BY DEF LockInv, LockTypeOK, OwnersAreInside, LocalsKnown, MutexOfOnePath,
       BlockedOnlyByOwnKey

\* Type correctness of the lock table.
THEOREM LockTypes == LockSpec => []LockTypeOK
<1>1. LockInv => LockTypeOK
  BY DEF LockInv
<1> QED
  BY <1>1, LockInvariant, PTL

\* withLock serializes the operations on a path for every number of callers,
\* although mutexes are deleted and created again all the time.
THEOREM LockMutualExclusion == LockSpec => []MutualExclusion
<1>1. LockInv => MutualExclusion
  BY InvExcludes
<1> QED
  BY <1>1, LockInvariant, PTL

\* The lock table never leaks an entry and never loses one that is in use.
THEOREM LockTableMatchesUse == LockSpec => []TableMatchesUse
<1>1. LockInv => TableMatchesUse
  BY DEF LockInv
<1> QED
  BY <1>1, LockInvariant, PTL

\* A call is held up only by a call on its own path.
THEOREM LockBlocking == LockSpec => []BlockedOnlyByOwnKey
<1>1. LockInv => BlockedOnlyByOwnKey
  BY InvBlocks
<1> QED
  BY <1>1, LockInvariant, PTL

-------------------------------------------------------------------------------
(* The store.                                                                *)

USE StoreAssumption

-------------------------------------------------------------------------------
(* The operations use the lock table as withLock does.                       *)

\* Every step is a step of the lock table or leaves it alone.
LEMMA StepOfLocks == [Next]_vars => [LockNext]_lockVars
<1> SUFFICES ASSUME [Next]_vars PROVE [LockNext]_lockVars
  OBVIOUS
<1>1. ASSUME NEW c \in Callers, NEW q \in Requests, Call(c, q)
      PROVE  [LockNext]_lockVars
  BY <1>1 DEF Call, LockNext, CallerStep, PossibleRequests
<1>2. ASSUME NEW c \in Callers, NEW q \in Requests, CallDeleteUnmanaged(c, q)
      PROVE  [LockNext]_lockVars
  BY <1>2 DEF CallDeleteUnmanaged
<1>3. ASSUME NEW c \in Callers, Enter(c) PROVE [LockNext]_lockVars
  BY <1>3 DEF Enter, LockNext, CallerStep
<1>4. ASSUME NEW c \in Callers, OperationStep(c) PROVE [LockNext]_lockVars
  <2>1. CASE Exit(c)
    BY <2>1 DEF Exit, LockNext, CallerStep
  <2>2. CASE Return(c)
    BY <2>2 DEF Return, LockNext, CallerStep
  <2>3. CASE UNCHANGED lockVars
    BY <2>3
  <2> QED
    BY <1>4, <2>1, <2>2, <2>3
       DEF OperationStep, DeleteUnmanaged, InspectOutput, CheckOutput, CreateTemp,
           FillTemp, SyncTemp, RecheckOutput, RenameTemp, SyncDirectory, CleanUp,
           LstatOutput, DigestOutput, RemoveOutput, IOFailure
<1>5. CASE Environment
  BY <1>5 DEF Environment, Crash, PowerLoss, WriteBack, OutsideWrite, LockNext
<1>6. CASE UNCHANGED vars
  BY <1>6 DEF vars
<1> QED
  BY <1>1, <1>2, <1>3, <1>4, <1>5, <1>6 DEF Next

\* artifactRepository implements the lock table specification.
THEOREM StoreImplementsLocks == Spec => LockSpec
<1>1. Init => LockInit
  BY DEF Init
<1>2. [Next]_vars => [LockNext]_lockVars
  BY StepOfLocks
<1> QED
  BY <1>1, <1>2, PTL DEF Spec, LockSpec

\* Two operations on one path never overlap in one repository.
THEOREM StoreMutualExclusion == Spec => []MutualExclusion
BY StoreImplementsLocks, LockMutualExclusion, PTL

-------------------------------------------------------------------------------
(* Outputs are whole.                                                        *)

\* A call that takes no lock.
Unlocked(q) == q.op = "delete" /\ q.expected = NoDigest

\* How the position in withLock, the position in the operation and the
\* arguments of a call go together.
Coherent(c) ==
  /\ step[c] = "idle" => pc[c] = "idle"
  /\ step[c] # "idle" => request[c] \in Requests
  /\ step[c] = "unmanaged" => Unlocked(request[c])
  /\ step[c] # "idle" /\ Unlocked(request[c]) =>
       step[c] \in {"unmanaged", "done"} /\ pc[c] = "idle"
  /\ step[c] # "idle" /\ ~Unlocked(request[c]) => pc[c] # "idle"
  /\ pc[c] = "waiting" => step[c] \in {"inspect", "lstat"}
  /\ pc[c] = "leaving" => step[c] = "done"
  /\ pc[c] # "idle" => key[c] = request[c].path
  /\ step[c] \in WriteSteps => request[c].op = "write"
  /\ step[c] \in {"lstat"} \cup DeleteSteps => request[c].op = "delete"
  /\ temp[c] # "none" => step[c] \in WriteSteps \cup {"cleanup"}

CallsAreCoherent == \A c \in Callers : Coherent(c)

\* A temporary file is synced before its output is looked at again.
SyncedBeforeRename ==
  \A c \in Callers : step[c] \in {"recheck", "rename"} => temp[c] = "synced"

StoreInv ==
  /\ LockInv
  /\ StoreTypeOK
  /\ CallsAreCoherent
  /\ SyncedBeforeRename
  /\ NoTornOutput

LEMMA StoreInitInv == Init => StoreInv
<1> SUFFICES ASSUME Init PROVE StoreInv
  OBVIOUS
<1>1. LockInv
  BY LockInitInv DEF Init
<1>2. StoreTypeOK
  BY DEF Init, LockInit, StoreInit, StoreTypeOK, Values, Regular, Steps
<1>3. CallsAreCoherent /\ SyncedBeforeRename
  BY DEF Init, LockInit, StoreInit, CallsAreCoherent, Coherent, SyncedBeforeRename,
         WriteSteps, DeleteSteps
<1>4. NoTornOutput
  BY DEF Init, StoreInit, NoTornOutput
<1> QED
  BY <1>1, <1>2, <1>3, <1>4 DEF StoreInv

\* What an action leaves to show about the variables of this module.
StorePart == StoreTypeOK /\ CallsAreCoherent /\ SyncedBeforeRename /\ NoTornOutput

LEMMA RequestFields ==
  ASSUME NEW q \in Requests
  PROVE  /\ q.path \in Keys
         /\ q.op \in {"inspect", "write", "delete"}
         /\ q.op = "write" => q.content \in Contents
BY DEF PossibleRequests

LEMMA CallInv ==
  ASSUME StoreInv, NEW c \in Callers, NEW q \in Requests,
         Call(c, q) \/ CallDeleteUnmanaged(c, q)
  PROVE  StorePart'
<1> USE DEF StoreInv, LockInv, LockTypeOK, GoTo, Steps, WriteSteps, DeleteSteps
<1>1. CASE Call(c, q)
  <2>1. StoreTypeOK'
    BY <1>1 DEF Call, Register, StoreTypeOK
  <2>2. CallsAreCoherent'
    <3> SUFFICES ASSUME NEW d \in Callers PROVE Coherent(d)'
      BY DEF CallsAreCoherent
    <3>1. CASE d = c
      BY <1>1, <3>1 DEF Call, Register, StoreTypeOK, CallsAreCoherent, Coherent, Unlocked
    <3>2. CASE d # c
      BY <1>1, <3>2 DEF Call, Register, StoreTypeOK, CallsAreCoherent, Coherent, Unlocked
    <3> QED
      BY <3>1, <3>2
  <2>3. SyncedBeforeRename' /\ NoTornOutput'
    BY <1>1 DEF Call, StoreTypeOK, SyncedBeforeRename, NoTornOutput
  <2> QED
    BY <2>1, <2>2, <2>3 DEF StorePart
<1>2. CASE CallDeleteUnmanaged(c, q)
  <2>1. StoreTypeOK'
    BY <1>2 DEF CallDeleteUnmanaged, StoreTypeOK, CallsAreCoherent, Coherent, lockVars
  <2>2. CallsAreCoherent'
    <3> SUFFICES ASSUME NEW d \in Callers PROVE Coherent(d)'
      BY DEF CallsAreCoherent
    <3>1. CASE d = c
      BY <1>2, <3>1 DEF CallDeleteUnmanaged, StoreTypeOK, CallsAreCoherent, Coherent, Unlocked, lockVars
    <3>2. CASE d # c
      BY <1>2, <3>2 DEF CallDeleteUnmanaged, StoreTypeOK, CallsAreCoherent, Coherent, Unlocked, lockVars
    <3> QED
      BY <3>1, <3>2
  <2>3. SyncedBeforeRename' /\ NoTornOutput'
    BY <1>2 DEF CallDeleteUnmanaged, StoreTypeOK, SyncedBeforeRename, NoTornOutput
  <2> QED
    BY <2>1, <2>2, <2>3 DEF StorePart
<1> QED
  BY <1>1, <1>2

\* Entering and leaving withLock.
LEMMA LockingInv ==
  ASSUME StoreInv, NEW c \in Callers,
         Enter(c) \/ Exit(c) \/ Return(c) \/ DeleteUnmanaged(c)
  PROVE  StorePart'
<1> USE DEF StoreInv, LockInv, LockTypeOK, GoTo, Steps, WriteSteps, DeleteSteps
<1>1. CASE Enter(c)
  BY <1>1 DEF Enter, Lock, storeVars, StorePart, StoreTypeOK, CallsAreCoherent, Coherent,
              SyncedBeforeRename, NoTornOutput
<1>2. CASE Exit(c)
  BY <1>2 DEF Exit, Unlock, storeVars, StorePart, StoreTypeOK, CallsAreCoherent, Coherent,
              SyncedBeforeRename, NoTornOutput
<1>3. CASE Return(c)
  <2>1. /\ pc' = [pc EXCEPT ![c] = "idle"]
        /\ \A d \in Callers : d # c => key'[d] = key[d]
    BY <1>3 DEF Return, Unregister, Leave, lockVars, StoreTypeOK, CallsAreCoherent, Coherent, Unlocked
  <2>2. StoreTypeOK'
    BY <1>3, <2>1 DEF Return, StoreTypeOK
  <2>3. CallsAreCoherent'
    BY <1>3, <2>1 DEF Return, StoreTypeOK, CallsAreCoherent, Coherent
  <2>4. SyncedBeforeRename' /\ NoTornOutput'
    BY <1>3 DEF Return, StoreTypeOK, SyncedBeforeRename, NoTornOutput
  <2> QED
    BY <2>2, <2>3, <2>4 DEF StorePart
<1>4. CASE DeleteUnmanaged(c)
  BY <1>4 DEF DeleteUnmanaged, Finish, lockVars, StorePart, StoreTypeOK,
              CallsAreCoherent, Coherent, SyncedBeforeRename, NoTornOutput
<1> QED
  BY <1>1, <1>2, <1>3, <1>4
-------------------------------------------------------------------------------
(* The system calls.                                                         *)

\* A step of a call that keeps its lock only moves the call itself; what the
\* call looks like afterwards is enough to know that calls stay coherent.
LEMMA StepStaysCoherent ==
  ASSUME StoreInv, NEW c \in Callers, pc[c] = "inside", step[c] # "done",
         UNCHANGED <<lockVars, request>>,
         NEW s \in Steps \ {"idle", "unmanaged"}, step' = [step EXCEPT ![c] = s],
         s \in WriteSteps => request[c].op = "write",
         s \in {"lstat"} \cup DeleteSteps => request[c].op = "delete",
         \A d \in Callers : d # c => temp'[d] = temp[d],
         temp'[c] # "none" => s \in WriteSteps \cup {"cleanup"}
  PROVE  CallsAreCoherent'
<1> SUFFICES ASSUME NEW d \in Callers PROVE Coherent(d)'
  BY DEF CallsAreCoherent
<1> USE DEF StoreInv, StoreTypeOK, CallsAreCoherent, Coherent, Steps, WriteSteps,
            DeleteSteps, lockVars
<1>1. CASE d = c
  BY <1>1
<1>2. CASE d # c
  BY <1>2
<1> QED
  BY <1>1, <1>2

\* What one system call of a running operation must show to keep the invariant.
LEMMA AdvanceInv ==
  ASSUME StoreInv, NEW c \in Callers, pc[c] = "inside", step[c] # "done",
         UNCHANGED <<lockVars, request>>,
         NEW s \in Steps \ {"idle", "unmanaged"}, step' = [step EXCEPT ![c] = s],
         s \in WriteSteps => request[c].op = "write",
         s \in {"lstat"} \cup DeleteSteps => request[c].op = "delete",
         temp' \in [Callers -> {"none", "partial", "written", "synced"}],
         \A d \in Callers : d # c => temp'[d] = temp[d],
         temp'[c] # "none" => s \in WriteSteps \cup {"cleanup"},
         s \in {"recheck", "rename"} => temp'[c] = "synced",
         seen' \in [Callers -> Regular \cup {Absent}],
         answer' \in [Callers -> Regular \cup {Absent, NoAnswer, "done", "failed",
                                              "refused", "preserved", "nothing"}],
         acked' \in [Files -> Values \cup {NoAnswer}],
         file' \in [Files -> Values], disk' \in [Files -> Values], NoTornOutput'
  PROVE  StorePart'
<1>1. StoreTypeOK'
  BY DEF StoreInv, StoreTypeOK, lockVars
<1>2. CallsAreCoherent'
  BY StepStaysCoherent DEF StoreInv, StoreTypeOK
<1>3. SyncedBeforeRename'
  BY DEF StoreInv, StoreTypeOK, SyncedBeforeRename
<1> QED
  BY <1>1, <1>2, <1>3 DEF StorePart

\* What the invariant says of a call whose next system call is s.
LEMMA AtFacts ==
  ASSUME StoreInv, NEW c \in Callers, NEW s \in Steps \ {"idle", "unmanaged", "done"},
         At(c, s)
  PROVE  /\ pc[c] = "inside" /\ step[c] # "done"
         /\ request[c] \in Requests /\ Target(c) \in Files
         /\ file[Target(c)] \in Values
         /\ temp[c] # "none" => s \in WriteSteps \cup {"cleanup"}
         /\ s \in WriteSteps => request[c].op = "write"
         /\ s \in {"lstat"} \cup DeleteSteps => request[c].op = "delete"
         /\ s \in {"recheck", "rename"} => temp[c] = "synced"
         /\ NoTornOutput /\ StoreTypeOK
BY RequestFields
   DEF StoreInv, StoreTypeOK, CallsAreCoherent, Coherent, SyncedBeforeRename, Target,
       At, Steps

\* Answering: what is visible stays, what is on disk may become what is visible.
LEMMA FinishInv ==
  ASSUME StoreInv, NEW c \in Callers, pc[c] = "inside", step[c] # "done",
         NEW a \in Regular \cup {Absent, "done", "failed", "refused", "preserved", "nothing"},
         Finish(c, a),
         UNCHANGED <<lockVars, file, request, seen, temp>>,
         \/ UNCHANGED <<disk, acked>>
         \/ \E f \in Files : /\ disk' = [disk EXCEPT ![f] = file[f]]
                             /\ acked' = [acked EXCEPT ![f] = file[f]]
  PROVE  StorePart'
<1> DEFINE s == IF temp[c] = "none" THEN "done" ELSE "cleanup"
<1>1. /\ step' = [step EXCEPT ![c] = s]
      /\ s \in {"done", "cleanup"}
      /\ temp[c] # "none" => s = "cleanup"
  BY DEF Finish, GoTo
<1>2. /\ seen' \in [Callers -> Regular \cup {Absent}]
      /\ temp' \in [Callers -> {"none", "partial", "written", "synced"}]
      /\ answer' \in [Callers -> Regular \cup {Absent, NoAnswer, "done", "failed",
                                              "refused", "preserved", "nothing"}]
  BY DEF StoreInv, StoreTypeOK, Finish
<1>3. /\ acked' \in [Files -> Values \cup {NoAnswer}]
      /\ file' \in [Files -> Values]
      /\ disk' \in [Files -> Values]
      /\ NoTornOutput'
  BY DEF StoreInv, StoreTypeOK, NoTornOutput
<1> HIDE DEF s
<1> QED
  BY <1>1, <1>2, <1>3, AdvanceInv DEF Steps, WriteSteps, DeleteSteps

\* Going on with the next system call; only the call's own variables change.
LEMMA GoOnInv ==
  ASSUME StoreInv, NEW c \in Callers, pc[c] = "inside", step[c] # "done",
         UNCHANGED <<lockVars, request, file, disk, acked, answer>>,
         NEW s \in Steps \ {"idle", "unmanaged"}, GoTo(c, s),
         s \in WriteSteps => request[c].op = "write",
         s \in {"lstat"} \cup DeleteSteps => request[c].op = "delete",
         NEW t \in {"none", "partial", "written", "synced"},
         temp' = [temp EXCEPT ![c] = t],
         t # "none" => s \in WriteSteps \cup {"cleanup"},
         s \in {"recheck", "rename"} => t = "synced",
         seen' \in [Callers -> Regular \cup {Absent}]
  PROVE  StorePart'
<1>1. /\ temp' \in [Callers -> {"none", "partial", "written", "synced"}]
      /\ \A d \in Callers : d # c => temp'[d] = temp[d]
      /\ temp'[c] = t
      /\ step' = [step EXCEPT ![c] = s]
  BY DEF StoreInv, StoreTypeOK, GoTo
<1>2. /\ answer' \in [Callers -> Regular \cup {Absent, NoAnswer, "done", "failed",
                                              "refused", "preserved", "nothing"}]
      /\ acked' \in [Files -> Values \cup {NoAnswer}]
      /\ file' \in [Files -> Values] /\ disk' \in [Files -> Values]
      /\ NoTornOutput'
  BY DEF StoreInv, StoreTypeOK, NoTornOutput
<1> QED
  BY <1>1, <1>2, AdvanceInv

\* The steps that only look at the output, and the failure of any system call.
LEMMA LookingInv ==
  ASSUME StoreInv, NEW c \in Callers,
         \/ InspectOutput(c) \/ CheckOutput(c) \/ RecheckOutput(c)
         \/ LstatOutput(c) \/ DigestOutput(c) \/ IOFailure(c)
  PROVE  StorePart'
<1> DEFINE v == file[Target(c)]
<1>1. seen \in [Callers -> Regular \cup {Absent}] /\ temp = [temp EXCEPT ![c] = temp[c]]
  BY DEF StoreInv, StoreTypeOK
<1> USE DEF Steps, WriteSteps, DeleteSteps
<1>2. CASE InspectOutput(c)
  <2>1. pc[c] = "inside" /\ step[c] # "done" /\ v \in Values
    BY <1>2, AtFacts DEF InspectOutput
  <2>2. PICK a \in Regular \cup {Absent, "failed"} : Finish(c, a)
    BY <1>2, <2>1 DEF InspectOutput, Values
  <2> QED
    BY <1>2, <2>1, <2>2, FinishInv DEF InspectOutput
<1>3. CASE CheckOutput(c)
  <2>1. /\ pc[c] = "inside" /\ step[c] # "done" /\ v \in Values
        /\ temp[c] = "none" /\ request[c].op = "write" /\ StoreTypeOK
    BY <1>3, AtFacts DEF CheckOutput, StoreTypeOK
  <2>2. CASE v \notin NonRegular /\ GoTo(c, "create") /\ UNCHANGED answer
             /\ seen' = [seen EXCEPT ![c] = v]
    <3>1. seen' \in [Callers -> Regular \cup {Absent}]
      BY <1>1, <2>1, <2>2 DEF Values
    <3> QED
      BY <1>1, <1>3, <2>1, <2>2, <3>1, GoOnInv DEF CheckOutput
  <2>3. CASE \E a \in {"failed", "refused"} : Finish(c, a) /\ UNCHANGED seen
    BY <1>3, <2>1, <2>3, FinishInv DEF CheckOutput
  <2> QED
    BY <1>3, <2>2, <2>3 DEF CheckOutput
<1>4. CASE RecheckOutput(c)
  <2>1. /\ pc[c] = "inside" /\ step[c] # "done"
        /\ temp[c] = "synced" /\ request[c].op = "write"
    BY <1>4, AtFacts DEF RecheckOutput
  <2>2. CASE GoTo(c, "rename") /\ UNCHANGED answer
    BY <1>1, <1>4, <2>1, <2>2, GoOnInv DEF RecheckOutput
  <2>3. CASE Finish(c, "failed")
    BY <1>4, <2>1, <2>3, FinishInv DEF RecheckOutput
  <2> QED
    BY <1>4, <2>2, <2>3 DEF RecheckOutput
<1>5. CASE LstatOutput(c)
  <2>1. /\ pc[c] = "inside" /\ step[c] # "done" /\ temp[c] = "none"
        /\ request[c].op = "delete"
        /\ UNCHANGED <<lockVars, file, disk, acked, request, seen, temp>>
    BY <1>5, AtFacts DEF LstatOutput
  <2>2. CASE GoTo(c, "digest") /\ UNCHANGED answer
    BY <1>1, <2>1, <2>2, GoOnInv
  <2>3. CASE \E a \in {"nothing", "preserved"} : Finish(c, a)
    BY <2>1, <2>3, FinishInv
  <2> QED
    BY <1>5, <2>2, <2>3 DEF LstatOutput
<1>6. CASE DigestOutput(c)
  <2>1. /\ pc[c] = "inside" /\ step[c] # "done" /\ temp[c] = "none"
        /\ request[c].op = "delete"
        /\ UNCHANGED <<lockVars, file, disk, acked, request, seen, temp>>
    BY <1>6, AtFacts DEF DigestOutput
  <2>2. CASE GoTo(c, "remove") /\ UNCHANGED answer
    BY <1>1, <2>1, <2>2, GoOnInv
  <2>3. CASE \E a \in {"failed", "preserved"} : Finish(c, a)
    BY <2>1, <2>3, FinishInv
  <2> QED
    BY <1>6, <2>2, <2>3 DEF DigestOutput
<1>7. CASE IOFailure(c)
  BY <1>7, FinishInv DEF IOFailure
<1> QED
  BY <1>2, <1>3, <1>4, <1>5, <1>6, <1>7
\* The steps that work on the temporary file, and those that change the output.
LEMMA ChangingInv ==
  ASSUME StoreInv, NEW c \in Callers,
         \/ CreateTemp(c) \/ FillTemp(c) \/ SyncTemp(c) \/ RenameTemp(c)
         \/ SyncDirectory(c) \/ CleanUp(c) \/ RemoveOutput(c)
  PROVE  StorePart'
<1> USE DEF Steps, WriteSteps, DeleteSteps
<1>1. seen \in [Callers -> Regular \cup {Absent}]
  BY DEF StoreInv, StoreTypeOK
<1>2. CASE CreateTemp(c)
  BY <1>1, <1>2, AtFacts, GoOnInv DEF CreateTemp
<1>3. CASE FillTemp(c)
  BY <1>1, <1>3, AtFacts, GoOnInv DEF FillTemp
<1>4. CASE SyncTemp(c)
  BY <1>1, <1>4, AtFacts, GoOnInv DEF SyncTemp
<1>5. CASE CleanUp(c)
  <2>1. pc[c] = "inside" /\ step[c] # "done"
    BY <1>5 DEF CleanUp, At
  <2>2. /\ UNCHANGED <<lockVars, request, file, disk, acked, answer>>
        /\ GoTo(c, "done") /\ "done" \in Steps \ {"idle", "unmanaged"}
        /\ temp' = [temp EXCEPT ![c] = "none"]
        /\ seen' \in [Callers -> Regular \cup {Absent}]
    BY <1>1, <1>5 DEF CleanUp
  <2> QED
    BY <2>1, <2>2, GoOnInv
<1>6. CASE SyncDirectory(c)
  BY <1>6, AtFacts, FinishInv DEF SyncDirectory
<1>7. CASE RenameTemp(c)
  <2>1. /\ pc[c] = "inside" /\ step[c] # "done" /\ request[c] \in Requests
        /\ Target(c) \in Files /\ temp[c] = "synced" /\ request[c].op = "write"
        /\ UNCHANGED <<lockVars, disk, request, seen>>
    BY <1>7, AtFacts DEF RenameTemp
  <2>2. CASE Finish(c, "failed") /\ UNCHANGED <<file, acked, temp>>
    BY <2>1, <2>2, FinishInv
  <2>3. CASE /\ Change(Target(c), request[c].content)
             /\ temp' = [temp EXCEPT ![c] = "none"]
             /\ GoTo(c, "syncdir") /\ UNCHANGED answer
    <3>1. /\ file' = [file EXCEPT ![Target(c)] = request[c].content]
          /\ acked' = [acked EXCEPT ![Target(c)] = NoAnswer]
          /\ request[c].content \in Contents
      BY <2>1, <2>3, RequestFields DEF Change
    <3>2. /\ file' \in [Files -> Values] /\ disk' \in [Files -> Values]
          /\ acked' \in [Files -> Values \cup {NoAnswer}]
          /\ NoTornOutput'
      BY <2>1, <3>1 DEF StoreInv, StoreTypeOK, NoTornOutput, Values, Regular
    <3>3. /\ temp' \in [Callers -> {"none", "partial", "written", "synced"}]
          /\ \A d \in Callers : d # c => temp'[d] = temp[d]
          /\ temp'[c] = "none"
          /\ step' = [step EXCEPT ![c] = "syncdir"]
          /\ seen' \in [Callers -> Regular \cup {Absent}]
          /\ answer' \in [Callers -> Regular \cup {Absent, NoAnswer, "done", "failed",
                                              "refused", "preserved", "nothing"}]
      BY <2>1, <2>3 DEF StoreInv, StoreTypeOK, GoTo
    <3> QED
      BY <2>1, <3>2, <3>3, AdvanceInv
  <2> QED
    BY <1>7, <2>1, <2>2, <2>3 DEF RenameTemp
<1>8. CASE RemoveOutput(c)
  <2>1. /\ pc[c] = "inside" /\ step[c] # "done" /\ Target(c) \in Files
        /\ temp[c] = "none" /\ UNCHANGED <<lockVars, disk, request, seen, temp>>
    BY <1>8, AtFacts DEF RemoveOutput
  <2>2. CASE Finish(c, "failed") /\ UNCHANGED <<file, acked>>
    BY <2>1, <2>2, FinishInv
  <2>3. CASE Change(Target(c), Absent) /\ GoTo(c, "syncdir") /\ UNCHANGED answer
    <3>1. /\ file' \in [Files -> Values] /\ disk' \in [Files -> Values]
          /\ acked' \in [Files -> Values \cup {NoAnswer}]
          /\ NoTornOutput'
      BY <2>1, <2>3 DEF StoreInv, StoreTypeOK, NoTornOutput, Change, Values
    <3>2. /\ temp' \in [Callers -> {"none", "partial", "written", "synced"}]
          /\ temp'[c] = "none" /\ temp' = temp
          /\ step' = [step EXCEPT ![c] = "syncdir"]
          /\ seen' \in [Callers -> Regular \cup {Absent}]
          /\ answer' \in [Callers -> Regular \cup {Absent, NoAnswer, "done", "failed",
                                              "refused", "preserved", "nothing"}]
      BY <2>1, <2>3 DEF StoreInv, StoreTypeOK, GoTo
    <3> QED
      BY <2>1, <3>1, <3>2, AdvanceInv
  <2> QED
    BY <1>8, <2>2, <2>3 DEF RemoveOutput
<1> QED
  BY <1>2, <1>3, <1>4, <1>5, <1>6, <1>7, <1>8

\* Crashes, power losses and other programs.
LEMMA EnvironmentInv ==
  ASSUME StoreInv, Environment
  PROVE  StorePart'
<1> USE DEF StoreInv, LockInv, LockTypeOK
<1>1. ASSUME NEW R \in SUBSET Repositories, LockCrash(R), Forget(CallersOf(R)),
             file' \in {file, disk}, UNCHANGED <<disk, acked>>
      PROVE  StorePart'
  <2>1. StoreTypeOK'
    BY <1>1 DEF StoreTypeOK, LockCrash, Forget, Steps
  <2>2. CallsAreCoherent'
    BY <1>1 DEF CallsAreCoherent, Coherent, LockCrash, Forget, WriteSteps, DeleteSteps
  <2>3. SyncedBeforeRename' /\ NoTornOutput'
    BY <1>1 DEF SyncedBeforeRename, NoTornOutput, Forget
  <2> QED
    BY <2>1, <2>2, <2>3 DEF StorePart
<1>2. ASSUME UNCHANGED <<lockVars, request, step, seen, temp, answer>>,
             file' \in [Files -> Values], disk' \in [Files -> Values],
             acked' \in [Files -> Values \cup {NoAnswer}], NoTornOutput'
      PROVE  StorePart'
  BY <1>2 DEF StorePart, StoreTypeOK, CallsAreCoherent, Coherent, SyncedBeforeRename, lockVars
<1>3. ASSUME NEW R \in SUBSET Repositories, Crash(R) PROVE StorePart'
  BY <1>1, <1>3 DEF Crash
<1>4. CASE PowerLoss
  BY <1>1, <1>4 DEF PowerLoss
<1>5. ASSUME NEW f \in Files, WriteBack(f) PROVE StorePart'
  BY <1>2, <1>5 DEF WriteBack, StoreTypeOK, NoTornOutput
<1>6. ASSUME NEW f \in Files, NEW v \in OutsideWrites, OutsideWrite(f, v)
      PROVE  StorePart'
  <2>1. /\ file' \in [Files -> Values] /\ acked' \in [Files -> Values \cup {NoAnswer}]
        /\ disk' = disk /\ NoTornOutput'
    BY <1>6 DEF OutsideWrite, Change, StoreTypeOK, NoTornOutput, Values, Regular
  <2> QED
    BY <1>2, <1>6, <2>1 DEF OutsideWrite, StoreTypeOK
<1> QED
  BY <1>3, <1>4, <1>5, <1>6 DEF Environment

LEMMA StoreNextInv == StoreInv /\ [Next]_vars => StoreInv'
<1> SUFFICES ASSUME StoreInv, [Next]_vars PROVE StoreInv'
  OBVIOUS
<1>1. LockInv'
  BY StepOfLocks, LockNextInv DEF StoreInv
<1>2. StorePart'
  <2>1. ASSUME NEW c \in Callers, OperationStep(c) PROVE StorePart'
    BY <2>1, LockingInv, LookingInv, ChangingInv DEF OperationStep
  <2>2. CASE UNCHANGED vars
    BY <2>2 DEF vars, lockVars, storeVars, StoreInv, StorePart, StoreTypeOK,
                CallsAreCoherent, Coherent, SyncedBeforeRename, NoTornOutput
  <2> QED
    BY <2>1, <2>2, CallInv, LockingInv, EnvironmentInv DEF Next
<1> QED
  BY <1>1, <1>2 DEF StoreInv, StorePart

THEOREM StoreInvariant == Spec => []StoreInv
<1>1. Init => StoreInv
  BY StoreInitInv
<1>2. StoreInv /\ [Next]_vars => StoreInv'
  BY StoreNextInv
<1> QED
  BY <1>1, <1>2, PTL DEF Spec

\* The variables keep their types, and the position of a call in withLock fits
\* its position in the operation.
THEOREM StoreTypes == Spec => []StoreTypeOK
<1>1. StoreInv => StoreTypeOK
  BY DEF StoreInv
<1> QED
  BY <1>1, StoreInvariant, PTL

\* Crashes, failed system calls and power losses at any point leave every output
\* either as it was or as a Write has completely written it.
THEOREM StoreNoTornOutput == Spec => []NoTornOutput
<1>1. StoreInv => NoTornOutput
  BY DEF StoreInv
<1> QED
  BY <1>1, StoreInvariant, PTL
-------------------------------------------------------------------------------
(* Success is durable.                                                       *)

LEMMA DurableNext ==
  ASSUME StoreInv, AcknowledgedIsDurable, [Next]_vars
  PROVE  AcknowledgedIsDurable'
<1> USE DEF AcknowledgedIsDurable, StoreInv, StoreTypeOK
<1>1. CASE UNCHANGED <<file, disk, acked>>
  BY <1>1
<1>2. ASSUME NEW f, NEW v, Change(f, v), UNCHANGED disk PROVE AcknowledgedIsDurable'
  BY <1>2 DEF Change
<1>3. ASSUME NEW c \in Callers, SyncDirectory(c) PROVE AcknowledgedIsDurable'
  BY <1>3 DEF SyncDirectory
<1>4. ASSUME NEW f \in Files, WriteBack(f) PROVE AcknowledgedIsDurable'
  BY <1>4 DEF WriteBack
<1>5. CASE PowerLoss
  BY <1>5 DEF PowerLoss
<1>6. ASSUME NEW c \in Callers, OperationStep(c) PROVE AcknowledgedIsDurable'
  <2>1. CASE RenameTemp(c)
    BY <1>1, <1>2, <2>1 DEF RenameTemp
  <2>2. CASE RemoveOutput(c)
    BY <1>1, <1>2, <2>2 DEF RemoveOutput
  <2> QED
    BY <1>1, <1>3, <1>6, <2>1, <2>2
       DEF OperationStep, DeleteUnmanaged, Exit, Return, InspectOutput, CheckOutput,
           CreateTemp, FillTemp, SyncTemp, RecheckOutput, CleanUp, LstatOutput,
           DigestOutput, IOFailure, storeVars
<1>7. CASE Environment
  BY <1>1, <1>2, <1>4, <1>5, <1>7 DEF Environment, Crash, OutsideWrite
<1> QED
  BY <1>1, <1>6, <1>7 DEF Next, Call, CallDeleteUnmanaged, Enter, vars, storeVars

\* A Write or Delete that reported success survives every power loss, until
\* somebody changes the file again.
THEOREM StoreAcknowledgedIsDurable == Spec => []AcknowledgedIsDurable
<1>1. Init => AcknowledgedIsDurable
  BY DEF Init, StoreInit, AcknowledgedIsDurable
<1>2. StoreInv /\ AcknowledgedIsDurable /\ [Next]_vars => AcknowledgedIsDurable'
  BY DurableNext
<1> QED
  BY <1>1, <1>2, StoreInvariant, PTL DEF Spec

-------------------------------------------------------------------------------
(* OutputStore is implemented                                                *)

\* One provider instance works on the outputs, names each by one path, and no
\* other program writes between an operation's last check and its system call.
Alone ==
  /\ ~RaceWindow
  /\ \A c, d \in Callers : RepositoryOf[c] = RepositoryOf[d]
  /\ \A k, l \in Keys : FileOf[k] = FileOf[l] => k = l

-------------------------------------------------------------------------------

\* The last check of an operation still holds when its system call comes.
CheckHolds(c) ==
  /\ step[c] \in WriteSteps => ~Refused(request[c], seen[c])
  /\ step[c] = "rename" => file[Target(c)] = seen[c]
  /\ step[c] = "remove" => file[Target(c)] = request[c].expected

ChecksHold == \A c \in Callers : CheckHolds(c)

\* The calls d that c does not disturb: whatever c changes, it is not the file
\* another operation is about to change.
LEMMA OthersUndisturbed ==
  ASSUME Alone, StoreInv, ChecksHold, NEW c \in Callers, NEW d \in Callers, c # d,
         step'[d] = step[d], request'[d] = request[d], seen'[d] = seen[d],
         \/ file' = file
         \/ /\ step[c] \in {"rename", "remove"}
            /\ \E v : file' = [file EXCEPT ![Target(c)] = v]
  PROVE  CheckHolds(d)'
<1> USE DEF ChecksHold, CheckHolds, Target
<1>1. CASE file' = file
  BY <1>1
<1>2. CASE /\ step[c] \in {"rename", "remove"}
           /\ \E v : file' = [file EXCEPT ![Target(c)] = v]
  <2>1. ASSUME step[d] \in {"rename", "remove"} PROVE Target(d) # Target(c)
    <3>1. /\ pc[c] = "inside" /\ pc[d] = "inside"
          /\ key[c] = request[c].path /\ key[d] = request[d].path
          /\ request[c] \in Requests /\ request[d] \in Requests
      BY <1>2, <2>1 DEF StoreInv, LockInv, LockTypeOK, CallsAreCoherent, Coherent,
                        WriteSteps, DeleteSteps
    <3>2. key[c] # key[d]
      BY <3>1, InvExcludes DEF StoreInv, MutualExclusion, Alone
    <3> QED
      BY <3>1, <3>2, RequestFields DEF Alone
  <2>2. file \in [Files -> Values]
    BY DEF StoreInv, StoreTypeOK
  <2> QED
    BY <1>2, <2>1, <2>2 DEF WriteSteps
<1> QED
  BY <1>1, <1>2

LEMMA ChecksHoldNext ==
  ASSUME Alone, StoreInv, ChecksHold, [Next]_vars
  PROVE  ChecksHold'
<1>1. ASSUME NEW c \in Callers, Enter(c) \/ OperationStep(c) PROVE ChecksHold'
  <2>1. /\ \A d \in Callers : d # c => /\ step'[d] = step[d]
                                      /\ request'[d] = request[d]
                                      /\ seen'[d] = seen[d]
        /\ \/ file' = file
           \/ /\ step[c] \in {"rename", "remove"}
              /\ \E v : file' = [file EXCEPT ![Target(c)] = v]
    <3> USE DEF StoreInv, StoreTypeOK, GoTo, Finish, At, Change
    <3>1. CASE Enter(c) \/ Exit(c) \/ Return(c) \/ DeleteUnmanaged(c)
      BY <3>1 DEF Enter, Exit, Return, DeleteUnmanaged, storeVars
    <3>2. CASE InspectOutput(c) \/ CheckOutput(c) \/ RecheckOutput(c) \/ IOFailure(c)
      BY <3>2 DEF InspectOutput, CheckOutput, RecheckOutput, IOFailure
    <3>3. CASE LstatOutput(c) \/ DigestOutput(c)
      BY <3>3 DEF LstatOutput, DigestOutput
    <3>4. CASE CreateTemp(c) \/ FillTemp(c) \/ SyncTemp(c) \/ CleanUp(c) \/ SyncDirectory(c)
      BY <3>4 DEF CreateTemp, FillTemp, SyncTemp, CleanUp, SyncDirectory
    <3>5. CASE RenameTemp(c)
      BY <3>5 DEF RenameTemp
    <3>6. CASE RemoveOutput(c)
      BY <3>6 DEF RemoveOutput
    <3> QED
      BY <1>1, <3>1, <3>2, <3>3, <3>4, <3>5, <3>6 DEF OperationStep
  <2>2. CheckHolds(c)'
    <3> USE DEF StoreInv, StoreTypeOK, GoTo, Finish, At, ChecksHold, CheckHolds,
                WriteSteps, Target
    <3>1. CASE Enter(c) \/ Exit(c) \/ Return(c) \/ DeleteUnmanaged(c)
      BY <3>1 DEF Enter, Exit, Return, DeleteUnmanaged, storeVars
    <3>2. CASE InspectOutput(c) \/ IOFailure(c) \/ CleanUp(c) \/ SyncDirectory(c)
      BY <3>2 DEF InspectOutput, IOFailure, CleanUp, SyncDirectory
    <3>3. CASE CheckOutput(c)
      BY <3>3 DEF CheckOutput
    <3>4. CASE CreateTemp(c) \/ FillTemp(c) \/ SyncTemp(c) \/ RecheckOutput(c)
      BY <3>4 DEF CreateTemp, FillTemp, SyncTemp, RecheckOutput
    <3>5. CASE LstatOutput(c) \/ DigestOutput(c)
      BY <3>5 DEF LstatOutput, DigestOutput
    <3>6. CASE RenameTemp(c) \/ RemoveOutput(c)
      BY <3>6 DEF RenameTemp, RemoveOutput
    <3> QED
      BY <1>1, <3>1, <3>2, <3>3, <3>4, <3>5, <3>6 DEF OperationStep
  <2> QED
    BY <2>1, <2>2, OthersUndisturbed DEF ChecksHold
<1>2. ASSUME NEW c \in Callers, NEW q \in Requests, Call(c, q) \/ CallDeleteUnmanaged(c, q)
      PROVE  ChecksHold'
  BY <1>2 DEF Call, CallDeleteUnmanaged, StoreInv, StoreTypeOK, GoTo, ChecksHold,
              CheckHolds, WriteSteps, Target
<1>3. CASE Environment
  <2> USE DEF ChecksHold, CheckHolds, WriteSteps, Target
  <2>1. ASSUME NEW R \in SUBSET Repositories, Crash(R) PROVE ChecksHold'
    BY <2>1 DEF Crash, Forget
  <2>2. CASE PowerLoss
    BY <2>2, CallersAssumption DEF PowerLoss, Forget, CallersOf
  <2>3. ASSUME NEW f \in Files, WriteBack(f) PROVE ChecksHold'
    BY <2>3 DEF WriteBack
  <2>4. ASSUME NEW f \in Files, NEW v \in OutsideWrites, OutsideWrite(f, v)
        PROVE  ChecksHold'
    BY <2>4 DEF OutsideWrite, Change, InWindow, Alone, StoreInv, StoreTypeOK
  <2> QED
    BY <1>3, <2>1, <2>2, <2>3, <2>4 DEF Environment
<1>4. CASE UNCHANGED vars
  BY <1>4 DEF vars, storeVars, ChecksHold, CheckHolds, Target
<1> QED
  BY <1>1, <1>2, <1>3, <1>4 DEF Next

\* Write replaces exactly the file it has judged and was allowed to replace, and
\* Delete removes exactly the content it was told to remove, if other programs
\* keep out of the one-call window that the code leaves open.
THEOREM StoreTouchesOnlyManaged ==
  ASSUME Alone
  PROVE  Spec => TouchesOnlyManaged
<1>1. Init => ChecksHold
  BY DEF Init, StoreInit, ChecksHold, CheckHolds, WriteSteps
<1>2. StoreInv /\ ChecksHold /\ [Next]_vars => ChecksHold'
  BY ChecksHoldNext
<1>3. StoreInv /\ ChecksHold =>
        \A c \in Callers :
          step[c] \in {"rename", "remove"} /\ step'[c] = "syncdir" =>
            LET v == file[Target(c)] IN
            IF request[c].op = "write"
              THEN v = seen[c] /\ ~Refused(request[c], v)
              ELSE v = request[c].expected
  BY DEF StoreInv, CallsAreCoherent, Coherent, ChecksHold, CheckHolds, WriteSteps, DeleteSteps
<1> QED
  BY <1>1, <1>2, <1>3, StoreInvariant, PTL DEF Spec, TouchesOnlyManaged
-------------------------------------------------------------------------------
(* Every operation takes effect, or is turned down, at one instant.          *)

\* A call has arguments while it runs, and an answer once it has finished.
AnswerFits(c) ==
  /\ step[c] = "idle" <=> request[c] = NoRequest
  /\ step[c] \in {"cleanup", "done"} => answer[c] # NoAnswer
  /\ step[c] \notin {"idle", "cleanup", "done"} => answer[c] = NoAnswer

AnswersFit == \A c \in Callers : AnswerFits(c)

LEMMA AnswersFitNext ==
  ASSUME StoreInv, AnswersFit, [Next]_vars
  PROVE  AnswersFit'
<1> USE StoreAssumption DEF AnswersFit, AnswerFits
<1>1. ASSUME NEW c \in Callers, Enter(c) \/ OperationStep(c) PROVE AnswersFit'
  <2> USE DEF StoreInv, StoreTypeOK, GoTo, Finish, At
  <2>1. CASE Enter(c) \/ Exit(c) \/ Return(c) \/ DeleteUnmanaged(c)
    BY <2>1 DEF Enter, Exit, Return, DeleteUnmanaged, storeVars
  <2>2. CASE IOFailure(c)
    <3>1. step[c] \notin {"idle", "cleanup", "done"}
      BY <2>2 DEF IOFailure, CallsAreCoherent, Coherent
    <3> QED
      BY <2>2, <3>1 DEF IOFailure
  <2>3. CASE InspectOutput(c)
    <3>1. file[Target(c)] \in Values
      BY <2>3, AtFacts DEF InspectOutput, Steps
    <3>2. \E a \in Values \cup {"failed"} : Finish(c, a)
      BY <2>3, <3>1 DEF InspectOutput
    <3> QED
      BY <2>3, <3>2 DEF InspectOutput
  <2>4. CASE CheckOutput(c)
    BY <2>4 DEF CheckOutput
  <2>5. CASE RecheckOutput(c) \/ CreateTemp(c) \/ FillTemp(c) \/ SyncTemp(c)
    BY <2>5 DEF RecheckOutput, CreateTemp, FillTemp, SyncTemp
  <2>6. CASE CleanUp(c) \/ SyncDirectory(c)
    BY <2>6 DEF CleanUp, SyncDirectory
  <2>7. CASE LstatOutput(c) \/ DigestOutput(c)
    BY <2>7 DEF LstatOutput, DigestOutput
  <2>8. CASE RenameTemp(c) \/ RemoveOutput(c)
    BY <2>8 DEF RenameTemp, RemoveOutput
  <2> QED
    BY <1>1, <2>1, <2>2, <2>3, <2>4, <2>5, <2>6, <2>7, <2>8 DEF OperationStep
<1>2. ASSUME NEW c \in Callers, NEW q \in Requests, Call(c, q) \/ CallDeleteUnmanaged(c, q)
      PROVE  AnswersFit'
  BY <1>2 DEF Call, CallDeleteUnmanaged, StoreInv, StoreTypeOK, GoTo
<1>3. CASE Environment
  BY <1>3 DEF Environment, Crash, PowerLoss, Forget, WriteBack, OutsideWrite
<1>4. CASE UNCHANGED vars
  BY <1>4 DEF vars, storeVars
<1> QED
  BY <1>1, <1>2, <1>3, <1>4 DEF Next

LEMMA RefinesInit == Init => Promise!Init
BY DEF Init, StoreInit, Promise!Init

\* The abstract answer to a request that changes nothing.
LEMMA AnswerRefines ==
  ASSUME StoreInv, AnswersFit, NEW c \in Callers,
         step[c] \notin {"idle", "cleanup", "done"},
         NEW a, Finish(c, a), UNCHANGED <<file, request>>,
         a \in IF step[c] = "syncdir" THEN {"done", "failed"}
              ELSE Promise!Unapplied(request[c], file[Target(c)])
  PROVE  Promise!Answer(c)
<1>1. Promise!Pending(c)
  BY DEF AnswersFit, AnswerFits, Promise!Pending
<1>2. answer' = [answer EXCEPT ![c] = a]
  BY DEF Finish
<1>3. [d \in Callers |-> step'[d] = "syncdir"]
        = [[d \in Callers |-> step[d] = "syncdir"] EXCEPT ![c] = FALSE]
  BY DEF Finish, GoTo, StoreInv, StoreTypeOK
<1> QED
  BY <1>1, <1>2, <1>3 DEF Promise!Answer, RequestTarget, Target

\* A step that neither starts nor ends the window after the change of the file,
\* nor touches what the caller sees, is invisible.
LEMMA Invisible ==
  ASSUME UNCHANGED <<file, request, answer>>,
         \A d \in Callers : step'[d] = "syncdir" <=> step[d] = "syncdir"
  PROVE  UNCHANGED Promise!storeVars
<1>1. [d \in Callers |-> step'[d] = "syncdir"] = [d \in Callers |-> step[d] = "syncdir"]
  OBVIOUS
<1> QED
  BY <1>1 DEF Promise!storeVars

\* Rename and Remove are where an operation takes effect.
LEMMA ApplyRefines ==
  ASSUME StoreInv, AnswersFit, ChecksHold, NEW c \in Callers,
         RenameTemp(c) \/ RemoveOutput(c), GoTo(c, "syncdir"),
         UNCHANGED <<request, answer>>
  PROVE  Promise!Apply(c)
<1> DEFINE v == file[Target(c)]
<1> USE StoreAssumption
<1>1. /\ step[c] \in {"rename", "remove"} /\ pc[c] = "inside"
      /\ request[c] \in Requests /\ Target(c) \in Files /\ v \in Values /\ v # Torn
      /\ StoreTypeOK
  <2>1. At(c, "rename") \/ At(c, "remove")
    BY DEF RenameTemp, RemoveOutput
  <2>2. /\ request[c] \in Requests /\ Target(c) \in Files /\ v \in Values
        /\ NoTornOutput /\ StoreTypeOK
    BY <2>1, AtFacts DEF Steps, WriteSteps, DeleteSteps
  <2>3. v # Torn
    BY <2>2 DEF NoTornOutput
  <2> QED
    BY <2>1, <2>2, <2>3 DEF At
<1>2. Promise!Pending(c)
  BY <1>1 DEF AnswersFit, AnswerFits, Promise!Pending
<1>3. [d \in Callers |-> step'[d] = "syncdir"]
        = [[d \in Callers |-> step[d] = "syncdir"] EXCEPT ![c] = TRUE]
  BY <1>1 DEF GoTo, StoreTypeOK
<1>4. CASE RenameTemp(c)
  <2>1. /\ step[c] = "rename" /\ temp[c] = "synced" /\ request[c].op = "write"
        /\ seen[c] \in Regular \cup {Absent} /\ v = seen[c] /\ ~Refused(request[c], v)
    BY <1>1, <1>4, AtFacts DEF RenameTemp, At, Steps, WriteSteps, ChecksHold, CheckHolds, StoreTypeOK
  <2>2. Promise!MayReplace(request[c].expected, request[c].overwrite, v)
    BY <1>1, <2>1 DEF Promise!MayReplace, Refused, Regular
  <2>3. file' = [file EXCEPT ![Target(c)] = request[c].content]
    BY <1>1, <1>4, <2>1 DEF RenameTemp, Finish, GoTo, Change, StoreTypeOK
  <2> QED
    BY <1>1, <1>2, <1>3, <2>1, <2>2, <2>3 DEF Promise!Apply, RequestTarget, Target
<1>5. CASE RemoveOutput(c)
  <2>1. /\ step[c] = "remove" /\ request[c].op = "delete" /\ v = request[c].expected
    BY <1>1, <1>5, AtFacts DEF RemoveOutput, At, Steps, DeleteSteps, ChecksHold, CheckHolds
  <2>2. request[c].expected \in Contents
    BY <1>1, <2>1 DEF PossibleRequests, StoreInv, CallsAreCoherent, Coherent, Unlocked
  <2>3. Promise!MayRemove(request[c].expected, v)
    BY <2>1, <2>2 DEF Promise!MayRemove
  <2>4. file' = [file EXCEPT ![Target(c)] = Absent]
    BY <1>1, <1>5, <2>1 DEF RemoveOutput, Finish, GoTo, Change, StoreTypeOK
  <2> QED
    BY <1>1, <1>2, <1>3, <2>1, <2>3, <2>4 DEF Promise!Apply, RequestTarget, Target
<1> QED
  BY <1>4, <1>5

LEMMA CallStepRefines ==
  ASSUME StoreInv, AnswersFit, ChecksHold, NEW c \in Callers,
         Enter(c) \/ OperationStep(c)
  PROVE  Promise!Next \/ UNCHANGED Promise!storeVars
<1> DEFINE v == file[Target(c)]
<1> SUFFICES Promise!Answer(c) \/ Promise!Apply(c) \/ Promise!Return(c)
               \/ UNCHANGED Promise!storeVars
  BY DEF Promise!Next
<1> USE StoreAssumption
<1>1. /\ step \in [Callers -> Steps]
      /\ \A s \in Steps \ {"idle", "unmanaged", "done"} : At(c, s) =>
           /\ request[c] \in Requests /\ v \in Values \ {Torn}
           /\ s \in {"lstat"} \cup DeleteSteps => request[c].op = "delete"
  BY AtFacts DEF StoreInv, StoreTypeOK, NoTornOutput
<1>2. CASE Enter(c) \/ Exit(c)
  BY <1>2, Invisible DEF Enter, Exit, storeVars
<1>3. CASE Return(c)
  <2>1. [d \in Callers |-> step'[d] = "syncdir"] = [d \in Callers |-> step[d] = "syncdir"]
    BY <1>1, <1>3 DEF Return, GoTo
  <2>2. request[c] # NoRequest /\ answer[c] # NoAnswer
    BY <1>3 DEF Return, AnswersFit, AnswerFits
  <2> QED
    BY <1>3, <2>1, <2>2 DEF Return, Promise!Return
<1>4. CASE DeleteUnmanaged(c)
  <2>1. request[c].op = "delete" /\ request[c].expected = NoDigest
    BY <1>4 DEF DeleteUnmanaged, StoreInv, CallsAreCoherent, Coherent, Unlocked
  <2> QED
    BY <1>4, <2>1, AnswerRefines DEF DeleteUnmanaged, Promise!Unapplied
<1>5. CASE InspectOutput(c)
  BY <1>1, <1>5, AnswerRefines DEF InspectOutput, At, Steps, Promise!Unapplied
<1>6. CASE CheckOutput(c)
  <2>1. CASE Finish(c, "failed")
    BY <1>6, <2>1, AnswerRefines DEF CheckOutput, At, Promise!Unapplied
  <2>2. CASE v \in Regular /\ Refused(request[c], v) /\ Finish(c, "refused")
    <3>1. v \in Contents
      BY <1>1, <1>6, <2>2 DEF CheckOutput, Steps, Regular
    <3>2. ~Promise!MayReplace(request[c].expected, request[c].overwrite, v)
      BY <2>2, <3>1 DEF Refused, Promise!MayReplace
    <3> QED
      BY <1>6, <2>2, <3>1, <3>2, AnswerRefines DEF CheckOutput, At, Promise!Unapplied
  <2>3. CASE GoTo(c, "create") /\ UNCHANGED answer
    BY <1>1, <1>6, <2>3, Invisible DEF CheckOutput, At, GoTo
  <2> QED
    BY <1>6, <2>1, <2>2, <2>3 DEF CheckOutput
<1>7. CASE RecheckOutput(c)
  <2>1. CASE Finish(c, "failed")
    BY <1>7, <2>1, AnswerRefines DEF RecheckOutput, At, Promise!Unapplied
  <2>2. CASE GoTo(c, "rename") /\ UNCHANGED answer
    BY <1>1, <1>7, <2>2, Invisible DEF RecheckOutput, At, GoTo
  <2> QED
    BY <1>7, <2>1, <2>2 DEF RecheckOutput
<1>8. CASE CreateTemp(c) \/ FillTemp(c) \/ SyncTemp(c) \/ CleanUp(c)
  BY <1>1, <1>8, Invisible DEF CreateTemp, FillTemp, SyncTemp, CleanUp, At, GoTo
<1>9. CASE SyncDirectory(c)
  BY <1>9, AnswerRefines DEF SyncDirectory, At
<1>10. CASE LstatOutput(c)
  <2>1. /\ At(c, "lstat") /\ request[c].op = "delete" /\ UNCHANGED <<file, request>>
    BY <1>1, <1>10 DEF LstatOutput, Steps
  <2>2. CASE v = Absent /\ Finish(c, "nothing")
    BY <2>1, <2>2, AnswerRefines DEF At, Promise!Unapplied
  <2>3. CASE v \in NonRegular /\ Finish(c, "preserved")
    BY <2>1, <2>3, AnswerRefines DEF At, Promise!Unapplied, Promise!MayRemove
  <2>4. CASE GoTo(c, "digest") /\ UNCHANGED answer
    BY <1>1, <2>1, <2>4, Invisible DEF At, GoTo
  <2> QED
    BY <1>10, <2>2, <2>3, <2>4 DEF LstatOutput
<1>11. CASE DigestOutput(c)
  <2>1. /\ At(c, "digest") /\ request[c].op = "delete" /\ UNCHANGED <<file, request>>
    BY <1>1, <1>11 DEF DigestOutput, Steps, DeleteSteps
  <2>2. CASE Finish(c, "failed")
    BY <2>1, <2>2, AnswerRefines DEF At, Promise!Unapplied
  <2>3. CASE v # request[c].expected /\ Finish(c, "preserved")
    BY <2>1, <2>3, AnswerRefines DEF At, Promise!Unapplied, Promise!MayRemove
  <2>4. CASE GoTo(c, "remove") /\ UNCHANGED answer
    BY <1>1, <2>1, <2>4, Invisible DEF At, GoTo
  <2> QED
    BY <1>11, <2>2, <2>3, <2>4 DEF DigestOutput
<1>12. CASE RenameTemp(c) \/ RemoveOutput(c)
  <2>1. CASE Finish(c, "failed") /\ UNCHANGED <<file, request>>
    BY <1>12, <2>1, AnswerRefines DEF RenameTemp, RemoveOutput, At, Promise!Unapplied
  <2>2. CASE GoTo(c, "syncdir") /\ UNCHANGED <<request, answer>>
    BY <1>12, <2>2, ApplyRefines
  <2> QED
    BY <1>12, <2>1, <2>2 DEF RenameTemp, RemoveOutput
<1>13. CASE IOFailure(c)
  <2>1. step[c] \notin {"idle", "cleanup", "done"}
    BY <1>13 DEF IOFailure, StoreInv, CallsAreCoherent, Coherent
  <2> QED
    BY <1>13, <2>1, AnswerRefines DEF IOFailure, Promise!Unapplied
<1> QED
  BY <1>2, <1>3, <1>4, <1>5, <1>6, <1>7, <1>8, <1>9, <1>10, <1>11, <1>12, <1>13
     DEF OperationStep

LEMMA EnvironmentRefines ==
  ASSUME StoreInv, AnswersFit, ~PowerMayFail, Environment
  PROVE  Promise!Next \/ UNCHANGED Promise!storeVars
<1>1. ASSUME NEW R \in SUBSET Repositories, Crash(R) PROVE Promise!Next
  <2> DEFINE D == CallersOf(R)
  <2>1. [d \in Callers |-> step'[d] = "syncdir"]
          = [d \in Callers |-> IF d \in D THEN FALSE
                               ELSE [e \in Callers |-> step[e] = "syncdir"][d]]
    BY <1>1 DEF Crash, Forget
  <2>2. Promise!Die(D)
    BY <1>1, <2>1 DEF Crash, Forget, Promise!Die
  <2>3. D \in SUBSET Callers
    BY DEF CallersOf
  <2> QED
    BY <2>2, <2>3 DEF Promise!Next
<1>2. ASSUME NEW f \in Files, WriteBack(f) PROVE UNCHANGED Promise!storeVars
  BY <1>2, Invisible DEF WriteBack
<1>3. ASSUME NEW f \in Files, NEW v \in OutsideWrites, OutsideWrite(f, v)
      PROVE  Promise!Next
  BY <1>3 DEF OutsideWrite, Change, Promise!Outside, Promise!Next
<1> QED
  BY <1>1, <1>2, <1>3 DEF Environment, PowerLoss

LEMMA NextRefines ==
  ASSUME StoreInv, AnswersFit, ChecksHold, ~PowerMayFail, [Next]_vars
  PROVE  [Promise!Next]_(Promise!storeVars)
<1>1. ASSUME NEW c \in Callers, NEW q \in Requests, Call(c, q) \/ CallDeleteUnmanaged(c, q)
      PROVE  Promise!Next
  <2>1. request[c] = NoRequest
    BY <1>1 DEF Call, CallDeleteUnmanaged, AnswersFit, AnswerFits
  <2>2. [d \in Callers |-> step'[d] = "syncdir"] = [d \in Callers |-> step[d] = "syncdir"]
    BY <1>1 DEF Call, CallDeleteUnmanaged, GoTo, StoreInv, StoreTypeOK
  <2> QED
    BY <1>1, <2>1, <2>2 DEF Call, CallDeleteUnmanaged, Promise!Invoke, Promise!Next
<1>2. CASE UNCHANGED vars
  BY <1>2, Invisible DEF vars, storeVars
<1> QED
  BY <1>1, <1>2, CallStepRefines, EnvironmentRefines DEF Next

\* artifactRepository keeps its promise: seen from its callers, every Inspect,
\* Write and Delete happens at one instant, judged on the output of that instant,
\* although it is many system calls, any of which can fail or be the last before
\* the process dies.
THEOREM StoreImplementsOutputStore ==
  ASSUME Alone, ~PowerMayFail
  PROVE  Spec => ImplementsOutputStore
<1>1. Init => Promise!Init /\ ChecksHold /\ AnswersFit
  BY RefinesInit, StoreAssumption
     DEF Init, StoreInit, ChecksHold, CheckHolds, WriteSteps, AnswersFit, AnswerFits
<1>2. StoreInv /\ ChecksHold /\ AnswersFit /\ [Next]_vars
        => ChecksHold' /\ AnswersFit' /\ [Promise!Next]_(Promise!storeVars)
  BY ChecksHoldNext, AnswersFitNext, NextRefines
<1> QED
  BY <1>1, <1>2, StoreInvariant, PTL DEF Spec, ImplementsOutputStore, Promise!Spec

===============================================================================
