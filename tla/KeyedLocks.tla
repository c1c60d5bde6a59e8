------------------------------ MODULE KeyedLocks ------------------------------
(*****************************************************************************)
(* The lock table of artifactRepository (internal/repository/artifact.go):   *)
(* withLock runs an operation under a mutex that belongs to the cleaned      *)
(* path, creates that mutex on first use and deletes it with its last user.  *)
(*                                                                           *)
(* Every provider instance and every CLI process builds its own repository   *)
(* (internal/router.go), so the table is indexed by repository.  Mutexes     *)
(* have an identity: a deleted and re-created table entry is a new mutex,    *)
(* which is exactly what makes deleting entries dangerous.                   *)
(*****************************************************************************)
EXTENDS Naturals, FiniteSets

CONSTANTS
  Callers,        \* goroutines that call Inspect, Write or Delete
  Repositories,   \* artifactRepository objects
  RepositoryOf,   \* RepositoryOf[c]: the repository caller c was given
  Keys,           \* results of filepath.Clean
  Mutexes,        \* identities of *sync.Mutex
  NoMutex,        \* nil
  NoCaller,
  NoKey

ASSUME CallersAssumption ==
  /\ IsFiniteSet(Callers)
  /\ RepositoryOf \in [Callers -> Repositories]
  /\ NoMutex \notin Mutexes
  /\ NoCaller \notin Callers
  /\ NoKey \notin Keys

VARIABLES
  locks,        \* rcvr.locks, by repository
  references,   \* rcvr.references, by repository; an absent entry counts 0
  owner,        \* the caller that has a mutex locked
  pc,           \* where a caller is in withLock
  key,          \* cleanPath, local to the call
  lock          \* lock, local to the call

lockVars == <<locks, references, owner, pc, key, lock>>

\* The callers registered for key k in repository r.
Users(r, k) ==
  {c \in Callers : RepositoryOf[c] = r /\ pc[c] # "idle" /\ key[c] = k}

\* Mutexes some running call still holds a pointer to.
Reachable == {lock[c] : c \in {d \in Callers : pc[d] # "idle"}}

-------------------------------------------------------------------------------

LockInit ==
  /\ locks = [r \in Repositories |-> [k \in Keys |-> NoMutex]]
  /\ references = [r \in Repositories |-> [k \in Keys |-> 0]]
  /\ owner = [m \in Mutexes |-> NoCaller]
  /\ pc = [c \in Callers |-> "idle"]
  /\ key = [c \in Callers |-> NoKey]
  /\ lock = [c \in Callers |-> NoMutex]

\* Mutant: the first critical section does not count the reference.
MutantRegisterUncounted(c, k) ==
  LET r == RepositoryOf[c] IN
  /\ pc[c] = "idle"
  /\ \E m \in Mutexes :
       /\ IF locks[r][k] = NoMutex THEN m \notin Reachable ELSE m = locks[r][k]
       /\ locks' = [locks EXCEPT ![r][k] = m]
       /\ lock' = [lock EXCEPT ![c] = m]
  /\ pc' = [pc EXCEPT ![c] = "waiting"]
  /\ key' = [key EXCEPT ![c] = k]
  /\ UNCHANGED <<references, owner>>

\* Mutant: a new entry takes any mutex, also one that is in use elsewhere.
MutantRegisterShares(c, k) ==
  LET r == RepositoryOf[c] IN
  /\ pc[c] = "idle"
  /\ \E m \in Mutexes :
       /\ locks[r][k] \in {NoMutex, m}
       /\ locks' = [locks EXCEPT ![r][k] = m]
       /\ lock' = [lock EXCEPT ![c] = m]
  /\ references' = [references EXCEPT ![r][k] = @ + 1]
  /\ pc' = [pc EXCEPT ![c] = "waiting"]
  /\ key' = [key EXCEPT ![c] = k]
  /\ UNCHANGED owner

\* The first critical section: find or create the mutex, count the reference.
Register(c, k) ==
  LET r == RepositoryOf[c] IN
  /\ pc[c] = "idle"
  /\ \E m \in Mutexes :
       /\ IF locks[r][k] = NoMutex THEN m \notin Reachable ELSE m = locks[r][k]
       /\ locks' = [locks EXCEPT ![r][k] = m]
       /\ lock' = [lock EXCEPT ![c] = m]
  /\ references' = [references EXCEPT ![r][k] = @ + 1]
  /\ pc' = [pc EXCEPT ![c] = "waiting"]
  /\ key' = [key EXCEPT ![c] = k]
  /\ UNCHANGED owner

\* lock.Lock() returns.
Lock(c) ==
  /\ pc[c] = "waiting"
  /\ owner[lock[c]] = NoCaller
  /\ owner' = [owner EXCEPT ![lock[c]] = c]
  /\ pc' = [pc EXCEPT ![c] = "inside"]
  /\ UNCHANGED <<locks, references, key, lock>>

\* Mutant: an operation that failed returns without unlocking.
MutantUnlockOnSuccess(c) ==
  /\ pc[c] = "inside"
  /\ owner' \in {owner, [owner EXCEPT ![lock[c]] = NoCaller]}
  /\ pc' = [pc EXCEPT ![c] = "leaving"]
  /\ UNCHANGED <<locks, references, key, lock>>

\* lock.Unlock() after the operation, whatever it returned.
Unlock(c) ==
  /\ pc[c] = "inside"
  /\ owner' = [owner EXCEPT ![lock[c]] = NoCaller]
  /\ pc' = [pc EXCEPT ![c] = "leaving"]
  /\ UNCHANGED <<locks, references, key, lock>>

\* Leaving withLock: the locals of the call are gone.
Leave(c) ==
  /\ pc' = [pc EXCEPT ![c] = "idle"]
  /\ key' = [key EXCEPT ![c] = NoKey]
  /\ lock' = [lock EXCEPT ![c] = NoMutex]

\* Mutant: every leaving call deletes the mutex of its path.
MutantUnregisterDeletes(c) ==
  LET r == RepositoryOf[c]
      k == key[c]
  IN
  /\ pc[c] = "leaving"
  /\ references' = [references EXCEPT ![r][k] = @ - 1]
  /\ locks' = [locks EXCEPT ![r][k] = NoMutex]
  /\ Leave(c)
  /\ UNCHANGED owner

\* Mutant: the last call deletes the count but forgets the mutex.
MutantUnregisterLeaks(c) ==
  /\ pc[c] = "leaving"
  /\ references' = [references EXCEPT ![RepositoryOf[c]][key[c]] = @ - 1]
  /\ Leave(c)
  /\ UNCHANGED <<locks, owner>>

\* The second critical section: drop the reference, delete an unused entry.
Unregister(c) ==
  LET r == RepositoryOf[c]
      k == key[c]
  IN
  /\ pc[c] = "leaving"
  /\ references' = [references EXCEPT ![r][k] = @ - 1]
  /\ locks' = IF references'[r][k] = 0
                THEN [locks EXCEPT ![r][k] = NoMutex]
                ELSE locks
  /\ Leave(c)
  /\ UNCHANGED owner

\* Callers that live in one of the repositories R.
CallersOf(R) == {c \in Callers : RepositoryOf[c] \in R}

\* The processes that own the repositories R die and start again with empty
\* tables; what their callers held in memory is gone.
LockCrash(R) ==
  LET dead == CallersOf(R) IN
  /\ locks' = [r \in Repositories |->
                 IF r \in R THEN [k \in Keys |-> NoMutex] ELSE locks[r]]
  /\ references' = [r \in Repositories |->
                      IF r \in R THEN [k \in Keys |-> 0] ELSE references[r]]
  /\ owner' = [m \in Mutexes |-> IF owner[m] \in dead THEN NoCaller ELSE owner[m]]
  /\ pc' = [c \in Callers |-> IF c \in dead THEN "idle" ELSE pc[c]]
  /\ key' = [c \in Callers |-> IF c \in dead THEN NoKey ELSE key[c]]
  /\ lock' = [c \in Callers |-> IF c \in dead THEN NoMutex ELSE lock[c]]

CallerStep(c) ==
  \/ \E k \in Keys : Register(c, k)
  \/ Lock(c)
  \/ Unlock(c)
  \/ Unregister(c)

LockNext ==
  \/ \E c \in Callers : CallerStep(c)
  \/ \E R \in SUBSET Repositories : LockCrash(R)

LockSpec == LockInit /\ [][LockNext]_lockVars

\* A started call keeps running.  A sync.Mutex hands itself to a waiter that
\* was passed over for a millisecond, so waiting for it is strongly fair.
LockFairness ==
  \A c \in Callers :
    /\ SF_lockVars(Lock(c))
    /\ WF_lockVars(Unlock(c))
    /\ WF_lockVars(Unregister(c))

FairLockSpec == LockSpec /\ LockFairness

-------------------------------------------------------------------------------

\* The values the variables range over.
LockTypeOK ==
  /\ locks \in [Repositories -> [Keys -> Mutexes \cup {NoMutex}]]
  /\ references \in [Repositories -> [Keys -> Nat]]
  /\ owner \in [Mutexes -> Callers \cup {NoCaller}]
  /\ pc \in [Callers -> {"idle", "waiting", "inside", "leaving"}]
  /\ key \in [Callers -> Keys \cup {NoKey}]
  /\ lock \in [Callers -> Mutexes \cup {NoMutex}]

\* withLock serializes: two operations on one cleaned path never run at the
\* same time in one repository, although the mutex of that path may have been
\* deleted and created again while callers were on their way.
MutualExclusion ==
  \A c, d \in Callers :
    /\ c # d
    /\ pc[c] = "inside"
    /\ pc[d] = "inside"
    /\ RepositoryOf[c] = RepositoryOf[d]
    => key[c] # key[d]

\* The table describes exactly the running calls: a path has an entry while
\* and only while some call uses it, the count is the number of these calls,
\* and all of them point at the entry's mutex.  Nothing leaks, nothing is
\* deleted early.
TableMatchesUse ==
  \A r \in Repositories, k \in Keys :
    /\ references[r][k] = Cardinality(Users(r, k))
    /\ locks[r][k] = NoMutex <=> references[r][k] = 0
    /\ \A c \in Users(r, k) : lock[c] = locks[r][k]

\* A call is only ever held up by a call on the same path in the same
\* repository, so one slow output cannot block the others.
BlockedOnlyByOwnKey ==
  \A c \in Callers :
    /\ pc[c] = "waiting"
    /\ owner[lock[c]] # NoCaller
    => /\ RepositoryOf[owner[lock[c]]] = RepositoryOf[c]
       /\ key[owner[lock[c]]] = key[c]

\* Every call gets through withLock, however many others compete for the path.
EveryCallReturns ==
  \A c \in Callers : pc[c] # "idle" ~> pc[c] = "idle"

===============================================================================
