----------------------------- MODULE ArtifactStore -----------------------------
(*****************************************************************************)
(* artifactRepository (internal/repository/artifact.go): Inspect, Write and  *)
(* Delete of an output file, one action per system call, each operation run  *)
(* inside the withLock of KeyedLocks.  Around them: the other programs that  *)
(* edit the same directory, system calls that fail, processes that die and   *)
(* machines that lose power.                                                 *)
(*                                                                           *)
(* A content stands for its own SHA-256 digest; Torn is a content that was   *)
(* not known to be entirely on disk when it got its final name.              *)
(*****************************************************************************)
EXTENDS KeyedLocks

CONSTANTS
  Files,          \* output files
  FileOf,         \* FileOf[k]: the file a cleaned path names
  Contents,       \* complete contents
  Absent,         \* no file under the name
  Symlink, Directory,
  Torn,
  NoDigest,       \* the empty digest ""
  Requests,       \* requests callers may make
  NoRequest,
  NoAnswer,
  OutsideWrites,  \* what other programs may leave under an output's name
  RaceWindow,     \* whether they may do so between the last check of an
                  \* operation and the system call that check guards
  PowerMayFail    \* whether the machine may lose power

NonRegular == {Symlink, Directory}
Regular == Contents \cup {Torn}
Values == Regular \cup NonRegular \cup {Absent}

\* Inspect(path), Write(path, content, options), Delete(path, expectedDigest).
PossibleRequests ==
  [op : {"inspect"}, path : Keys]
    \cup [op : {"write"}, path : Keys, content : Contents,
          expected : Contents \cup {NoDigest}, overwrite : BOOLEAN]
    \cup [op : {"delete"}, path : Keys, expected : Contents \cup {NoDigest}]

ASSUME StoreAssumption ==
  /\ FileOf \in [Keys -> Files]
  /\ Requests \subseteq PossibleRequests
  /\ NoRequest \notin Requests
  /\ OutsideWrites \subseteq Contents \cup NonRegular \cup {Absent}
  /\ RaceWindow \in BOOLEAN
  /\ PowerMayFail \in BOOLEAN
  /\ Torn \notin Contents \cup NonRegular \cup {Absent}
  /\ Absent \notin Contents \cup NonRegular \cup {NoDigest}
  /\ NonRegular \cap Contents = {}
  /\ NoDigest \notin Contents
  /\ NoAnswer \notin Values \cup {"done", "failed", "refused", "preserved", "nothing"}

VARIABLES
  file,      \* file[f]: what is visible under the name f
  disk,      \* disk[f]: what a power loss would leave under that name
  acked,     \* acked[f]: what the last successful answer vouched for, until
             \* the file changes again
  request,   \* the arguments of a running call
  step,      \* the next system call of that call
  seen,      \* initiallyExists and initialDigest
  temp,      \* the temporary file of a Write
  answer     \* what the last call of a caller returned

storeVars == <<file, disk, acked, request, step, seen, temp, answer>>
vars == <<lockVars, storeVars>>

\* The file a caller works on.
Target(c) == FileOf[request[c].path]

\* The call is past lock.Lock() and its next system call is s.
At(c, s) ==
  /\ pc[c] = "inside"
  /\ step[c] = s

GoTo(c, s) == step' = [step EXCEPT ![c] = s]

\* The operation has its result; a Write still has to remove its temporary.
Finish(c, a) ==
  /\ answer' = [answer EXCEPT ![c] = a]
  /\ GoTo(c, IF temp[c] = "none" THEN "done" ELSE "cleanup")

\* What a visible change leaves to vouch for.
Change(f, v) ==
  /\ file' = [file EXCEPT ![f] = v]
  /\ acked' = [acked EXCEPT ![f] = NoAnswer]

-------------------------------------------------------------------------------

StoreInit ==
  /\ file \in [Files -> Contents \cup {Absent}]
  /\ disk = file
  /\ acked = [f \in Files |-> NoAnswer]
  /\ request = [c \in Callers |-> NoRequest]
  /\ step = [c \in Callers |-> "idle"]
  /\ seen = [c \in Callers |-> Absent]
  /\ temp = [c \in Callers |-> "none"]
  /\ answer = [c \in Callers |-> NoAnswer]

\* A caller enters Inspect, Write or Delete and registers for the lock.
Call(c, q) ==
  /\ step[c] = "idle"
  /\ ~(q.op = "delete" /\ q.expected = NoDigest)
  /\ Register(c, q.path)
  /\ request' = [request EXCEPT ![c] = q]
  /\ answer' = [answer EXCEPT ![c] = NoAnswer]
  /\ GoTo(c, IF q.op = "delete" THEN "lstat" ELSE "inspect")
  /\ UNCHANGED <<file, disk, acked, seen, temp>>

\* Delete of a resource that never managed a content takes no lock at all.
CallDeleteUnmanaged(c, q) ==
  /\ step[c] = "idle"
  /\ q.op = "delete"
  /\ q.expected = NoDigest
  /\ request' = [request EXCEPT ![c] = q]
  /\ answer' = [answer EXCEPT ![c] = NoAnswer]
  /\ GoTo(c, "unmanaged")
  /\ UNCHANGED <<lockVars, file, disk, acked, seen, temp>>

DeleteUnmanaged(c) ==
  /\ step[c] = "unmanaged"
  /\ Finish(c, "nothing")
  /\ UNCHANGED <<lockVars, file, disk, acked, request, seen, temp>>

\* The mutex of the path is ours: the operation may start.
Enter(c) ==
  /\ Lock(c)
  /\ UNCHANGED storeVars

\* The operation is over: release the mutex.
Exit(c) ==
  /\ step[c] = "done"
  /\ Unlock(c)
  /\ UNCHANGED storeVars

\* Mutant: returns without the second critical section of withLock.
MutantReturnRegistered(c) ==
  /\ step[c] = "done"
  /\ pc[c] \in {"idle", "leaving"}
  /\ request' = [request EXCEPT ![c] = NoRequest]
  /\ seen' = [seen EXCEPT ![c] = Absent]
  /\ GoTo(c, "idle")
  /\ UNCHANGED <<lockVars, file, disk, acked, temp, answer>>

\* withLock has tidied up and the call returns.
Return(c) ==
  /\ step[c] = "done"
  /\ IF request[c].op = "delete" /\ request[c].expected = NoDigest
       THEN UNCHANGED lockVars
       ELSE Unregister(c)
  /\ request' = [request EXCEPT ![c] = NoRequest]
  /\ seen' = [seen EXCEPT ![c] = Absent]
  /\ GoTo(c, "idle")
  /\ UNCHANGED <<file, disk, acked, temp, answer>>

-------------------------------------------------------------------------------
(* Inspect                                                                   *)

InspectOutput(c) ==
  /\ At(c, "inspect")
  /\ request[c].op = "inspect"
  /\ Finish(c, IF file[Target(c)] \in NonRegular THEN "failed" ELSE file[Target(c)])
  /\ UNCHANGED <<lockVars, file, disk, acked, request, seen, temp>>

-------------------------------------------------------------------------------
(* Write                                                                     *)

\* The ownership rule of Write, on the digest it has just read.
Refused(q, v) ==
  /\ v # Absent
  /\ ~q.overwrite
  /\ q.expected = NoDigest \/ v # q.expected

CheckOutput(c) ==
  LET v == file[Target(c)] IN
  /\ At(c, "inspect")
  /\ request[c].op = "write"
  /\ \/ v \in NonRegular /\ Finish(c, "failed") /\ UNCHANGED seen
     \/ v \in Regular /\ Refused(request[c], v) /\ Finish(c, "refused") /\ UNCHANGED seen
     \/ /\ v \notin NonRegular
        /\ ~Refused(request[c], v)
        /\ seen' = [seen EXCEPT ![c] = v]
        /\ GoTo(c, "create")
        /\ UNCHANGED answer
  /\ UNCHANGED <<lockVars, file, disk, acked, request, temp>>

CreateTemp(c) ==
  /\ At(c, "create")
  /\ temp' = [temp EXCEPT ![c] = "partial"]
  /\ GoTo(c, "fill")
  /\ UNCHANGED <<lockVars, file, disk, acked, request, seen, answer>>

\* Mutant: no Sync of the temporary file before it is renamed.
MutantFillTempOnly(c) ==
  /\ At(c, "fill")
  /\ temp' = [temp EXCEPT ![c] = "written"]
  /\ GoTo(c, "recheck")
  /\ UNCHANGED <<lockVars, file, disk, acked, request, seen, answer>>

\* Chmod and Write: the content is in the page cache.
FillTemp(c) ==
  /\ At(c, "fill")
  /\ temp' = [temp EXCEPT ![c] = "written"]
  /\ GoTo(c, "sync")
  /\ UNCHANGED <<lockVars, file, disk, acked, request, seen, answer>>

\* Sync and Close: the content is on disk under the temporary name.
SyncTemp(c) ==
  /\ At(c, "sync")
  /\ temp' = [temp EXCEPT ![c] = "synced"]
  /\ GoTo(c, "recheck")
  /\ UNCHANGED <<lockVars, file, disk, acked, request, seen, answer>>

\* Mutant: renames without looking at the output again.
MutantNoRecheck(c) ==
  /\ At(c, "recheck")
  /\ GoTo(c, "rename")
  /\ UNCHANGED <<lockVars, file, disk, acked, request, seen, temp, answer>>

\* The output must still be what the ownership rule was judged on.
RecheckOutput(c) ==
  /\ At(c, "recheck")
  /\ IF file[Target(c)] = seen[c]
       THEN GoTo(c, "rename") /\ UNCHANGED answer
       ELSE Finish(c, "failed")
  /\ UNCHANGED <<lockVars, file, disk, acked, request, seen, temp>>

\* os.Rename replaces anything but a directory.
RenameTemp(c) ==
  /\ At(c, "rename")
  /\ IF file[Target(c)] = Directory
       THEN /\ Finish(c, "failed")
            /\ UNCHANGED <<file, acked, temp>>
       ELSE /\ Change(Target(c),
                      IF temp[c] = "synced" THEN request[c].content ELSE Torn)
            /\ temp' = [temp EXCEPT ![c] = "none"]
            /\ GoTo(c, "syncdir")
            /\ UNCHANGED answer
  /\ UNCHANGED <<lockVars, disk, request, seen>>

\* Mutant: the directory is not synced before success is reported.
MutantNoDirectorySync(c) ==
  /\ At(c, "syncdir")
  /\ acked' = [acked EXCEPT ![Target(c)] = file[Target(c)]]
  /\ Finish(c, "done")
  /\ UNCHANGED <<lockVars, file, disk, request, seen, temp>>

\* syncDirectory: what is visible survives a power loss from here on.
SyncDirectory(c) ==
  LET f == Target(c) IN
  /\ At(c, "syncdir")
  /\ disk' = [disk EXCEPT ![f] = file[f]]
  /\ acked' = [acked EXCEPT ![f] = file[f]]
  /\ Finish(c, "done")
  /\ UNCHANGED <<lockVars, file, request, seen, temp>>

\* The deferred Close and Remove of the temporary file.
CleanUp(c) ==
  /\ At(c, "cleanup")
  /\ temp' = [temp EXCEPT ![c] = "none"]
  /\ GoTo(c, "done")
  /\ UNCHANGED <<lockVars, file, disk, acked, request, seen, answer>>

-------------------------------------------------------------------------------
(* Delete                                                                    *)

LstatOutput(c) ==
  LET v == file[Target(c)] IN
  /\ At(c, "lstat")
  /\ CASE v = Absent         -> Finish(c, "nothing")
       [] v \in NonRegular   -> Finish(c, "preserved")
       [] OTHER              -> GoTo(c, "digest") /\ UNCHANGED answer
  /\ UNCHANGED <<lockVars, file, disk, acked, request, seen, temp>>

\* Mutant: removes any regular file without comparing digests.
MutantNoDigest(c) ==
  /\ At(c, "digest")
  /\ IF file[Target(c)] \in NonRegular
       THEN Finish(c, "failed")
       ELSE GoTo(c, "remove") /\ UNCHANGED answer
  /\ UNCHANGED <<lockVars, file, disk, acked, request, seen, temp>>

\* A file that vanished since Lstat has the empty digest, which matches nothing.
DigestOutput(c) ==
  LET v == file[Target(c)] IN
  /\ At(c, "digest")
  /\ CASE v \in NonRegular           -> Finish(c, "failed")
       [] v = request[c].expected    -> GoTo(c, "remove") /\ UNCHANGED answer
       [] OTHER                      -> Finish(c, "preserved")
  /\ UNCHANGED <<lockVars, file, disk, acked, request, seen, temp>>

\* os.Remove takes whatever is there; with nothing there it fails.
RemoveOutput(c) ==
  /\ At(c, "remove")
  /\ IF file[Target(c)] = Absent
       THEN Finish(c, "failed") /\ UNCHANGED <<file, acked>>
       ELSE /\ Change(Target(c), Absent)
            /\ GoTo(c, "syncdir")
            /\ UNCHANGED answer
  /\ UNCHANGED <<lockVars, disk, request, seen, temp>>

-------------------------------------------------------------------------------
(* What can go wrong around the operations                                   *)

\* The next system call fails and has no effect; the operation returns its
\* error at once, through the deferred clean-up.
IOFailure(c) ==
  /\ pc[c] = "inside"
  /\ step[c] \notin {"cleanup", "done"}
  /\ Finish(c, "failed")
  /\ UNCHANGED <<lockVars, file, disk, acked, request, seen, temp>>

\* Processes die between two system calls.  A temporary file left behind keeps
\* a random name nobody looks up, so it is not followed further.
Forget(D) ==
  /\ request' = [c \in Callers |-> IF c \in D THEN NoRequest ELSE request[c]]
  /\ step' = [c \in Callers |-> IF c \in D THEN "idle" ELSE step[c]]
  /\ seen' = [c \in Callers |-> IF c \in D THEN Absent ELSE seen[c]]
  /\ temp' = [c \in Callers |-> IF c \in D THEN "none" ELSE temp[c]]
  /\ answer' = [c \in Callers |-> IF c \in D THEN NoAnswer ELSE answer[c]]

Crash(R) ==
  /\ LockCrash(R)
  /\ Forget(CallersOf(R))
  /\ UNCHANGED <<file, disk, acked>>

\* The machine loses power: every process dies and each name shows what was
\* on disk.
PowerLoss ==
  /\ PowerMayFail
  /\ LockCrash(Repositories)
  /\ Forget(CallersOf(Repositories))
  /\ file' = disk
  /\ UNCHANGED <<disk, acked>>

\* The file system writes a directory entry out by itself.
WriteBack(f) ==
  /\ disk[f] # file[f]
  /\ disk' = [disk EXCEPT ![f] = file[f]]
  /\ UNCHANGED <<lockVars, file, acked, request, step, seen, temp, answer>>

\* Some operation on f is between its last check and the call it guards.
InWindow(f) ==
  \E c \in Callers : step[c] \in {"rename", "remove"} /\ Target(c) = f

\* Another program changes an output.
OutsideWrite(f, v) ==
  /\ v # file[f]
  /\ RaceWindow \/ ~InWindow(f)
  /\ Change(f, v)
  /\ UNCHANGED <<lockVars, disk, request, step, seen, temp, answer>>

-------------------------------------------------------------------------------

Init == LockInit /\ StoreInit

OperationStep(c) ==
  \/ DeleteUnmanaged(c)
  \/ Exit(c)
  \/ Return(c)
  \/ InspectOutput(c)
  \/ CheckOutput(c)
  \/ CreateTemp(c)
  \/ FillTemp(c)
  \/ SyncTemp(c)
  \/ RecheckOutput(c)
  \/ RenameTemp(c)
  \/ SyncDirectory(c)
  \/ CleanUp(c)
  \/ LstatOutput(c)
  \/ DigestOutput(c)
  \/ RemoveOutput(c)
  \/ IOFailure(c)

Environment ==
  \/ \E R \in SUBSET Repositories : Crash(R)
  \/ PowerLoss
  \/ \E f \in Files : WriteBack(f)
  \/ \E f \in Files, v \in OutsideWrites : OutsideWrite(f, v)

Next ==
  \/ \E c \in Callers, q \in Requests : Call(c, q) \/ CallDeleteUnmanaged(c, q)
  \/ \E c \in Callers : Enter(c) \/ OperationStep(c)
  \/ Environment

Spec == Init /\ [][Next]_vars

\* A running operation is never suspended for good, and a sync.Mutex does not
\* starve its waiters; nothing is assumed of the environment.
Fairness ==
  \A c \in Callers :
    /\ SF_vars(Enter(c))
    /\ WF_vars(OperationStep(c))

FairSpec == Spec /\ Fairness

-------------------------------------------------------------------------------

WriteSteps == {"create", "fill", "sync", "recheck", "rename"}
DeleteSteps == {"digest", "remove"}
Steps ==
  {"idle", "unmanaged", "inspect", "lstat", "syncdir", "cleanup", "done"}
    \cup WriteSteps \cup DeleteSteps

\* The values the variables range over, and how the two program counters of a
\* call go together.
StoreTypeOK ==
  /\ file \in [Files -> Values]
  /\ disk \in [Files -> Values]
  /\ acked \in [Files -> Values \cup {NoAnswer}]
  /\ request \in [Callers -> Requests \cup {NoRequest}]
  /\ step \in [Callers -> Steps]
  /\ seen \in [Callers -> Regular \cup {Absent}]
  /\ temp \in [Callers -> {"none", "partial", "written", "synced"}]
  /\ answer \in [Callers -> Regular \cup {Absent, NoAnswer, "done", "failed",
                                       "refused", "preserved", "nothing"}]
  /\ \A c \in Callers : pc[c] \in {"waiting", "inside", "leaving"}
                         => step[c] \notin {"idle", "unmanaged"}

\* Success is atomic: whatever happens between two system calls, and even
\* across a power loss, an output is never a partly written file.
NoTornOutput ==
  \A f \in Files : Torn \notin {file[f], disk[f]}

\* A Write or Delete that reported success has really happened: a power loss
\* brings back neither an older output nor a deleted one.
AcknowledgedIsDurable ==
  \A f \in Files :
    acked[f] # NoAnswer => /\ disk[f] = acked[f]
                           /\ file[f] = acked[f]

\* Write replaces exactly the file it has judged, and only one the ownership
\* rule gives it; Delete removes exactly the content it was told to remove.
TouchesOnlyManaged ==
  [][\A c \in Callers :
       step[c] \in {"rename", "remove"} /\ step'[c] = "syncdir" =>
         LET v == file[Target(c)] IN
         IF request[c].op = "write"
           THEN v = seen[c] /\ ~Refused(request[c], v)
           ELSE v = request[c].expected]_vars

\* Every Inspect, Write and Delete comes back to its caller.
EveryOperationReturns ==
  \A c \in Callers : step[c] # "idle" ~> step[c] = "idle"

\* The steps of an operation, seen from outside, are one: a Write or Delete
\* takes effect in Rename or Remove, anything else is decided where its answer
\* is.
RequestTarget(q) == FileOf[q.path]

Promise == INSTANCE OutputStore WITH
  TargetOf <- RequestTarget,
  applied <- [c \in Callers |-> step[c] = "syncdir"]

ImplementsOutputStore == Promise!Spec
===============================================================================
