---------------------------- MODULE DefinitionSync ----------------------------
(***************************************************************************)
(* tools/awsdefinitions on a working tree: update, generate, generate      *)
(* -check and check-latest.  Every file is replaced on its own (temporary  *)
(* file and rename, nothing is synced), the snapshot first and the         *)
(* generated files in the order of their paths; then generated files the   *)
(* snapshot no longer names are removed.  The tool may fail or be killed   *)
(* between any two steps, the power may fail, people edit the tree, and    *)
(* the AWS provider publishes releases.                                    *)
(***************************************************************************)
EXTENDS DefinitionInventory

CONSTANTS
    Releases,     \* [version, complete, archive]
    ServiceRank,  \* the order of <service>_definitions_gen.go; 0 where there is none
    Starts,       \* releases and trees the runs may start from
    EditPaths,    \* bound: the files people touch
    Events,       \* which of stop, power, edit and publish happen
    MaxEvents,    \* bound: how many of them
    MaxLost       \* bound: files one power loss damages

VARIABLES
    upstream,  \* the latest release
    disk,      \* the tree as programs see it
    durable,   \* the tree as far as it surely is on the disk
    tool,      \* the run in progress
    verdict,   \* what the last run established and nothing has disturbed
    kept,      \* history: what people wrote and no run may have touched
    events     \* how many events have happened

vars == <<upstream, disk, durable, tool, verdict, kept, events>>

Snapshot == <<"snapshot", "">>
Paths == GoPaths \cup {Snapshot}

\* A file that is not there; one a person wrote; a directory or a symbolic link
\* instead of a file; one cut short by a power loss with and without its header.
Absent      == [is |-> "absent"]
Handwritten == [is |-> "handwritten"]
Directory   == [is |-> "directory"]
Link(content)  == [is |-> "link", to |-> content]
CutAfterHeader == [is |-> "headed"]
Blank          == [is |-> "blank"]

\* os.ReadFile follows a link; os.Rename and os.Remove do not.
Read(content) == IF content.is = "link" THEN content.to ELSE content

\* bytes.HasPrefix(content, generatedHeader)
Recognized(content) == Whole(content) \/ content.is = "headed"

\* MarshalIndent of the inventory.
Stored(inventory) == [is |-> "snapshot", inventory |-> inventory]

Idle   == [at |-> "idle"]
None   == [is |-> "none"]
Edited == [is |-> "edited"]

\* The byte order of the paths below internal/entity/aws.
Entries == << "action", "data_source", "ephemeral_resource", "function", "list_resource",
              "provider_definition_groups", "provider_definitions", "provider_metadata",
              "resource" >>

EntryRank(entry) == CHOOSE i \in DOMAIN Entries : Entries[i] = entry

Precedes(p, q) ==
    \/ EntryRank(p[1]) < EntryRank(q[1])
    \/ p[1] = q[1] /\ ServiceRank[p[2]] <= ServiceRank[q[2]]

\* The next of a sorted list of paths.
IsNext(path, paths) == path \in paths /\ \A q \in paths : Precedes(path, q)

\* Every start is a release and a tree: a content for each path.
ASSUME SyncAssumption ==
    /\ EditPaths \subseteq Paths
    /\ \A start \in Starts :
          /\ start.upstream \in Releases
          /\ start.disk = [p \in Paths |-> start.disk[p]]

\* The AWS provider keeps to its conventions in every release.
ASSUME ReleaseAssumption ==
    \A release \in Releases : \A file \in release.archive : Conventional(file)

-----------------------------------------------------------------------------
(* managedGeneratedFiles and checkGeneratedFiles *)

Managed == {path \in GoPaths : disk[path].is # "absent"}
Irregular == \E path \in GoPaths : disk[path].is \in {"directory", "link"}

\* The tree holds exactly these generated files.
Shows(tree, files) ==
    /\ \A path \in DOMAIN files : tree[path] = files[path]
    /\ \A path \in GoPaths \ DOMAIN files : tree[path].is = "absent"

Inventory == Read(disk[Snapshot]).inventory

\* readSnapshot, validateSnapshot and renderGeneratedFiles succeed.
SnapshotUsable == Read(disk[Snapshot]).is = "snapshot" /\ Acceptable(Inventory)

\* Mutant: stale files are not looked for.
CheckExpectedOnly ==
    /\ SnapshotUsable
    /\ ~Irregular
    /\ \A path \in DOMAIN Rendered(Inventory) : disk[path] = Rendered(Inventory)[path]

\* generate -check reports success.
CheckSucceeds == SnapshotUsable /\ ~Irregular /\ Shows(disk, Rendered(Inventory))

-----------------------------------------------------------------------------
(* The tool at work *)

\* What the run is going to replace, and the stale file whose header it has
\* read and which it removes next, whatever is there by then.
Exposed(run) ==
    CASE run.at = "idle" -> {}
      [] run.at = "snapshot" -> run.todo \cup {Snapshot}
      [] run.at = "write" -> run.todo
      [] run.at = "remove" -> run.checked

Init ==
    /\ \E start \in Starts : upstream = start.upstream /\ disk = start.disk
    /\ durable = disk
    /\ tool = Idle
    /\ verdict = None
    /\ kept = {path \in Paths : Read(disk[path]) = Handwritten}
    /\ events = 0

\* release, commit, definitions, validateSnapshot and renderGeneratedFiles:
\* whatever fails here fails, or panics, before the first write.
ReleaseUsable ==
    /\ upstream.complete
    /\ ~ArchiveRefused(upstream.archive)
    /\ Acceptable(SnapshotOf(upstream))

StartUpdate ==
    /\ tool = Idle
    /\ verdict' = None
    /\ IF ReleaseUsable
       THEN tool' = [at |-> "snapshot", todo |-> DOMAIN Rendered(SnapshotOf(upstream)),
                     checked |-> {}, inventory |-> SnapshotOf(upstream), release |-> upstream]
       ELSE UNCHANGED tool
    /\ kept' = kept \ Exposed(tool')
    /\ UNCHANGED <<upstream, disk, durable, events>>

\* Mutant: an unchanged snapshot ends the run.
WriteSnapshotOnce ==
    /\ tool.at = "snapshot"
    /\ UNCHANGED <<upstream, durable, verdict, kept, events>>
    /\ IF Read(disk[Snapshot]) \in {Directory, Stored(tool.inventory)}
       THEN tool' = Idle /\ UNCHANGED disk
       ELSE /\ disk' = [disk EXCEPT ![Snapshot] = Stored(tool.inventory)]
            /\ tool' = [tool EXCEPT !.at = "write"]

\* writeIfChanged: what is there, after a file with this content was to be
\* written.  An equal file, or a link to one, is left alone; any other file, and
\* any other link itself, is replaced.
Written(old, new) == IF Read(old) = new THEN old ELSE new

\* writeInventory: the snapshot.  writeIfChanged cannot read a directory.
WriteSnapshot ==
    /\ tool.at = "snapshot"
    /\ UNCHANGED <<upstream, durable, verdict, kept, events>>
    /\ IF Read(disk[Snapshot]) = Directory
       THEN tool' = Idle /\ UNCHANGED disk
       ELSE /\ disk' = [disk EXCEPT ![Snapshot] = Written(@, Stored(tool.inventory))]
            /\ tool' = [tool EXCEPT !.at = "write"]

StartGenerate ==
    /\ tool = Idle
    /\ verdict' = None
    /\ IF SnapshotUsable
       THEN tool' = [at |-> "write", todo |-> DOMAIN Rendered(Inventory), checked |-> {},
                     inventory |-> Inventory, release |-> None]
       ELSE UNCHANGED tool
    /\ kept' = kept \ Exposed(tool')
    /\ UNCHANGED <<upstream, disk, durable, events>>

\* Mutant: only missing files and those with another header are written.
WriteFileIfMissing ==
    /\ tool.at = "write"
    /\ \E path \in tool.todo :
        /\ IsNext(path, tool.todo)
        /\ IF Read(disk[path]) = Directory
           THEN tool' = Idle /\ UNCHANGED disk
           ELSE /\ disk' = [disk EXCEPT ![path] =
                               IF Recognized(@) THEN @ ELSE Rendered(tool.inventory)[path]]
                /\ tool' = [tool EXCEPT !.todo = @ \ {path}]
    /\ UNCHANGED <<upstream, durable, verdict, kept, events>>

\* writeGeneratedFiles: the next file.  Whatever file is there is replaced,
\* recognized or not.
WriteFile ==
    /\ tool.at = "write"
    /\ \E path \in tool.todo :
        /\ IsNext(path, tool.todo)
        /\ IF Read(disk[path]) = Directory
           THEN tool' = Idle /\ UNCHANGED disk
           ELSE /\ disk' = [disk EXCEPT ![path] = Written(@, Rendered(tool.inventory)[path])]
                /\ tool' = [tool EXCEPT !.todo = @ \ {path}]
    /\ UNCHANGED <<upstream, durable, verdict, kept, events>>

\* Mutant: every managed file counts as stale.
ListManagedAsStale ==
    /\ tool.at = "write" /\ tool.todo = {}
    /\ tool' = IF Irregular THEN Idle ELSE [tool EXCEPT !.at = "remove", !.todo = Managed]
    /\ UNCHANGED <<upstream, disk, durable, verdict, kept, events>>

\* writeGeneratedFiles: everything is written; which files are stale?
ListManaged ==
    /\ tool.at = "write" /\ tool.todo = {}
    /\ tool' = IF Irregular THEN Idle
               ELSE [tool EXCEPT !.at = "remove",
                                 !.todo = Managed \ DOMAIN Rendered(tool.inventory)]
    /\ UNCHANGED <<upstream, disk, durable, verdict, kept, events>>

\* Mutant: stale files are removed unseen.
CheckAnyStale ==
    /\ tool.at = "remove" /\ tool.checked = {}
    /\ \E path \in tool.todo :
        /\ IsNext(path, tool.todo)
        /\ tool' = [tool EXCEPT !.checked = {path}]
    /\ UNCHANGED <<upstream, disk, durable, verdict, kept, events>>

\* writeGeneratedFiles: the next stale file is read and must carry the header.
CheckStale ==
    /\ tool.at = "remove" /\ tool.checked = {}
    /\ \E path \in tool.todo :
        /\ IsNext(path, tool.todo)
        /\ tool' = IF Recognized(Read(disk[path])) THEN [tool EXCEPT !.checked = {path}]
                   ELSE Idle
    /\ UNCHANGED <<upstream, disk, durable, verdict, kept, events>>

\* writeGeneratedFiles: os.Remove takes whatever is there by now, an empty
\* directory too; nothing and a directory with something in it stop the run.
RemoveStale ==
    /\ tool.at = "remove"
    /\ \E path \in tool.checked :
        \/ /\ disk[path].is # "absent"
           /\ disk' = [disk EXCEPT ![path] = Absent]
           /\ tool' = [tool EXCEPT !.todo = @ \ {path}, !.checked = {}]
        \/ /\ disk[path].is \in {"absent", "directory"}
           /\ tool' = Idle /\ UNCHANGED disk
    /\ UNCHANGED <<upstream, durable, verdict, kept, events>>

\* The run reports success; it means something if nobody edited meanwhile.
Succeed ==
    /\ tool.at = "remove" /\ tool.todo = {}
    /\ tool' = Idle
    /\ verdict' = IF verdict = Edited THEN Edited
                  ELSE [is |-> "written", release |-> tool.release]
    /\ UNCHANGED <<upstream, disk, durable, kept, events>>

\* make aws-definitions-check: generate -check, then check-latest.
CheckCurrent ==
    /\ tool = Idle
    /\ CheckSucceeds
    /\ Inventory.version = upstream.version
    /\ verdict' = [is |-> "checked", release |-> upstream]
    /\ UNCHANGED <<upstream, disk, durable, tool, kept, events>>

ToolStep == \/ WriteSnapshot \/ WriteFile \/ ListManaged \/ CheckStale \/ RemoveStale
            \/ Succeed

-----------------------------------------------------------------------------
(* What nobody planned *)

Event(kind) ==
    /\ kind \in Events
    /\ events < MaxEvents
    /\ events' = events + 1

\* A system call fails, or the run is killed: writeIfChanged has either renamed
\* its temporary file or done nothing.
Stop ==
    /\ Event("stop")
    /\ tool # Idle
    /\ tool' = Idle
    /\ verdict' = None
    /\ UNCHANGED <<upstream, disk, durable, kept>>

\* What a power loss may make of one file that was never synced.
Survivors(path) ==
    {durable[path]} \cup
    (IF Whole(disk[path]) THEN {CutAfterHeader, Blank}
     ELSE IF disk[path].is = "snapshot" THEN {Blank}
     ELSE {})

PowerLoss ==
    /\ Event("power")
    /\ \E lost \in SUBSET {p \in Paths : disk[p] # durable[p]} :
          /\ Cardinality(lost) <= MaxLost
          /\ \E left \in [lost -> UNION {Survivors(p) : p \in lost}] :
                /\ \A p \in lost : left[p] \in Survivors(p)
                /\ disk' = [p \in Paths |-> IF p \in lost THEN left[p] ELSE disk[p]]
    /\ durable' = disk'
    /\ tool' = Idle
    /\ verdict' = None
    /\ UNCHANGED <<upstream, kept>>

\* What a person may leave at a path; a link may lead to the file that was there.
Editions(path) ==
    {Absent, Handwritten, Directory, Link(Handwritten)} \cup
    (IF disk[path].is \in {"absent", "directory", "link"} THEN {} ELSE {Link(disk[path])})

\* A person removes, writes, misplaces or links a file; edits are saved properly.
Edit ==
    /\ Event("edit")
    /\ \E path \in EditPaths : \E content \in Editions(path) \ {disk[path]} :
          /\ disk' = [disk EXCEPT ![path] = content]
          /\ durable' = [durable EXCEPT ![path] = content]
          /\ kept' = IF Read(content) = Handwritten /\ path \notin Exposed(tool)
                     THEN kept \cup {path} ELSE kept \ {path}
    /\ verdict' = Edited
    /\ UNCHANGED <<upstream, tool>>

\* A person edits the snapshot by hand: some other inventory under the same
\* version, in order or not.
EditSnapshot ==
    /\ Event("edit")
    /\ disk[Snapshot].is = "snapshot"
    /\ \E d \in Inventory.definitions, ordered \in BOOLEAN :
          disk' = [disk EXCEPT ![Snapshot].inventory.definitions = @ \ {d},
                               ![Snapshot].inventory.ordered = ordered]
    /\ durable' = [durable EXCEPT ![Snapshot] = disk'[Snapshot]]
    /\ verdict' = Edited
    /\ UNCHANGED <<upstream, tool, kept>>

Publish ==
    /\ Event("publish")
    /\ \E release \in Releases : release.version > upstream.version /\ upstream' = release
    /\ UNCHANGED <<disk, durable, tool, verdict, kept>>

Next ==
    \/ StartUpdate \/ StartGenerate \/ CheckCurrent
    \/ WriteSnapshot \/ WriteFile \/ ListManaged \/ CheckStale \/ RemoveStale \/ Succeed
    \/ Stop \/ PowerLoss \/ Edit \/ EditSnapshot \/ Publish

\* A running command goes on, and the developer runs update again and again.
Fairness == WF_vars(ToolStep) /\ SF_vars(StartUpdate)

Spec == Init /\ [][Next]_vars /\ Fairness

-----------------------------------------------------------------------------
(* Properties *)

\* Types: what a run still has to do are paths it may touch.
SyncTypeOK ==
    /\ upstream \in Releases
    /\ DOMAIN disk = Paths /\ DOMAIN durable = Paths
    /\ tool.at \in {"idle", "snapshot", "write", "remove"}
    /\ tool # Idle => tool.todo \subseteq GoPaths
    /\ tool.at = "remove" =>
          /\ tool.todo \cap DOMAIN Rendered(tool.inventory) = {}
          /\ tool.checked \subseteq tool.todo
    /\ kept \subseteq Paths
    /\ verdict.is \in {"none", "edited", "written", "checked"}

\* A run of update or generate that reported success has left what generate
\* -check accepts, whatever failed, was cut short or was left by earlier runs.
SuccessPassesCheck == verdict.is = "written" => CheckSucceeds

\* After a successful update the provider compiles, and LookupDefinition knows
\* exactly what the release registers, under the right kind and service.
UpdatedBuildKnowsRelease ==
    verdict.is = "written" /\ verdict.release # None =>
        Compiles(disk) /\ Known(disk) = Registered(verdict.release.archive)

\* What make aws-definitions-check accepts compiles and knows exactly the
\* definitions of the snapshot: no leftover of an interrupted run is overlooked.
CheckedBuildKnowsSnapshot ==
    verdict.is = "checked" => Compiles(disk) /\ Known(disk) = Inventory.definitions

\* What a person wrote stays, through any number of runs, kills, power losses
\* and publications, until the person changes it or a run sets out to write a
\* generated file there.  Two windows are left out: a file saved where the run
\* in progress still has to write is replaced, and one saved between the look
\* at the header of a stale file and os.Remove is removed unseen.
HandwrittenIsKept == \A path \in kept : Read(disk[path]) = Handwritten

\* Update can be refused for ever only because of what it may not touch: a
\* stale file without the header, a directory, or a link: where nothing is to
\* be written, or to the very bytes that are to be written.
Blocked ==
    LET files == Rendered(SnapshotOf(upstream))
    IN  \/ \E path \in Paths : Read(disk[path]) = Directory
        \/ \E path \in GoPaths :
              IF path \in DOMAIN files THEN disk[path] = Link(files[path])
              ELSE disk[path].is \in {"handwritten", "blank", "link"}
        \/ ~ReleaseUsable

UpToDate ==
    /\ Read(disk[Snapshot]) = Stored(SnapshotOf(upstream))
    /\ Shows(disk, Rendered(SnapshotOf(upstream)))

\* From whatever failures, kills, power losses and edits have left, updating
\* again brings the tree to the latest release for good, unless it is blocked.
SyncConverges == <>[](Blocked \/ UpToDate)
=============================================================================
