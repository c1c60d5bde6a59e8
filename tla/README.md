# Verification of the xaligo Terraform provider

TLA+ models, TLC runs and TLAPS proofs for the provider that turns Terraform sources into
`.xal` diagram files. Paths below are relative to the repository root; `internal/...` is
`src/internal/...` in the maps of `PROJECT.json`.

## 1. Inventory

| Part | Source | State | Operations | Made hard by |
|---|---|---|---|---|
| Lock table | `internal/repository/artifact.go` (`withLock`) | mutex and reference count per cleaned path, one table per repository | look up or create, lock, unlock, drop and delete | entries deleted while other callers are on their way to them |
| Artifact repository | `internal/repository/artifact.go` | the output files; a temporary file during `Write` | `Inspect`, `Write`, `Delete` | each is many system calls; other programs, failures, crashes and power losses fall between any two |
| Diagram lifecycle | `internal/usecase/diagram.go`, `internal/controller/diagram_resource.go` | Terraform state (identity, mode, three digests), saved plans | `Plan`, `Apply`, `Read`, `Delete`, `Generate` | everything may change between plan and apply: sources, provider build, export mode, links, outputs |
| Path resolution | `internal/repository/path.go` | none; reads the file system | `ResolveLexical`, `Resolve`, `StableID` | two resolutions of one path that must agree |
| Resource schema and handlers | `internal/controller/diagram_resource.go` | Terraform state and plans | `ValidateConfig`, `ModifyPlan`, `Create`, `Update`, `Read`, `Delete` | values are null or unknown at plan and turn out to be something else at apply |
| Conversion pipeline | `internal/usecase/diagram.go` (`Convert`, `Items`), `internal/entity/common/diagnostic.go` | none | load, graph, map, marshal; cancellation between stages | errors must stop the pipeline before content exists; handlers and use case share the job of reporting them |
| Terraform loader | `internal/repository/terraform.go`, `internal/entity/common/infrastructure.go` | none | list, read and parse `.tf` files, build the graph | the directory is edited while its files are read one by one |
| AWS mapping | `internal/repository/aws.go`, `internal/entity/common/infrastructure.go` | during `Map`: consumed nodes, identities taken, used references | VPCs, subnets, contents, the rest by scope, omitted dependencies | passes depend on what earlier passes consumed; ambiguous references; identity collisions |
| Layout | `internal/entity/xaligo/layout.go` | the tree of elements, the map of items, names already used | containers, layouts, rows, grid, weights | each block works on the tree the earlier ones left |
| Serializer | `internal/repository/xaligo.go`, `internal/entity/xaligo/xal.go` | none | validate and encode the document | encoding is pure text |
| Provider, data source, command line | `internal/controller/*.go`, `internal/router.go`, `main.go` | immutable provider data | configure, serve, convert | who shares a repository with whom |
| Definition generator | `tools/awsdefinitions/main.go` | the snapshot and several hundred generated files | `update`, `generate`, `generate -check`, `check-latest` | files are replaced one by one, unsynced; a run can end between any two |
| Generated definitions | `internal/entity/aws/*_gen.go`, `definition.go` | constant tables | look-up | they compile only if the files fit together |

How they interact. Terraform (or the `convert` command) calls the controller, the controller
calls the use case, the use case resolves paths, converts the sources and calls the artifact
repository, which is the only part that changes anything on disk. Terraform runs operations of
different resources concurrently in goroutines that share one provider instance and therefore
one lock table; every other process has a table of its own (`newUsecase` builds a fresh
repository). The only memory between two runs is the Terraform state.

What makes each part correct:

- *Lock table*: operations on one path exclude each other; operations on different paths never
  wait for each other; the table holds exactly the paths in use; everybody gets through.
- *Artifact repository*: outputs are never partly written; a reported success survives a power
  loss; only what the ownership rule allows is replaced or removed; each operation looks like
  one instant to everybody else.
- *Handlers and pipeline*: no answer without its result and without an error, none with both; what
  validation accepts can be planned; an apply does what the plan promised with the values as they
  are known in the end; refresh and destroy find the file that was written.
- *Lifecycle*: an apply writes only what was planned, where it was planned; a resource never
  takes somebody else's output without `overwrite`; the state tells the truth about the output;
  the plan after an apply is empty; repeated applies reach the configuration.
- *AWS mapping*: every block of the source is drawn exactly once; what is drawn inside a VPC, or
  called public or private, agrees with what else is drawn there; no dependency vanishes
  without a word; sources without tricks are accepted.
- *Definition generator*: a run that reports success leaves what the check accepts; what the check
  accepts compiles and knows exactly the snapshot; nothing a person wrote is lost; running the
  update again repairs whatever an earlier run left.
- *Layout*: blocks rearrange elements but never take one out of its AWS group, lose or copy it;
  a later block leaves an earlier one intact; the document has distinct identities and columns
  that fit.

The hazards behind these properties, each at its line, are listed in `PROJECT.json`.

## 2. Modules

| Module | What it is |
|---|---|
| `KeyedLocks` | the lock table: `withLock` as four actions, and the crash of a process |
| `Ownership` | the ownership rule (`MayReplace`, `MayRemove`), used wherever an output is replaced or removed |
| `OutputStore` | abstract: every `Inspect`, `Write`, `Delete` is one atomic step |
| `ArtifactStore` | `artifactRepository`, one action per system call, on top of `KeyedLocks` |
| `ArtifactStoreProofs` | the inductive invariant of `KeyedLocks` and four theorems; `ArtifactStore` uses the locks correctly; types; no torn output; durable success; only managed outputs are touched; it implements `OutputStore` |
| `DiagramLifecycle` | resources under Terraform, built on the atomic view of writes |
| `DiagramLifecycleProofs` | its inductive invariant; types, four action properties and one invariant |
| `PathResolution` | `Resolve`, `ResolveLexical` and `StableID` over a tree with links |
| `TerraformLoader` | which files and blocks count, references, `BuildGraph`, diagnostics |
| `DiagramConversion` | values, schema, checks and `Marshal`, on top of the last two |
| `DiagramRequests` | every request of the provider and the command, stage by stage, on top of `DiagramConversion` and `Ownership` |
| `SequenceFolds` | induction over sequences, and what a fold from the left does with one more element |
| `PathResolutionProofs` | textual and real resolution name the same file |
| `DiagramRequestsProofs` | its five inductive invariants and a theorem for each property of the run |
| `AwsMapping` | `awsRepository.Map`: where every node of the graph is drawn |
| `AwsMappingProofs` | its three inductive invariants and a theorem for each property of the run |
| `LayoutPlacement` | `ApplyExplicitLayout` and `NewXALDocument`: what the blocks of a resource do to the tree |
| `LayoutPlacementProofs` | what a block and the grid do to any tree; the inductive invariant and a theorem for each property of the run |
| `DefinitionInventory` | the pipeline from release archive to generated files, and what `definition.go` makes of them |
| `DefinitionSync` | `update`, `generate`, `-check` and `check-latest` on a working tree that fails, dies and is edited |
| `DefinitionSyncProofs` | the scanner finds what an archive registers; its inductive invariants and five theorems |
| `MCKeyedLocks`, `MCArtifactStore`, `MCDiagramLifecycle`, `MCDiagramRequests`, `MCAwsMapping`, `MCLayoutPlacement`, `MCDefinitionSync` | values for model checking |

### Lock table (`KeyedLocks`)

`locks` and `references` are the two maps, indexed by repository; `owner` is the state of the
mutexes; `pc`, `key`, `lock` are the locals of a call. `Register` is the first critical section
of `withLock` (both run under `rcvr.mutex`, so each is one step), `Lock` the return of
`lock.Lock()`, `Unlock` the release, `Unregister` the second critical section. Mutexes have an
identity: after the last user deletes an entry, the next caller makes a new mutex, and the
model lets `Register` take any mutex no running call can still reach. An absent map entry
counts 0.

### Artifact repository (`ArtifactStore`)

`step[c]` is the next system call of caller `c`; `At(c, s)` is that call inside the lock. A
`Write` goes inspect, create, fill, sync, recheck, rename, syncdir; a `Delete` lstat, digest,
remove, syncdir. `file` is what other programs see under a name, `disk` what a power loss would
leave there. `RenameTemp` puts the content in place only if the temporary file was synced
before (otherwise `Torn`, a content that may be partial after a power loss); `SyncDirectory`
makes the visible entry durable; `WriteBack` lets the file system do so at any time. `acked` is
a history variable: what the last successful answer vouched for. `Finish` sends every return of
a `Write` with a temporary file through the deferred clean-up.

Abstractions: a content is its own digest (SHA-256 collisions are ignored); the Lstat, open and
read of `inspectRegular` are one step, so that an edit during the read is an edit before or
after it; a temporary file left behind by a crash has a random name nobody looks up and is not
followed; `Chmod` and `Write` are one step, and so are `Sync` and `Close`.

### Lifecycle (`DiagramLifecycle`)

`state[r]` is `DiagramComputed` plus the recorded `overwrite`; `plan[r]` a plan Terraform may
still apply; `writing[r]` what an Apply has converted and is about to write. `Plan`, the two
halves of `Apply` (`ApplyConvert` up to the write, `ApplyWrite` from it on) and `Delete` are
separate steps, so the world can change in between. Conversion is the table `Converted` from
build and source to a content or `Invalid`. Path resolution is the pair of tables `RealFile`
(`Resolve`) and `LexicalFile` (`ResolveLexical`, opened by the operating system). `writer` and
`authored` are history variables the properties compare with.

Terraform's own part is modelled as far as the properties need it: a plan is discarded when the
state it was made from changes (Terraform refuses stale plans), an error leaves the state as it
was, success stores the returned values. Left out: the second planning during apply, which
repeats a check `Apply` makes itself, and replacement of a resource because its paths changed.

### Requests (`PathResolution`, `TerraformLoader`, `DiagramConversion`, `DiagramRequests`)

The lifecycle takes conversion and paths as tables and follows digests through many plans; these
four modules open the tables and follow one resource, the data source and the `convert` command
through single requests. `config` holds the attributes of the resource, each `Null`, `Unknown` or a
value; `data` is `providerData`; `dir` the directory with the sources, `disk` the outputs. `call` is
the request being served and where it is in the pipeline; `answer` is what was answered last: its
diagnostics, whether there is a result (`done`), whether the output was written.

- `ValidateProvider`, `ValidateResource`, `Configure` are the handlers of the same name, once for a
  configuration and command. `StartPlan`, `StartApply`, `StartItems`, `StartConvert` are
  `ModifyPlan`, `Create`/`Update`, the data source's `Read` and `Generate` up to the call of
  `Convert` or `Items`, with every refusal; with export disabled they are complete.
- `CheckOptions`, `ListDirectory`, `ReadFile` (one entry of the loop), `Loaded`, `MapGraph`,
  `Encode` are the stages of `Convert` and `Items`. Others may edit the directory between any two,
  and the request may be cancelled; the code looks at the context only where the model does.
- `FinishPlan`, `FinishApply`, `FinishConvert` are the rest of `Plan`, `Apply` and `Generate` with
  what the controller appends to the response; `Read` and `Delete` are refresh and destroy.
- `Evaluate` makes unknown values known; `StartApply` does the same for those of the plan.

`PathResolution` has the two functions of `path.go` on a tree of directories, files and links:
`Clean` is `filepath.Clean`, `EvalSymlinks` what the system calls follow. `TerraformLoader` takes
what the HCL parser makes of a file as given, `DiagramConversion` has Go's `int` with a width
(`Narrow`), the decoding of lists with unknown elements (`Listed`), `ValidateConfig`, the option
checks of `Convert`, and `Marshal` as the set of encoded elements.

Abstractions: Terraform core plans again when it applies, with what it has learned since; the model
lets `Apply` have any learned values, so it allows more. A row of columns whose items are unknown
at plan and contain a null at apply would be written and answered with an error; values of that kind
are left out (`KeepsTheKnown`). `Configured` is what a configuration may become while values become
known; `LearnsWell` says that no value is unknown when a resource is created or updated, which
Terraform guarantees, and that the schema still holds (`WellFormed`). TLC evaluates both on every
configuration of the run (`RequestsAssumption`). The write of the output is one step that may fail before or after
(`ArtifactStore` has its system calls). `convert` runs only before there is a plan or state:
`DiagramLifecycle` follows outputs that others write. `Diagram path changed after planning` cannot
happen here, where the tree does not change; `DiagramLifecycle` turns links. What blocks refer to
are nodes and siblings (`LayoutPlacement` has the tree), and the sources have no VPCs (`AwsMapping`
has them). The `row` number of layout blocks is left out, because the code overwrites it.

### AWS mapping (`AwsMapping`)

A graph is a function from numbers to nodes; the numbers are the order of the addresses, which
`BuildGraph` sorts by, and a node has a kind, a type, a zone, an identity and, for each
attribute, the set of addresses it refers to (`expressionReferences` returns each address once).
The actions follow `Map`: `PrepareIdentities`; for each VPC `StartVpc` (its subnets and their
zones), `MapSubnet` for each subnet, `FinishVpc` (everything else that refers to the VPC, and
its region); `MapRest` (the rest by scope, the cloud's children, the omitted dependencies);
`BuildItemMap`, the check for duplicates the explicit layout begins with. `consumed`, `owned`
(identities taken) and `used` (references that count as shown) are the maps of the session;
`drawn` and `boxes` are the tree, as pairs of an element and the identity around it. What is in a
VPC is judged by the tree (`Inside`): its own element and the groups made directly in it.

Abstractions: sixteen types stand for the catalogue, one for each way `Map` can treat a type;
identities are tuples, so that a generated identity can collide only where an address spells
it (`MCAwsMapping` has addresses that do); titles, icons and source ranges are left out.

### Layout (`LayoutPlacement`)

The tree is a set of elements, each with its `place`: the numbers that lead to it from the frame,
one for each level. `Level`, `Kids` and `Within` are what lies at a place, below an element, and the
element with all below it. Siblings are in the order of their numbers, and the numbers may have gaps:
when a block takes elements away, the code closes up the slice, and the model leaves the others where
they are. A generated tree is what `IsGenerated` says, which is what the model relies on of `Map`.

`ApplyContainer`, `ApplyLayout` and `ApplyRow` are the three loops of `ApplyExplicitLayout`, one step
per block, with all their refusals; the practitioner's next block is chosen when the code gets to it.
`Fitting` and `IsFirst` are the search, parents before children, for the first level that holds all
members; `Wrapped` replaces the members by the block's element, which stands where the first of them
stood. `Finish` is `NewXALDocument` (grid, then weights) and `ValidateXAL`. Spans count
twelfths of a column, so that the divisions that occur are exact; identities are normalized.
Of a layout's style the model keeps the row weight, whether it needs a group, whether it
staggers, and whether `validateLayoutStyle` accepts it.

### Definition generator (`DefinitionInventory`, `DefinitionSync`)

`DefinitionInventory` is the generator as functions: which files of the archive count, which literal
is registered as what (`RegistrationKind`), `validateSnapshot` (`Validated`), `groupDefinitions`
(`Renderable`) and the content of every file (`Rendered`). On the other side are the Go compiler
(`Compiles`) and `LookupDefinition` (`Known`), so that one can ask what a build knows.

`DefinitionSync` runs it on a tree. `disk` is what programs see, `durable` what surely survives a
power loss, `tool` the run in progress, `verdict` what the last run established. `StartUpdate` and
`StartGenerate` do everything that can be refused before the first write; `WriteSnapshot`,
`WriteFile` (in the order of paths), `ListManaged`, and for each stale file `CheckStale` (it is read
and must carry the header) and `RemoveStale` (`os.Remove` of whatever is there by then) are the
writes and removals of `writeInventory` and `writeGeneratedFiles`, the writes by temporary file and
rename but without a sync; `CheckCurrent` is `generate -check` and `check-latest`. `Stop` stands for
every failure and kill; after a `PowerLoss` an unsynced file is old, cut after its header, or blank.
People remove, write, misplace or link files and edit the snapshot, between any two steps. A link
is followed when it is read and replaced or removed itself when the tool writes or removes; a
directory stops a write. The read and the rename of `writeIfChanged` are one step: an edit between
them is lost like an edit before the read. `kept` is a history variable: where a person has written
and no run has set out to write since. Left out: the `-snapshot` flag, HTTP and Go parsing.

## 3. Runs

| Run | Instance | Shows |
|---|---|---|
| `locks` | 4 callers (3 share a repository), 2 paths, 4 mutexes; crashes of any set of repositories | `MutualExclusion`, `TableMatchesUse`, `BlockedOnlyByOwnKey`, `EveryCallReturns` |
| `store_safety` | 3 callers, 1 file, failing calls, crashes, power loss, outside edits at any time; symmetry | `NoTornOutput`, `AcknowledgedIsDurable` |
| `store_promise` | 2 callers, all kinds of requests, outside edits except in the one-call window | `ImplementsOutputStore`, `TouchesOnlyManaged`, `EveryOperationReturns` |
| `lifecycle_single` | 1 resource, 3 sources (one invalid), 2 builds, 5 changes of the world, no half-failed operation | `StateMatchesOutput`, `StoresWhatWasPlanned`, `SecondPlanIsEmpty`, `Converges` |
| `lifecycle_shared` | 2 resources, 2 files, turning links, half-failed operations, 2 changes | `WritesOnlyWhatWasPlanned`, `KeepsForeignOutput` |
| `lifecycle_fault` | 1 resource, half-failed operations | violated: `OwnOutputIsNotForeign` |
| `requests` | a configuration with up to two unusual attributes, 5 export modes, sources of 2 files, a tree with links, cancellation at any time, 1 change by others | `AnswersAreHonest`, `AcceptedConfigurationPlans`, `ApplyKeepsThePlan`, `RefreshFindsTheOutput` |
| `mapping` | all graphs of four families of `MCAwsMapping` | `NothingLost`, `OrdinaryIsAccepted`, `IdentitiesDistinct`, `VisibilityIsShown`, `VpcDependencyAccounted` |
| `mapping_ambiguous` | the same | violated: `AmbiguousStaysNeutral` |
| `layout` | 2 trees, every sequence of up to 3 blocks out of about 220, 3 grids (157751 states) | `ItemsMapCurrent`, `ContainmentKept`, `BlocksHoldTheirItems`, `SpansFit`, `DocumentIdentities` |
| `layout_row` | the same | violated: `LayoutRowKept` |
| `sync` | 13 releases (3 usable), 3 trees, 2 of: kill, power loss, edit, publication | `SuccessPassesCheck`, `UpdatedBuildKnowsRelease`, `CheckedBuildKnowsSnapshot`, `HandwrittenIsKept`, `SyncConverges` |

Each run also checks the type invariant of its module where one is listed in `PROJECT.json`.

Why the bounds are enough. In the lock table the dangerous order needs one caller leaving, one
waiting with a pointer to the old mutex and one arriving: three callers of one path; the fourth
lives in another repository so that sharing would show. Two operations are enough for every
interleaving of a pair on one file, and the third caller of `store_safety` finds the lock
contended in each of them. Two contents tell managed, expected and foreign apart together with
`Absent` and the non-regular files. `MaxChanges` bounds only the world: operations of the
provider are never counted, and five changes suffice to turn export off and on, edit the source
and the output, and come back. The contents `x` and `y` are not interchangeable for the
requests, so symmetry is used for callers and mutexes only, and never with liveness.

The graphs of the mapping come in families, because all graphs of nine nodes are too many:
*containment* (two VPCs, two subnets that name one, both or none, and a node of any scope that names
any of the four), *routes* (two Internet and two NAT gateways, a route, a table and an association
between two subnets and two VPCs, every reference varied, the route of the table or of none, one of
the subnets a data source or not), *oddities* (VPCs and subnets that refer to each other as
contents, addresses that spell a generated identity, zones with one name) and *scopes* (three nodes
without a VPC). Two of each kind are enough for "the other one"; a third VPC would repeat the loop.
In the layout three blocks let a block wrap what a block wrapped that a block made; the lists of
members contain unknown, empty, repeated, nested and generated names.

In `requests` a base configuration with two attributes replaced reaches every pair of values that
could interact: the values of each attribute include null, unknown, an ordinary one and one of each
kind that some check refuses. `IntLimit` is 32, so that 65 columns and a gap of 32 are integers that
do not fit `int`, as in the 32-bit builds. The three families of starts keep the product small:
all pairs of attributes without changes by others, all export modes with the attributes that decide
about paths and ownership, and all sources with and without `fail_on_warning`; the last two with one
edit or change of mode at any moment (`MaxChanges`), which is the one a request can miss. In `sync`
the releases rename a service, drop one, and are unusable for each reason the code has; two events
are a kill or power loss followed by whatever makes the next run stumble; one damaged file is enough
because files are looked at one by one (`MaxLost`), and the edited paths are one of each kind.

Restrictions that the properties state. `OrdinaryIsAccepted` speaks of sources whose VPCs and
subnets are not contents of others and whose names stay distinct. `VpcDependencyAccounted` speaks of
resources that name one place: a data source's mark may stand for a containment that is not drawn,
as `ProofReferences` shows. `VisibilityIsShown` follows the routes from the subnet, by its
associations, their table and its routes, to the gateways they lead to in the VPC: a public subnet
has one of these Internet gateways in its VPC and none of the NAT gateways, a private one the other
way round. For the first half these gateways must name one place, and the subnets of the NAT
gateways must be resources that name the VPC only: `natGatewayBelongsToVPC` accepts a subnet that
names two VPCs, and is drawn in the other one, and a data source, which is drawn in none. For the
second half it speaks of gateways that name one place (`InOneVpc`, `InOneSubnet`).
`BlocksHoldTheirItems` leaves out containers named like a catalogue number: a reference to one may
reach an icon with that number, whose name the practitioner did not give (`layoutElementMatches`
compares both). After such a container a row may even name one icon in two ways, and then the code
puts two copies of it into the tree; `ContainmentKept` leaves out trees with an icon drawn twice
(`DrawnTwice`), and holds for every document, because `ValidateXAL` refuses the others. The attempt
to prove it showed this; the run now has such names. `RefreshFindsTheOutput` leaves out outputs that
leave a linked `source_dir` upwards (`LeavesThroughLink`): with `source_dir = "link"` and
`output_path = "../d.xal"`, plan and apply mean the parent of the directory, refresh and destroy the
parent of the link. `AnswersAreHonest` has one exception, the data source, which answers nothing
while `source_dir` is unknown. `SyncConverges` leaves out trees that block the tool (`Blocked`): a
directory in the place of a file, a stale file without the header, a link where nothing is to be
written, or to the very bytes that are. An empty stale file that a power loss left blocks updates
until somebody removes it. `HandwrittenIsKept` leaves out what a run has set out to write,
recognized or not, and two windows of a run in progress: a file saved where it still has to write is
replaced, and one saved between the look at a stale file's header and its `os.Remove` is removed
unseen. Negative spans of columns are left out of the layout: they are kept as they are, and
`ValidateXAL` refuses their document.

Fairness. `LockFairness` and `Fairness` of the store say that a goroutine that can run does run
(weak fairness) and that a waiter gets its mutex when it is free again and again (strong
fairness): Go's `sync.Mutex` switches to hand-over after a waiter has been passed over for a
millisecond. Nothing is assumed of crashes or other programs. Convergence of the lifecycle
assumes that the practitioner keeps running `terraform apply`: strong fairness of `Plan` and
`Apply`, since an edit or a discarded plan may disable them in between. `CHECK_DEADLOCK FALSE`
is set where the system may stop: the lifecycle, when a configuration without differences has nothing
to do, and the mapping and the layout, which are functions that return. The
generator's `Fairness` says that a run in progress goes on (weak) and that the developer runs
`update` again and again (strong, since a run in progress disables it); no limit is put on kills but
`MaxEvents`. `requests` states no fairness and no liveness: its calls end by returning, and the
waiting is in the lock table.

### What the three violations show

1. `lifecycle_fault`: the directory sync fails, or the process dies, after the rename. The state
   does not know the new bytes, and the resource calls its own output unowned until the
   practitioner sets `overwrite`.
2. `mapping_ambiguous`: a subnet whose `vpc_id` is an expression over two VPCs is drawn in the one
   with the smaller address, without a diagnostic; the README promises a neutral group.
3. `layout_row`: `row = 2` in a `layout` block, the README's own example, has no effect.

Not a run of its own, but visible in the model: an edit by another program between the last look
at an output and the rename or remove that follows is lost. The window is one system call wide;
`store_promise` and the refinement exclude it (`RaceWindow`, `InWindow`), `store_safety` does not.

`README.md` and the snapshot's own README say that the update regenerates its files atomically.
Each file is; the set of them is not, and `Stop` between two leaves a mixture of two releases, which
no run of its own shows. The weaker promise that the code keeps is `CheckedBuildKnowsSnapshot` with
`SyncConverges`.

Also visible, and no violation of anything the repository states:

- `Apply` locks the path with links resolved, `Delete` and `Read` the path as configured. Behind a
  linked `source_dir` one file has two mutexes; what can be destroyed is bounded by the digest
  checks of both operations, which stand.
- A title, gap or style attribute that is unknown at plan is treated as not set, so that the apply is
  refused with "Generated XAL changed after planning" once it is known to be something.
- `grid_gap = 0` becomes 16 in the gap of a row that sets none (`SiblingGap`).
- A service named like `a__b` makes `serviceVariable` index out of range; it does so before any
  write, and the model counts it as a refusal.

## 4. Proofs

All for arbitrary values of the constants under the named assumptions of the modules.

*Lock table.* `MutualExclusion` is not inductive: two callers exclude each other because they
point at the same mutex, and they do so because the table entry cannot go away while it is
counted. `LockInv` therefore adds: running calls know their path and mutex (`LocalsKnown`), a
locked mutex belongs to exactly the call inside with it (`OwnersAreInside`), a mutex serves one
path of one repository (`MutexOfOnePath`), and the table matches its users (`TableMatchesUse`,
which is also a property of its own). One lemma per action; counting users is by the
cardinality theorems for adding and removing one element. Assumptions: `CallersAssumption`,
that is, finitely many callers, each with a repository, and that nil is none of the mutexes.

*Artifact repository.* `StoreImplementsLocks` shows that every step of the store is a step of
the lock table or leaves it alone, so everything proved about the table holds for the store.
`StoreInv` adds how the position in `withLock`, the position in the operation and the request
fit together (`CallsAreCoherent`) and that a temporary file is synced before the output is
looked at again (`SyncedBeforeRename`); from it follow `StoreTypes` and `StoreNoTornOutput`, and
with it `AcknowledgedIsDurable` is inductive (`DurableNext`, `StoreAcknowledgedIsDurable`).

*Ownership and refinement*. `Alone` names what the code relies on:
one repository, one path per file, no foreign write in the one-call window. Under it
`ChecksHold` is inductive:
what an operation has checked last still holds when its rename or remove comes, because an
operation that could change it is on the same path and excluded by the lock. That is
`StoreTouchesOnlyManaged`. With `AnswersFit`, which ties answers to positions, every step maps
to a step of `OutputStore` or a stutter: rename and remove to `Apply`, the step that decides an
answer to `Answer`, a crash to `Die`. `StoreImplementsOutputStore` also assumes no power loss,
which may undo an operation that has not yet answered; `StoreAcknowledgedIsDurable` covers that case.

*AWS mapping* (`AwsMappingProofs`), for every graph, with the assumption that nodes are numbered
(`MappingAssumption`). All properties of the run are proved, from three invariants.

`NothingLost` says something only about the end; `MapInv` says what holds
on the way there. Who is consumed is drawn, or is a VPC that waits for its region
(`Consumption`); the zones of subnets still to be drawn exist (`ZonesMade`); as long as there is
no error every element is inside one that exists (`ParentsExist`); whatever has an identity
owns it, so that a new group cannot take one (`IdentitiesOwned`, `BoxesDistinct`,
`NoCollisions`). The last pass completes the argument because every type has one of four
scopes (`ScopesComplete`) and each scope a group. That nothing is drawn twice is not proved
from the passes but from the final check (`DuplicatesFound`): with subnets that are contents of
other subnets the passes do draw twice, and the check refuses the source.

`PlaceInv` is about the two properties that relate the tree to the references. A node that names one
VPC and is a subnet, a route table or an Internet gateway is left alone by every other pass until the
loop comes to that VPC, and is drawn in it then (`Gathering`); a NAT gateway goes with its subnet
(`NatGathering`). A mark in `usedReferences` for a VPC is either containment, or was left by a proof
that looked at such a node (`MarksOfVpcs`, from the lemma `ProofMarks` about every mark a proof
leaves); hence `MapVpcDependencies`. A tag is what the routes prove for the VPC the subnet is drawn
in (`TagsProved`), and nothing is in two VPCs (`OneVpc`, from `NothingLost` and
`IdentitiesDistinct`); hence `MapVisibilityIsShown`. The property follows references only; the lemma
`ReachedByRoutes` says that they lead to what the code's look at the routes finds. The gateway that
was found is among those reached and drawn in the VPC (`InternetDrawn`, `NatDrawn`). Conversely, a NAT
gateway reached and drawn in the VPC is there with its subnet (`SubnetsPlace`), an Internet gateway
directly, so that the routes would prove the other tag as well and there would be none (`TagExcludes`). `MapTypes` needs that the first of the subnets of a load balancer is one of them, for a
`CHOOSE` over numbers (`FirstIsFirst`, by well-foundedness).

`OrdinaryInv` is about sources that must not be refused. The passes take turns: what is drawn is
consumed and no VPC, and what a pass draws was not consumed (`TakenOnce`); each VPC has one region
(`RegionsOnce`); an identity in use is a node's, or that of a group of a VPC that the loop has
visited (`OwnedOnce`). `MapOrdinaryIsAccepted` follows, without the final check.

*Lifecycle* (`DiagramLifecycleProofs`), for any resources, outputs, sources, builds and links.
The properties speak of one step, of a write or of what it stores, but whether the step is right was
decided at plan time. `LifecycleInv` says what is remembered from then on: settings range over their
sets (`WorldOK`); a plan with export enabled promises one content throughout (`PlansAreComplete`),
one with export disabled keeps the managed digest (`DisabledKeepsDigest`); bytes on their way are
those of the plan, to the output of the plan (`WritingIsPlanned`); a managed digest was reported as
written (`DigestsAreAuthored`). `OnlyWritesAndDeletes` names the two steps in which a resource
changes an output; from it and the invariant follow `LifecycleWritesOnlyWhatWasPlanned` and
`LifecycleKeepsForeignOutput`, and `LifecycleStoresWhatWasPlanned` likewise.
`LifecycleSecondPlanIsEmpty` assumes `PathsAgree`: textual and real paths lead to one file, which a
link between `source_dir` and the output can break. `LifecycleStateMatchesOutput` assumes that
every resource has an output of its own (`OneOutputEach`) and that no operation fails half-way
(`lifecycle_fault` shows why); it needs that a plan names the output it was made for
(`PlansIdentifyOutput`) and that what a resource was the last to write is what it manages
(`WrittenIsManaged`). Assumptions: `LifecycleAssumption` and that the special values differ from
contents and from each other (`ValuesDistinct`).

*Sequences* (`SequenceFolds`). The library's induction theorems take an operator, which the provers
cannot instantiate; here induction over numbers and sequences is stated with sets of those that have
the property (`NaturalInduction`, `SequenceInduction`), and derived from well-foundedness. `FoldLeft`
of the community modules iterates over sets of indices by a function that is chosen; `IterationExists`
and `IterationsAgree` show that there is one and that it does not look beyond the sequence, whence
`FoldEmpty`, `FoldAppend` and `FoldInvariant` for any operation. Every loop that a module writes as a
fold can be reasoned about with these; `RECURSIVE` operators cannot.

*Path resolution* (`PathResolutionProofs`), for any tree with links and any paths. `Clean` and
`EvalSymlinks` are folds over names. A cleaned path has no `.` and `..` (`CleanIsTidy`), and cleaning
keeps it (`CleanOfTidy`); what the system calls reach is real, that is, no directory above it is a
link (`EvalIsReal`), and following a real path leads to itself (`EvalOfReal`). A mark put before the
names disappears in cleaning when a `..` goes above it, and `LeavesThroughLink` asks with such a mark
whether an output leaves `source_dir`; while it survives, the names lead on in the same way from
wherever they are put (`MarkedAlways`). With these, `TextualMeansReal`: what
is joined to the textual directory and then followed is what is joined to the real one.

*Requests* (`DiagramRequestsProofs`), for any configurations, sources, trees, edits and values that
become known, under `TreeAssumption` and `RequestsAssumption` only. Five invariants build on each
other; the last three have one lemma per stage of the pipeline.

`LearningInv`: what is configured stays among `Configured`, and what is planned learns well.
`HonestInv`, for `RequestsAnswersAreHonest`, is decided where an answer is given, from what earlier
stages left: what is encoded has passed the judgement of all stages' diagnostics (`WarningsJudged`);
`fail_on_warning` gets from the configuration through defaults, plan and learned values to the
conversion (`StrictnessKept`), which is where a null that becomes false, or an unknown that is taken
for false, would show; what is applied was decoded before without an error (`PlansDecode`), without
which an apply could write and then report an error.

`AcceptedInv`, for `RequestsAcceptedPlans`, carries what `ValidateConfig` has accepted to the checks
of `Convert`: two lists of conditions in two packages, which agree but for integers that do not fit.
`OutputInv`, for `RequestsRefreshFindsTheOutput`, says that the output of a request, of a plan with
export enabled and of a state is the one `Resolve` gave for its model, and was not refused;
`TextualMeansReal` does the rest. The paths of the model cannot change in between, because they must
be known before there is a plan.

`ApplyInv`, for `RequestsApplyKeepsThePlan`, follows two conversions of the same sources, the plan's
and the apply's. A request has read the entries of the directory as they are while nobody edits
(`HasRead`); each stage has left what is a function of what was read (`Advanced`); a plan that nothing
has overtaken stands for such a conversion that ended without an error (`PlanStands`). Hence the
apply gets through every stage the plan got through, with the same result (`Repeats`), and neither
"Generated XAL changed" nor a refusal of the ownership rule is left, except after a change, a learned
value, a cancellation or a failed write. That the document shows the configuration (`ConversionShows`)
is about `Marshal`: every block that holds something becomes one element with its gap, and every
icon is a block of a file that was read, through the two folds of the loader.

*Layout* (`LayoutPlacementProofs`), for any generated trees, any blocks and any number of them, and
any values of `grid_columns`, under `LayoutAssumption`: `Map` generates finite trees in which only
icons have names, nothing is named like the frame, and no key is a catalogue number; the blocks have
the form the schema gives them. A tree before a step and the tree after it are related by the function
from the elements before to those after.

- `Rearranges`: it is one to one, keeps labels and what lies above what, and misses wrappers only.
  Containment follows (`RearrangedHomes`), whatever the steps were. A block does this
  (`WrappedRearranges`) unless two members choose one element, and then the tree has an icon twice
  (`SharedChoice`, `WrappedTwice`) and keeps having it (`RearrangedTwice`) until it is refused.
- `KeepsKids`: the children of an element keep their numbers. A block does this to every element but
  the one whose children it rearranges (`NewKids`), and that one holds no earlier block's members,
  because references are used once (`HoldsWrapped`).
- `Whole`: a row has nothing but columns, one of them with something in it, numbered without gaps,
  and their spans fit. Rows of blocks are whole because the shares of columns without a span
  fit into what the others leave (`SharedSpans`), rows of the grid because positions among siblings
  have no gaps (`PositionsAll`), and the grid leaves whole rows alone, since their columns are not leaves.
- `WrappedSound` and `GridSound`: what results is a tree. The elements that a block moves, the ones it
  leaves and the ones it makes get different places, and what is moved takes along all below it.

`LayoutInv` puts these together. Before the end the tree is a rearrangement of the generated one with
whole rows, or draws an icon twice (`Kept`); labels are generated or those of wrappers (`Labelled`),
icons and other elements do not share keys (`Cross`), containers are those of the blocks (`Built`);
while no container is named like a catalogue number, every block has its element, and its references
are used (`AllHeld`). `ItemsMapCurrent` is part of it, because `BlocksHoldTheirItems` and the absence
of collisions rest on references that are judged on the right map. The document then is what the
validation leaves of such a tree (`ValidDocument`).

*Definition generator* (`DefinitionSyncProofs`), for any inventories, releases, trees and events.
`SyncSuccessPassesCheck` holds because the files still to be written, the ones still to be removed
and the ones that already match cover the tree at every step of a run (`SyncInv`).
`SyncCheckedBuildKnowsSnapshot` needs `ShownIsKnown`: a tree that shows the files of an accepted
inventory compiles, and each definition is in the one file its group's variable is declared in.
`SyncHandwrittenIsKept` follows from `KeptInv`: where a person's file is kept, the run in progress
has nothing to write, and has not found a header that it would act on; every step of the
tool then leaves the path alone (`ToolKeeps`), and a power loss finds the file synced (`PowerKeeps`). `ReleaseInv` ties a run to the release it
works on: its inventory, verdict and report are those of a published release (`SyncTypes`).
`SyncUpdatedBuildKnowsRelease` also needs that the scanner finds exactly what a release registers
(`FoundIsRegistered`): the suffixes of method names are tried in the
order of the code, where "Resources" is a suffix of others, and the lemmas show that the first that
fits is the right one. It holds for releases that follow the conventions of the provider's service
packages, which the scanner relies on and cannot check: method names, one owner per directory, no
other method that ends alike (`Conventional`, `ReleaseAssumption`). TLC evaluates the assumption on
the releases of the run, which follow them too; what the tool does with the others is not claimed.

*Only model-checked.* All liveness (`EveryCallReturns`, `EveryOperationReturns`, `Converges`,
`SyncConverges`), which the prover does not reach, and with it the fairness.

## 5. Plan

Done: the modules of section 2, in the order lock table, artifact repository, lifecycle, mapping,
layout, generator, requests; proofs of every safety property that a run checks. What is left:

1. The order of diagnostics, which the handlers keep and these models forget.
2. The heights of elements (`Heights`), of which only what the validation needs is proved.

## 6. Not modelled

The HCL parser, the evaluation of expressions and their conversion from cty values; XML escaping and
the format of numbers; the spelling of paper sizes (case, spaces); schema descriptions, Metadata and
Cobra wiring (no behaviour of their own); the gRPC server, which only starts the framework; HTTP and
archive formats of the generator, and its `-snapshot` flag; the entries of the generated tables
(pure data, though not the way they are read); panics other than the one above; the collision of
SHA-256 digests.
