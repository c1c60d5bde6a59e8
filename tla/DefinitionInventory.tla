------------------------- MODULE DefinitionInventory -------------------------
(***************************************************************************)
(* What tools/awsdefinitions computes: from a release archive of the AWS   *)
(* provider to the snapshot, from the snapshot to the generated Go files,  *)
(* and what internal/entity/aws/definition.go makes of those files.        *)
(*                                                                         *)
(* A file name is the sequence of its components, a method name the        *)
(* sequence of its words.  An archive is a set of files: the code walks it *)
(* in order, but keeps what it finds in a map and sorts it.                *)
(***************************************************************************)
EXTENDS Naturals, Sequences, FiniteSets

CONSTANTS
    Kinds,       \* definitionKinds
    Services,    \* directories below internal/service, and "provider"
    Variable,    \* what serviceVariable makes of a service
    TypeNames,   \* TypeName and Name literals
    AwsPrefixed  \* those that start with aws_

KindNames == {"action", "data_source", "ephemeral_resource", "function",
              "list_resource", "resource"}

\* Two outcomes of serviceVariable that are not an identifier: an error, and an
\* index out of range for a name with an empty part, such as a__b.
NoVariable == {"refused", "panic"}

ASSUME InventoryAssumption ==
    /\ Kinds \subseteq KindNames
    /\ "provider" \in Services
    /\ DOMAIN Variable = Services
    /\ AwsPrefixed \subseteq TypeNames

Definition == [kind : Kinds, service : Services, type : TypeNames]

-----------------------------------------------------------------------------
(* From the archive to the definitions *)

EndsWith(word, suffix) ==
    /\ Len(suffix) <= Len(word)
    /\ SubSeq(word, Len(word) - Len(suffix) + 1, Len(word)) = suffix

IsServicePackage(name) ==
    /\ Len(name) >= 4
    /\ name[Len(name) - 3] = "internal"
    /\ name[Len(name) - 2] = "service"
    /\ name[Len(name)] = "service_package_gen.go"

IsProviderFunction(name) ==
    /\ Len(name) >= 3
    /\ name[Len(name) - 2] = "internal"
    /\ name[Len(name) - 1] = "function"
    /\ name[Len(name)] \notin {"function_test.go", "README.md"}

\* registrationKind tries these suffixes in this order.
Registrations ==
    << <<"data_source",        <<"Data", "Sources">>>>,
       <<"list_resource",      <<"List", "Resources">>>>,
       <<"ephemeral_resource", <<"Ephemeral", "Resources">>>>,
       <<"action",             <<"Actions">>>>,
       <<"resource",           <<"Resources">>>> >>

RegistrationKind(method) ==
    LET hits == {i \in DOMAIN Registrations : EndsWith(method, Registrations[i][2])}
    IN  IF hits = {} THEN "none"
        ELSE Registrations[CHOOSE i \in hits : \A j \in hits : i <= j][1]

ServiceDefinitions(file) ==
    {[kind |-> RegistrationKind(r.method), service |-> file.name[Len(file.name) - 1],
      type |-> r.type] : r \in {q \in file.literals : RegistrationKind(q.method) # "none"}}

FunctionDefinitions(file) ==
    {[kind |-> "function", service |-> "provider", type |-> r.type] :
        r \in {q \in file.literals : q.method = <<"Metadata">>}}

ServiceFiles(archive)  == {f \in archive : IsServicePackage(f.name)}
FunctionFiles(archive) == {f \in archive : IsProviderFunction(f.name)}

Found(archive) ==
    UNION ({ServiceDefinitions(f) : f \in ServiceFiles(archive)} \cup
           {FunctionDefinitions(f) : f \in FunctionFiles(archive)})

OwnedTwice(definitions) ==
    \E d, e \in definitions : d.kind = e.kind /\ d.type = e.type /\ d.service # e.service

\* The errors of definitions and canonicalDefinitions.
ArchiveRefused(archive) ==
    \/ \E f \in ServiceFiles(archive) \cup FunctionFiles(archive) : ~f.readable
    \/ ServiceFiles(archive) = {}
    \/ FunctionFiles(archive) = {}
    \/ OwnedTwice(Found(archive))

SnapshotOf(release) ==
    [provenance |-> TRUE, ordered |-> TRUE, version |-> release.version,
     definitions |-> Found(release.archive)]

\* What the AWS provider registers, told by the kind of each registration.
Registered(archive) ==
    UNION {{[kind |-> r.kind, service |-> f.owner, type |-> r.type] : r \in f.registers} :
           f \in archive}

\* How the AWS provider names the methods of a service package that register
\* something, and what they register.
RegistrationMethods ==
    {[method |-> <<"SDK", "Data", "Sources">>,         kind |-> "data_source"],
     [method |-> <<"Framework", "Data", "Sources">>,   kind |-> "data_source"],
     [method |-> <<"SDK", "List", "Resources">>,       kind |-> "list_resource"],
     [method |-> <<"Framework", "List", "Resources">>, kind |-> "list_resource"],
     [method |-> <<"Ephemeral", "Resources">>,         kind |-> "ephemeral_resource"],
     [method |-> <<"Actions">>,                        kind |-> "action"],
     [method |-> <<"SDK", "Resources">>,               kind |-> "resource"],
     [method |-> <<"Framework", "Resources">>,         kind |-> "resource"]}

\* What a file of the AWS provider registers is what it says in those methods,
\* and no other method of a service package ends like one of them; a file that
\* is no service package and no function registers nothing.
Conventional(file) ==
    /\ IsServicePackage(file.name) =>
          /\ file.owner = file.name[Len(file.name) - 1]
          /\ \A l \in file.literals :
                /\ l.method \in Seq(STRING)
                /\ \/ \E m \in RegistrationMethods : m.method = l.method
                   \/ l.method = <<>>
                   \/ l.method[Len(l.method)] \notin {"Sources", "Resources", "Actions"}
          /\ file.registers =
                {[kind |-> p[1].kind, type |-> p[2].type] :
                    p \in {q \in RegistrationMethods \X file.literals : q[1].method = q[2].method}}
    /\ IsProviderFunction(file.name) =>
          /\ file.owner = "provider"
          /\ file.registers =
                {[kind |-> "function", type |-> l.type] :
                    l \in {q \in file.literals : q.method = <<"Metadata">>}}
    /\ ~IsServicePackage(file.name) /\ ~IsProviderFunction(file.name) => file.registers = {}

\* validateSnapshot.  The strict order leaves one definition for each key.
Validated(inventory) ==
    /\ inventory.provenance
    /\ \A d \in inventory.definitions :
          /\ d \in Definition
          /\ d.type # ""
          /\ (d.kind = "function") # (d.type \in AwsPrefixed)
    /\ inventory.ordered
    /\ ~OwnedTwice(inventory.definitions)
    /\ \A kind \in Kinds : \E d \in inventory.definitions : d.kind = kind

-----------------------------------------------------------------------------
(* From the definitions to the generated files *)

Index    == <<"provider_definition_groups", "">>
Legacy   == <<"provider_definitions", "">>
Metadata == <<"provider_metadata", "">>

GroupPaths == Kinds \X Services
GoPaths    == GroupPaths \cup {Index, Legacy, Metadata}

Groups(definitions) == {<<d.kind, d.service>> : d \in definitions}

TypesOf(definitions, group) ==
    {d.type : d \in {e \in definitions : <<e.kind, e.service>> = group}}

\* Mutant: a collision of variables is not noticed.
RenderableIfNamed(definitions) ==
    \A g \in Groups(definitions) : Variable[g[2]] \notin NoVariable

\* groupDefinitions: every service gives an identifier, and no two of one kind the same one.
Renderable(definitions) ==
    \A g \in Groups(definitions) :
        /\ Variable[g[2]] \notin NoVariable
        /\ \A h \in Groups(definitions) :
              g[1] = h[1] /\ Variable[g[2]] = Variable[h[2]] => g = h

RenderedMetadata(inventory) ==
    [is |-> "metadata", version |-> inventory.version,
     count |-> Cardinality(inventory.definitions)]

RenderedIndex(definitions) ==
    [is |-> "index",
     groups |-> {[kind |-> g[1], service |-> g[2], variable |-> Variable[g[2]]] :
                    g \in Groups(definitions)}]

RenderedGroup(definitions, group) ==
    [is |-> "group", variable |-> Variable[group[2]],
     types |-> TypesOf(definitions, group)]

\* renderGeneratedFiles: the new content of every file that is to exist.
Rendered(inventory) ==
    [path \in Groups(inventory.definitions) \cup {Index, Metadata} |->
        IF path = Metadata THEN RenderedMetadata(inventory)
        ELSE IF path = Index THEN RenderedIndex(inventory.definitions)
        ELSE RenderedGroup(inventory.definitions, path)]

Acceptable(inventory) == Validated(inventory) /\ Renderable(inventory.definitions)

-----------------------------------------------------------------------------
(* What the provider is built from: definition.go over the generated files. *)
(* A content is [is |-> ...]; absent, torn and handwritten files have no    *)
(* more than that.                                                          *)

Whole(content) == content.is \in {"metadata", "index", "group"}

Declares(disk, kind, variable) ==
    {path \in GroupPaths : /\ path[1] = kind
                           /\ disk[path].is = "group"
                           /\ disk[path].variable = variable}

\* The Go compiler accepts the package: every file is whole, no variable is
\* declared twice in a directory, and the index finds what it refers to.
Compiles(disk) ==
    /\ disk[Metadata].is = "metadata"
    /\ disk[Index].is = "index"
    /\ disk[Legacy].is = "absent"
    /\ \A path \in GroupPaths :
          /\ disk[path].is \notin {"headed", "blank"}
          /\ disk[path].is = "group" =>
                Declares(disk, path[1], disk[path].variable) = {path}
    /\ \A g \in disk[Index].groups : Declares(disk, g.kind, g.variable) # {}

\* providerDefinitions: what LookupDefinition finds, once the package compiles.
Known(disk) ==
    UNION {{[kind |-> g.kind, service |-> g.service, type |-> type] :
               type \in UNION {disk[path].types : path \in Declares(disk, g.kind, g.variable)}} :
           g \in disk[Index].groups}
=============================================================================
