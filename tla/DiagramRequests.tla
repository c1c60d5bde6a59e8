--------------------------- MODULE DiagramRequests ---------------------------
(***************************************************************************)
(* What the provider and the convert command answer: one configuration is  *)
(* validated, planned, applied, refreshed and destroyed, its addresses are *)
(* listed, its directory is converted by hand.  DiagramLifecycle follows   *)
(* the digests of outputs through many plans; here the conversion itself   *)
(* runs step by step (internal/usecase/diagram.go) behind the handlers of  *)
(* internal/controller, on values Terraform does not know yet, on sources  *)
(* that are edited while they are read, and on requests that are cancelled.*)
(***************************************************************************)
EXTENDS DiagramConversion

CONSTANTS
    Starts,       \* what may be configured, be there and be on disk at first, and
                  \* how many of the changes others may make have been made
    Learned(_),   \* what a configuration with unknown values may turn out to be
    SourcePlace,  \* the only directory with files whose names end in .tf
    SourceNames,  \* their names in the order of ReadDir after sorting
    Edits,        \* what others may do to that directory: pairs of name and entry
    MaxChanges,   \* how often they do it, or change the export mode
    Foreign,      \* a content nobody here has generated
    Absent, NotRegular, NoDigest,
    NotConfigured, NoState, NoPlan, NoAnswer

\* Values that are known stay as they are, and lists that could be decoded while
\* parts of them were unknown can be decoded in the end.
KeepsTheKnown(model) ==
    \A learned \in Learned(model) :
      /\ DOMAIN learned = DOMAIN model
      /\ \A a \in DOMAIN model : a \in MustBeKnown /\ model[a] # Unknown => learned[a] = model[a]
      /\ DecodeDiagnostics(model) = {} => DecodeDiagnostics(learned) = {}

\* What Terraform has checked against the schema: every attribute is there, and
\* the required ones are paths, at least in the end.
WellFormed(model) ==
    /\ MustBeKnown \cup {"title", "row", "container", "layout"} \subseteq DOMAIN model
    /\ \A a \in {"source_dir", "output_path"} : model[a] \in Paths \cup {Unknown}

\* When a resource is created or updated there are no unknown values any more,
\* and containers have the id the schema requires.
Settled(model) ==
    /\ model.title # Unknown
    /\ \A r \in ToSet(Blocks(model.row)) : r.gap # Unknown
    /\ \A c \in ToSet(Blocks(model.container)) : Known(c.id) /\ c.style.gap # Unknown

\* What Terraform makes of a model when it evaluates it again.
LearnsWell(model) ==
    /\ KeepsTheKnown(model)
    /\ \A learned \in Learned(model) : WellFormed(learned) /\ Settled(learned)

\* What may be configured while values become known.
Configured ==
    {s.config : s \in Starts} \cup UNION {Learned(s.config) : s \in Starts}

\* The blocks of a file are a sequence.
IsSource(entry) == entry.text.blocks \in Seq(ToSet(entry.text.blocks))

ASSUME RequestsAssumption ==
    /\ SourcePlace \in DOMAIN Tree /\ Tree[SourcePlace].type = "directory"
    /\ SourceNames \in Seq(ToSet(SourceNames))
    /\ \A e \in Edits : e.name \in ToSet(SourceNames) /\ IsSource(e.entry)
    /\ MaxChanges \in Nat /\ NotConfigured \notin {"enable", "disable"}
    /\ Null # Unknown /\ \A v \in {Null, Unknown} : v \notin BOOLEAN \cup Paths
    /\ Null \notin STRING \cup {".", ".."}
    /\ \A a \in DOMAIN SchemaDefaults : Known(SchemaDefaults[a])
    /\ \A s \in Starts :
         /\ DOMAIN s.dir = ToSet(SourceNames)
         /\ \A n \in DOMAIN s.dir : IsSource(s.dir[n])
         /\ s.changes \in 0..MaxChanges
    /\ \A model \in Configured :
         /\ WellFormed(model) /\ Learned(model) \subseteq Configured
         /\ LearnsWell(model) /\ LearnsWell(WithDefaults(model))

VARIABLES
    export,     \* the provider block's attribute
    data,       \* rcvr.providerData: the export mode, or not there yet
    config,     \* the resource block's attributes
    dir,        \* entries of SourcePlace by name
    disk,       \* contents of the outputs that exist
    state,      \* what Terraform stored: attributes and computed attributes
    plan,       \* the latest plan
    accepted,   \* which configurations passed ValidateConfig as they are
    call,       \* the request being served
    answer,     \* what was answered last
    changes     \* bounds what others do

vars == <<export, data, config, dir, disk, state, plan, accepted, call, answer, changes>>

Idle == [op |-> "none", at |-> "idle"]

At(place) ==
    IF Exists(place) THEN NotRegular
    ELSE IF place \in DOMAIN disk THEN disk[place] ELSE Absent

Contents == {disk[p] : p \in DOMAIN disk}
INSTANCE Ownership

Init ==
    /\ \E s \in Starts :
         /\ export = s.export /\ config = s.config /\ dir = s.dir /\ disk = s.disk
         /\ changes = s.changes
    /\ data = NotConfigured /\ state = NoState /\ plan = NoPlan /\ accepted = {}
    /\ call = Idle /\ answer = NoAnswer

-----------------------------------------------------------------------------
(* Answers *)

ErrConversion == "conversion failed"

Reply(op, diagnostics, done) ==
    /\ answer' = [op |-> op, diagnostics |-> diagnostics, done |-> done, wrote |-> FALSE,
                  value |-> NoDigest]
    /\ call' = Idle

\* appendUsecaseError leaves ErrConversion out, because the diagnostics that
\* came with it say why; items_data_source.go and converter.go report every error.
Shown(op, diagnostics, failure) ==
    IF failure = ErrConversion /\ op \in {"plan", "apply"} THEN diagnostics
    ELSE diagnostics \cup {Error(failure)}

\* A request ends with an error.
Fail(op, diagnostics, failure) ==
    /\ Reply(op, Shown(op, diagnostics, failure), FALSE)
    /\ plan' = IF op = "plan" THEN NoPlan ELSE plan
    /\ UNCHANGED <<state, disk>>

\* A call of Convert or Items begins.
Start(op, model, spec, paths) ==
    /\ call' = [op |-> op, at |-> "options", model |-> model, spec |-> spec,
                source |-> paths.sourceDir, output |-> paths.outputPath,
                left |-> <<>>, files |-> <<>>, mapped |-> {}, content |-> Absent,
                seen |-> changes, cancelled |-> FALSE]
    /\ answer' = NoAnswer
    /\ UNCHANGED <<state, disk, plan>>

-----------------------------------------------------------------------------
(* Validation and configuration, once for every configuration and command *)

ExportRefused == export # Null /\ export \notin {"enable", "disable"}

ValidateProvider ==
    /\ call = Idle /\ "provider" \notin accepted
    /\ Reply("validate", IF ExportRefused THEN {Error("export")} ELSE {}, ~ExportRefused)
    /\ accepted' = IF ExportRefused THEN accepted ELSE accepted \cup {"provider"}
    /\ UNCHANGED <<export, data, config, dir, disk, state, plan, changes>>

ValidateResource ==
    LET diagnostics == ValidateConfig(config) IN
    /\ call = Idle /\ "resource" \notin accepted
    /\ Reply("validate", diagnostics, diagnostics = {})
    /\ accepted' = IF diagnostics = {} THEN accepted \cup {"resource"} ELSE accepted
    /\ UNCHANGED <<export, data, config, dir, disk, state, plan, changes>>

\* providerController.Configure, then Configure of the resource and the data source.
Configure ==
    /\ call = Idle /\ data = NotConfigured
    /\ Reply("configure", IF ExportRefused THEN {Error("export")} ELSE {}, ~ExportRefused)
    /\ data' = IF ExportRefused THEN data ELSE IF export = Null THEN "disable" ELSE export
    /\ UNCHANGED <<export, config, dir, disk, state, plan, accepted, changes>>

-----------------------------------------------------------------------------
(* The beginning of each request *)

\* Plan with export disabled keeps what there is of the resource.
PlanDisabled(model) ==
    LET paths == ResolveLexical(model.source_dir, model.output_path)
        fresh == [id |-> StableID(paths.outputPath), export |-> "disable",
                  source |-> NoDigest, content |-> NoDigest, observed |-> NoDigest]
        diagnostics == DecodeDiagnostics(model)
    IN
    IF diagnostics # {}
    THEN Reply("plan", diagnostics, FALSE) /\ plan' = NoPlan /\ UNCHANGED <<state, disk>>
    ELSE /\ Reply("plan", {}, TRUE)
         /\ plan' = [model |-> model, seen |-> changes,
                     computed |-> IF state = NoState THEN fresh
                                  ELSE [state.computed EXCEPT !.export = "disable"]]
         /\ UNCHANGED <<state, disk>>

\* ModifyPlan.  Terraform validates a configuration before it plans it.
StartPlan ==
    LET model == WithDefaults(config)
        decoded == DecodeDiagnostics(model)
    IN
    /\ call = Idle /\ "resource" \in accepted
    /\ \/ data = NotConfigured /\ Fail("plan", {}, "Provider is not configured")
       \/ /\ data # NotConfigured /\ ~InputsKnown(model)
          /\ Fail("plan", {}, "Unknown diagram option")
       \/ /\ data = "disable" /\ InputsKnown(model)
          /\ IF LexicallyRefused(model.source_dir, model.output_path)
             THEN Fail("plan", decoded, "Invalid diagram paths")
             ELSE PlanDisabled(model)
       \/ /\ data = "enable" /\ InputsKnown(model)
          /\ IF Refused(model.source_dir, model.output_path)
             THEN Fail("plan", decoded, "Invalid diagram paths")
             ELSE Start("plan", model, SpecFromModel(model),
                        Resolve(model.source_dir, model.output_path))
    /\ UNCHANGED <<export, data, config, dir, accepted, changes>>

\* Apply with export disabled.
ApplyDisabled(model) ==
    LET diagnostics == DecodeDiagnostics(model) IN
    /\ Reply("apply", diagnostics, diagnostics = {})
    /\ state' = IF diagnostics = {} THEN [model |-> model, computed |-> plan.computed]
                ELSE state
    /\ plan' = IF diagnostics = {} THEN NoPlan ELSE plan
    /\ UNCHANGED disk

\* Create or Update, for a plan whose unknown values have become known.
Apply(model) ==
    LET planned == plan.computed
        decoded == DecodeDiagnostics(model)
        paths == Resolve(model.source_dir, model.output_path)
    IN
    \/ data = NotConfigured /\ Fail("apply", {}, "Provider is not configured")
    \/ /\ data # NotConfigured /\ planned.export # data
       /\ Fail("apply", decoded, "Provider export mode changed after planning")
    \/ data = "disable" /\ planned.export = data /\ ApplyDisabled(model)
    \/ /\ data = "enable" /\ planned.export = data
       /\ IF Refused(model.source_dir, model.output_path)
          THEN Fail("apply", decoded, "Invalid diagram paths")
          ELSE IF planned.id # StableID(paths.outputPath)
          THEN Fail("apply", decoded, "Diagram path changed after planning")
          ELSE Start("apply", model, SpecFromModel(model), paths)

\* A plan is stale once the state has changed.
StartApply ==
    /\ call = Idle /\ plan # NoPlan
    /\ \E model \in Learned(plan.model) : Apply(model)
    /\ UNCHANGED <<export, data, config, dir, accepted, changes>>

\* Read of the data source, which has nothing to say while source_dir is unknown.
StartItems ==
    LET sourceDir == EvalSymlinks(Under(WorkDir, config.source_dir)) IN
    /\ call = Idle
    /\ \/ data = NotConfigured /\ Fail("items", {}, "Provider is not configured")
       \/ /\ data # NotConfigured /\ config.source_dir = Unknown
          /\ Reply("items", {}, FALSE) /\ UNCHANGED <<state, disk, plan>>
       \/ /\ data # NotConfigured /\ Known(config.source_dir)
          /\ Start("items", config, <<>>, [sourceDir |-> sourceDir, outputPath |-> Nowhere])
    /\ UNCHANGED <<export, data, config, dir, accepted, changes>>

\* Generate, with the configuration's values as flags.
StartConvert ==
    LET model == WithDefaults(config)
        paths == Resolve(model.source_dir, model.output_path)
    IN
    /\ call = Idle /\ plan = NoPlan /\ state = NoState
    /\ InputsKnown(model) /\ model.title # Unknown
    /\ Fits(model.grid_columns) /\ Fits(model.grid_gap)
    /\ IF Refused(model.source_dir, model.output_path)
       THEN Fail("convert", {}, "Invalid diagram paths")
       ELSE Start("convert", model, SpecFromFlags(model), paths)
    /\ UNCHANGED <<export, data, config, dir, accepted, changes>>
-----------------------------------------------------------------------------
(* Load, BuildGraph, Map and Marshal, as Items and Convert call them *)

Serving(stage) == call # Idle /\ call.at = stage

Continue(next) == call' = next /\ UNCHANGED <<state, disk, plan, answer>>

Cancelled == Fail(call.op, ConfigDiagnostics(call.files) \cup call.mapped,
                  "Terraform conversion failed")

\* The first lines of Convert and of Items.
CheckOptions ==
    LET diagnostics == IF call.op = "items" THEN {} ELSE OptionDiagnostics(call.spec) IN
    /\ Serving("options")
    /\ IF call.cancelled THEN Cancelled
       ELSE IF diagnostics # {} THEN Fail(call.op, diagnostics, ErrConversion)
       ELSE Continue([call EXCEPT !.at = "list"])
    /\ UNCHANGED <<export, data, config, dir, accepted, changes>>

\* Load returns an error.
LoadFails ==
    LET diagnostics == ConfigDiagnostics(call.files) IN
    IF call.op = "items"
    THEN Fail("items", diagnostics, "Terraform items could not be loaded")
    ELSE Fail(call.op, diagnostics \cup {Error("CONVERT-E002")}, ErrConversion)

\* ReadDir, and the entries Load passes over for the type ReadDir has seen.
Entries == [i \in DOMAIN SourceNames |->
              [name |-> SourceNames[i], type |-> dir[SourceNames[i]].type]]
TakenName(names, entry) ==
    IF entry.type \in {"gone", "directory"} THEN names ELSE Append(names, entry.name)
Listing(source) ==
    IF source = SourcePlace THEN FoldLeft(TakenName, <<>>, Entries) ELSE <<>>

\* Load up to the files.
ListDirectory ==
    /\ Serving("list")
    /\ IF IsDirectory(call.source)
       THEN Continue([call EXCEPT !.at = "read", !.left = Listing(call.source)])
       ELSE LoadFails
    /\ UNCHANGED <<export, data, config, dir, accepted, changes>>

\* One turn of the loop of Load.
ReadFile ==
    /\ Serving("read") /\ call.left # <<>>
    /\ LET name == Head(call.left)
           entry == dir[name]
           file == [name |-> name, text |-> entry.text]
       IN IF Unreadable(entry) THEN LoadFails
          ELSE Continue([call EXCEPT !.left = Tail(@),
                           !.files = IF Skipped(entry) THEN @ ELSE Append(@, file)])
    /\ UNCHANGED <<export, data, config, dir, accepted, changes>>

\* The end of Items.
AnswerItems(blocks) ==
    LET diagnostics == ConfigDiagnostics(call.files) \cup GraphDiagnostics(blocks) IN
    IF HasErrors(diagnostics)
    THEN Fail("items", diagnostics, "Terraform items could not be loaded")
    ELSE /\ Reply("items", diagnostics, TRUE)
         /\ UNCHANGED <<state, disk, plan>>

\* What follows Load.
Loaded ==
    LET diagnostics == ConfigDiagnostics(call.files) IN
    /\ Serving("read") /\ call.left = <<>>
    /\ IF call.files = <<>> THEN LoadFails
       ELSE IF call.op = "items" THEN AnswerItems(ConfigBlocks(call.files))
       ELSE IF HasErrors(diagnostics) THEN Fail(call.op, diagnostics, ErrConversion)
       ELSE IF call.cancelled THEN Cancelled
       ELSE Continue([call EXCEPT !.at = "map"])
    /\ UNCHANGED <<export, data, config, dir, accepted, changes>>

\* Mutant: only what the mapper reports is promoted.
JudgedMutant(spec, loaded, mapped) ==
    IF spec.failOnWarning THEN loaded \cup Promoted(mapped) ELSE loaded \cup mapped

\* Convert judges the diagnostics of all stages together.
Judged(spec, loaded, mapped) ==
    IF spec.failOnWarning THEN Promoted(loaded \cup mapped) ELSE loaded \cup mapped

\* BuildGraph and Map.
MapGraph ==
    LET blocks == ConfigBlocks(call.files)
        loaded == ConfigDiagnostics(call.files) \cup GraphDiagnostics(blocks)
        mapped == MappingDiagnostics(call.spec, Nodes(blocks))
        judged == Judged(call.spec, loaded, mapped)
    IN
    /\ Serving("map")
    /\ IF HasErrors(loaded) THEN Fail(call.op, loaded, ErrConversion)
       ELSE IF HasErrors(judged) THEN Fail(call.op, judged, ErrConversion)
       ELSE Continue([call EXCEPT !.at = "encode", !.mapped = mapped])
    /\ UNCHANGED <<export, data, config, dir, accepted, changes>>

\* Marshal
Encode ==
    LET nodes == Nodes(ConfigBlocks(call.files))
        diagnostics == ConfigDiagnostics(call.files) \cup call.mapped
    IN
    /\ Serving("encode")
    /\ IF call.cancelled THEN Cancelled
       ELSE IF DocumentInvalid(call.spec, nodes)
       THEN Fail(call.op, diagnostics \cup {Error("CONVERT-E003")}, ErrConversion)
       ELSE Continue([call EXCEPT !.at = "finish", !.content = Content(call.spec, nodes)])
    /\ UNCHANGED <<export, data, config, dir, accepted, changes>>

-----------------------------------------------------------------------------
(* The end of each request *)

Finishing(op) == Serving("finish") /\ call.op = op

\* The errors of decoding are in the answer before the use case is called.
Reported ==
    ConfigDiagnostics(call.files) \cup call.mapped
      \cup (IF call.op = "convert" THEN {} ELSE DecodeDiagnostics(call.model))

ManagedContent == IF state = NoState THEN NoDigest ELSE state.computed.content

\* The end of Plan and of ModifyPlan.
FinishPlan ==
    LET found == At(call.output) IN
    /\ Finishing("plan")
    /\ IF found = NotRegular THEN Fail("plan", Reported, "Output inspection failed")
       ELSE IF ~MayReplace(ManagedContent, call.spec.overwrite, found)
       THEN Fail("plan", Reported, "Output is not owned")
       ELSE IF HasErrors(Reported)
       THEN Reply("plan", Reported, FALSE) /\ plan' = NoPlan /\ UNCHANGED <<state, disk>>
       ELSE /\ Reply("plan", Reported, TRUE)
            /\ plan' = [model |-> call.model, seen |-> call.seen,
                        computed |-> [id |-> StableID(call.output), export |-> "enable",
                                      source |-> SourceDigest(call.files),
                                      content |-> call.content, observed |-> call.content]]
            /\ UNCHANGED <<state, disk>>
    /\ UNCHANGED <<export, data, config, dir, accepted, changes>>

\* The output has changed.
Replace(diagnostics) ==
    /\ disk' = [p \in DOMAIN disk \cup {call.output} |->
                  IF p = call.output THEN call.content ELSE disk[p]]
    /\ answer' = [op |-> call.op, done |-> ~HasErrors(diagnostics), wrote |-> TRUE,
                  value |-> NoDigest, diagnostics |-> diagnostics]
    /\ call' = Idle

\* Write, which can fail before or after the output has changed.
Write(expected, onSuccess) ==
    \/ Fail(call.op, Reported, "XAL output write failed")
    \/ /\ MayReplace(expected, call.spec.overwrite, At(call.output))
       /\ \/ /\ Replace(Shown(call.op, Reported, "XAL output write failed"))
             /\ UNCHANGED <<state, plan>>
          \/ /\ Replace(Reported)
             /\ IF HasErrors(Reported) THEN UNCHANGED <<state, plan>>
                ELSE state' = onSuccess /\ plan' = NoPlan

\* The end of Apply.
FinishApply ==
    LET planned == plan.computed IN
    /\ Finishing("apply")
    /\ IF planned.source # SourceDigest(call.files)
       THEN Fail("apply", Reported, "Terraform source changed after planning")
       ELSE IF planned.content # call.content
       THEN Fail("apply", Reported, "Generated XAL changed after planning")
       ELSE Write(ManagedContent, [model |-> call.model, computed |-> planned])
    /\ UNCHANGED <<export, data, config, dir, accepted, changes>>

\* The end of Generate.
FinishConvert ==
    /\ Finishing("convert")
    /\ Write(NoDigest, state)
    /\ UNCHANGED <<export, data, config, dir, accepted, changes>>

-----------------------------------------------------------------------------
(* Refresh and destroy, which do not look at the sources *)

StatePaths == ResolveLexical(state.model.source_dir, state.model.output_path)

\* Where the system calls of Inspect and Delete end up.
StateOutput == FileNamed(StatePaths.outputPath)

Read ==
    LET found == At(StateOutput)
        observed == IF state.computed.export = "disable" THEN state.computed.observed
                    ELSE IF found = Absent THEN NoDigest ELSE found
    IN
    /\ call = Idle /\ state # NoState
    /\ IF data = NotConfigured THEN Fail("read", {}, "Provider is not configured")
       ELSE IF state.computed.export # "disable" /\ found = NotRegular
       THEN Fail("read", {}, "Output inspection failed")
       ELSE /\ answer' = [op |-> "read", diagnostics |-> {}, done |-> TRUE, wrote |-> FALSE,
                          value |-> observed]
            /\ state' = [state EXCEPT !.computed.observed = observed]
            /\ UNCHANGED <<call, disk, plan>>
    /\ UNCHANGED <<export, data, config, dir, accepted, changes>>

\* An output that is not what was managed is left where it is, with a warning.
\* The calls of Delete can fail before or after the output is gone; Terraform
\* then keeps the state.
Delete ==
    LET managed == state.computed.content
        found == At(StateOutput)
        removed == MayRemove(managed, found)
        left == IF removed THEN [p \in DOMAIN disk \ {StateOutput} |-> disk[p]] ELSE disk
    IN
    /\ call = Idle /\ state # NoState
    /\ \/ data = NotConfigured /\ Fail("delete", {}, "Provider is not configured")
       \/ /\ data # NotConfigured
          /\ Reply("delete", IF managed = NoDigest \/ found = Absent \/ removed THEN {}
                             ELSE {Warning("Managed output was preserved")}, TRUE)
          /\ disk' = left /\ state' = NoState /\ plan' = NoPlan
       \/ /\ data # NotConfigured /\ managed # NoDigest
          /\ Reply("delete", {Error("Managed output deletion failed")}, FALSE)
          /\ disk' \in {disk, left} /\ UNCHANGED <<state, plan>>
    /\ UNCHANGED <<export, data, config, dir, accepted, changes>>

-----------------------------------------------------------------------------
(* What happens around the provider *)

\* Terraform or the user cancels the request that is being served.
Cancel ==
    /\ call # Idle /\ ~call.cancelled
    /\ call' = [call EXCEPT !.cancelled = TRUE]
    /\ UNCHANGED <<export, data, config, dir, disk, state, plan, accepted, answer, changes>>

\* Values that were unknown become known.
Evaluate ==
    /\ call = Idle
    /\ config' \in Learned(config) \ {config}
    /\ accepted' = accepted \ {"resource"}
    /\ answer' = NoAnswer
    /\ UNCHANGED <<export, data, dir, disk, state, plan, call, changes>>

\* Somebody edits the sources.
Edit ==
    /\ changes < MaxChanges
    /\ \E e \in Edits :
         /\ dir[e.name] # e.entry
         /\ dir' = [dir EXCEPT ![e.name] = e.entry]
    /\ changes' = changes + 1
    /\ UNCHANGED <<export, data, config, disk, state, plan, accepted, call, answer>>

\* The next command runs with another export mode, and configures the provider anew.
ChangeExport ==
    /\ call = Idle /\ plan # NoPlan /\ changes < MaxChanges
    /\ export' = IF export = "enable" THEN "disable" ELSE "enable"
    /\ data' = NotConfigured
    /\ changes' = changes + 1
    /\ UNCHANGED <<config, dir, disk, state, plan, accepted, call, answer>>

Next ==
    \/ ValidateProvider \/ ValidateResource \/ Configure
    \/ StartPlan \/ StartApply \/ StartItems \/ StartConvert
    \/ CheckOptions \/ ListDirectory \/ ReadFile \/ Loaded \/ MapGraph \/ Encode
    \/ FinishPlan \/ FinishApply \/ FinishConvert
    \/ Read \/ Delete
    \/ Cancel \/ Evaluate \/ Edit \/ ChangeExport

Spec == Init /\ [][Next]_vars

-----------------------------------------------------------------------------
(* Properties *)

Codes == {d.code : d \in answer.diagnostics}

\* Answers are honest: a request without its result shows an error, whoever was
\* told to add it (only the data source may have nothing to say, while its
\* source_dir is unknown); one that shows an error has no result, and has not
\* written unless the error is that of writing; with fail_on_warning no warning
\* of any stage survives beside a result.
AnswersAreHonest ==
    answer # NoAnswer =>
      /\ ~answer.done => \/ HasErrors(answer.diagnostics)
                         \/ answer.op = "items" /\ config.source_dir = Unknown
      /\ HasErrors(answer.diagnostics) =>
           /\ ~answer.done
           /\ answer.wrote => "XAL output write failed" \in Codes
      /\ answer.done /\ answer.op \in {"plan", "apply", "convert"}
           /\ config.fail_on_warning = TRUE
         => answer.diagnostics = {}

\* What ValidateConfig accepted, the plan does not refuse for its options or
\* the form of its paths: options only where an integer does not fit Go's int,
\* unknown values only where there are some.
AcceptedConfigurationPlans ==
    /\ answer # NoAnswer /\ answer.op = "configure" /\ "provider" \in accepted => answer.done
    /\ answer # NoAnswer /\ answer.op = "plan" =>
         /\ Codes \cap {"CONVERT-E001", "CONVERT-E004"} # {} =>
              ~Fits(config.grid_columns) \/ ~Fits(config.grid_gap)
         /\ "Unknown diagram option" \in Codes => \E a \in DOMAIN config : config[a] = Unknown
         /\ "Invalid diagram paths" \in Codes => data = "enable"

\* The document shows what the practitioner configured: the frame, the title,
\* every block that holds items with the gap that was set, an explicit zero
\* included, and the addresses of the sources except this provider's own.
BlockShown(content, tag, id, gap, items) ==
    \E e \in content.elements :
      /\ e.tag = tag /\ e.id = id /\ e.holds = items
      /\ gap # Null => e.gaps = {gap}

Shows(model, files, content) ==
    /\ content.id = model.frame_id
    /\ content.titles = {model.title} \ {Null, ""}
    /\ \A r \in ToSet(Blocks(model.row)) :
         RowItems([items |-> Items(r.items), columns |-> Columns(r.columns)]) # <<>> =>
           BlockShown(content, "row", <<>>, r.gap,
                      RowItems([items |-> Items(r.items), columns |-> Columns(r.columns)]))
    /\ \A c \in ToSet(Blocks(model.container)) :
         c.items # <<>> => BlockShown(content, "container", <<c.id>>, c.style.gap, c.items)
    /\ \A e \in content.elements : e.tag = "node" =>
         \E i \in DOMAIN files : \E block \in ToSet(files[i].text.blocks) :
           /\ e.id = Address(block)
           /\ block.type # "module" => block.labels[1] \notin XaligoTypes

\* An apply that succeeds has put on disk what was planned, and it shows the
\* values as they are known in the end.  One is refused only where the sources
\* or the export mode changed, a value the plan had to do without became known,
\* or the request was cancelled or its write failed.
ApplyKeepsThePlan ==
    answer # NoAnswer /\ answer.op = "apply" =>
      IF answer.done
      THEN state.computed.export = "enable" =>
             /\ At(state.computed.id) = state.computed.content
             /\ Shows(state.model, state.computed.source, state.computed.content)
      ELSE \/ plan.seen # changes
           \/ Learned(plan.model) # {plan.model}
           \/ Codes \cap {"Terraform conversion failed", "XAL output write failed",
                          "Provider is not configured"} # {}

\* The output leaves source_dir upwards, and source_dir is behind a link: the
\* textual and the real parent differ.
LeavesThroughLink(model) ==
    /\ ~model.output_path.absolute
    /\ Null \notin ToSet(Clean(<<Null>> \o model.output_path.names))
    /\ EvalSymlinks(Under(WorkDir, model.source_dir)) # Under(WorkDir, model.source_dir)

\* Refresh and destroy resolve paths textually, plan and apply through links;
\* still they see the file that was written, and destroy leaves none behind
\* without saying so.
RefreshFindsTheOutput ==
    /\ /\ answer # NoAnswer /\ answer.op = "read" /\ answer.done
       /\ state.computed.export = "enable"
       /\ ~LeavesThroughLink(state.model)
       => answer.value = IF At(state.computed.id) = Absent THEN NoDigest
                         ELSE At(state.computed.id)
    /\ state # NoState /\ state.computed.export = "enable"
       /\ ~LeavesThroughLink(state.model) => StateOutput = state.computed.id
==============================================================================
