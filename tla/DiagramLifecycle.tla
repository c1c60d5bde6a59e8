--------------------------- MODULE DiagramLifecycle ---------------------------
(*****************************************************************************)
(* The life of xaligo_diagram resources under Terraform: Plan, Apply, Read,  *)
(* Delete and Generate of internal/usecase/diagram.go with what the resource *)
(* controller (internal/controller/diagram_resource.go) records in state.    *)
(*                                                                           *)
(* Each Write and Delete of an output is one step that obeys the ownership   *)
(* rule: ArtifactStore is shown to implement that view (OutputStore).  The   *)
(* world may change between any two steps: Terraform sources, the installed  *)
(* provider build, the practitioner's settings, symbolic links and, by other *)
(* programs, the outputs themselves.                                         *)
(*****************************************************************************)
EXTENDS Ownership, Naturals

CONSTANTS
  Resources,      \* xaligo_diagram resources, each in a state of its own
  Files,          \* output files
  Irregular,      \* a symbolic link or directory under an output's name
  Sources,        \* contents of source_dir; a source stands for its own digest
  Builds,         \* provider builds, which may generate different contents
  Converted,      \* Converted[b][s]: what build b generates from s, or Invalid
  Invalid,        \* a source that does not convert
  Links,          \* where the symbolic links in source_dir point
  RealFile,       \* RealFile[r][l]: the file Resolve names for r
  LexicalFile,    \* LexicalFile[r][l]: the file ResolveLexical's path leads to
  LexicalId,      \* the identity of a path that was not resolved
  NoState, NoPlan, NoWrite,
  Nobody, Outsider,
  Faults,         \* whether an operation may fail after it took effect
  MaxChanges      \* how often the world changes

ASSUME LifecycleAssumption ==
  /\ Converted \in [Builds -> [Sources -> Contents \cup {Invalid}]]
  /\ RealFile \in [Resources -> [Links -> Files]]
  /\ LexicalFile \in [Resources -> [Links -> Files]]
  /\ Faults \in BOOLEAN
  /\ MaxChanges \in Nat

VARIABLES
  file,           \* file[f]: what is under the name f
  writer,         \* writer[f]: who changed f last
  source, build, export, link,
  overwrite,      \* overwrite[r] as configured
  wanted,         \* whether the configuration has resource r
  state,          \* state[r]: the Terraform state of r
  plan,           \* plan[r]: a plan that may still be applied
  writing,        \* what an Apply is about to write, and where
  authored,       \* authored[r]: the content r last reported as written
  changes         \* how often the world has changed

world == <<source, build, export, link, overwrite, wanted, changes>>
vars == <<file, writer, source, build, export, link, overwrite, wanted, state,
          plan, writing, authored, changes>>

OutputValues == Contents \cup {Absent, Irregular}
Digests == Contents \cup {NoDigest}

\* DiagramComputed with the one configured attribute the lifecycle depends on.
ResourceStates ==
  [id : Files \cup {LexicalId}, export : {"enable", "disable"},
   source : Sources \cup {NoDigest}, content : Digests, observed : Digests,
   overwrite : BOOLEAN]

Plans ==
  [kind : {"apply"}, want : ResourceStates]
    \cup [kind : {"destroy"}]

\* Missing, irregular and complete outputs, digests, states and writers are
\* told apart.
ASSUME ValuesDistinct ==
  /\ NoDigest \notin OutputValues
  /\ Absent \notin Contents
  /\ {Irregular, Invalid} \cap Contents = {}
  /\ {Nobody, Outsider} \cap Resources = {}
  /\ NoState \notin ResourceStates

\* stringValue(state.ContentSHA256): no state is no digest.
ManagedDigest(r) == IF state[r] = NoState THEN NoDigest ELSE state[r].content

Output(r) == RealFile[r][link]
OutputAsConfigured(r) == LexicalFile[r][link]

-------------------------------------------------------------------------------

Init ==
  /\ file \in [Files -> Contents \cup {Absent}]
  /\ writer = [f \in Files |-> Nobody]
  /\ source \in Sources
  /\ build \in Builds
  /\ export \in {"enable", "disable"}
  /\ link \in Links
  /\ overwrite \in [Resources -> BOOLEAN]
  /\ wanted = [r \in Resources |-> TRUE]
  /\ state = [r \in Resources |-> NoState]
  /\ plan = [r \in Resources |-> NoPlan]
  /\ writing = [r \in Resources |-> NoWrite]
  /\ authored = [r \in Resources |-> NoDigest]
  /\ changes = 0

-------------------------------------------------------------------------------
(* Read: refresh the observed digest of the output as configured.            *)

Observed(r) ==
  LET v == file[OutputAsConfigured(r)] IN IF v = Absent THEN NoDigest ELSE v

\* Mutant: a refresh adopts what it observes as the managed content.
MutantReadAdopts(r) ==
  /\ state[r] # NoState
  /\ writing[r] = NoWrite
  /\ state[r].export = "enable"
  /\ file[OutputAsConfigured(r)] # Irregular
  /\ state[r].observed # Observed(r)
  /\ state' = [state EXCEPT ![r].observed = Observed(r), ![r].content = Observed(r)]
  /\ plan' = [plan EXCEPT ![r] = NoPlan]
  /\ UNCHANGED <<file, writer, world, writing, authored>>

Read(r) ==
  /\ state[r] # NoState
  /\ writing[r] = NoWrite
  /\ state[r].export = "enable"
  /\ file[OutputAsConfigured(r)] # Irregular
  /\ state[r].observed # Observed(r)
  /\ state' = [state EXCEPT ![r].observed = Observed(r)]
  /\ plan' = [plan EXCEPT ![r] = NoPlan]
  /\ UNCHANGED <<file, writer, world, writing, authored>>

-------------------------------------------------------------------------------
(* Plan                                                                      *)

\* Mutant: a disabled plan starts from scratch instead of from the prior state.
MutantDisabledForgets(r) ==
  [id |-> LexicalId, export |-> "disable", source |-> NoDigest,
   content |-> NoDigest, observed |-> NoDigest, overwrite |-> overwrite[r]]

\* export = "disable": keep what the state says, scan nothing.
PlannedDisabled(r) ==
  IF state[r] = NoState
    THEN [id |-> LexicalId, export |-> "disable", source |-> NoDigest,
          content |-> NoDigest, observed |-> NoDigest, overwrite |-> overwrite[r]]
    ELSE [state[r] EXCEPT !.export = "disable", !.overwrite = overwrite[r]]

\* Mutant: the plan promises the observation of the prior state.
MutantPlannedObserved(r) ==
  LET content == Converted[build][source] IN
  [id |-> Output(r), export |-> "enable", source |-> source, content |-> content,
   observed |-> IF state[r] = NoState THEN NoDigest ELSE state[r].observed,
   overwrite |-> overwrite[r]]

\* export = "enable": what Apply will have written and observed.
PlannedEnabled(r) ==
  LET content == Converted[build][source] IN
  [id |-> Output(r), export |-> "enable", source |-> source,
   content |-> content, observed |-> content, overwrite |-> overwrite[r]]

\* Mutant: overwrite is honoured by Apply but not by Plan.
MutantForeignStrict(r) ==
  file[Output(r)] \notin {Absent, ManagedDigest(r)}

\* The output belongs to somebody else, and the plan says so.
Foreign(r) ==
  LET v == file[Output(r)] IN
  /\ v # Absent
  /\ ~overwrite[r]
  /\ v # ManagedDigest(r)

\* The plans of resource r: one, or none if planning reports an error.
Planned(r) ==
  IF export = "disable" THEN {PlannedDisabled(r)}
  ELSE IF \/ Converted[build][source] = Invalid
          \/ file[Output(r)] = Irregular
          \/ Foreign(r)
         THEN {}
         ELSE {PlannedEnabled(r)}

\* terraform plan with a difference to apply.
Plan(r) ==
  /\ wanted[r]
  /\ writing[r] = NoWrite
  /\ plan[r] = NoPlan
  /\ \E want \in Planned(r) :
       /\ want # state[r]
       /\ plan' = [plan EXCEPT ![r] = [kind |-> "apply", want |-> want]]
  /\ UNCHANGED <<file, writer, world, state, writing, authored>>

\* terraform plan of a resource that left the configuration; ModifyPlan has
\* nothing to say about it.
PlanDestroy(r) ==
  /\ ~wanted[r]
  /\ state[r] # NoState
  /\ writing[r] = NoWrite
  /\ plan[r] = NoPlan
  /\ plan' = [plan EXCEPT ![r] = [kind |-> "destroy"]]
  /\ UNCHANGED <<file, writer, world, state, writing, authored>>

\* The practitioner throws a plan away.
DiscardPlan(r) ==
  /\ plan[r] # NoPlan
  /\ writing[r] = NoWrite
  /\ plan' = [plan EXCEPT ![r] = NoPlan]
  /\ UNCHANGED <<file, writer, world, state, writing, authored>>

-------------------------------------------------------------------------------
(* Apply: Create and Update                                                  *)

Applying(r) ==
  /\ plan[r] # NoPlan
  /\ plan[r].kind = "apply"
  /\ writing[r] = NoWrite

\* Mutant: the generated content is not compared with the plan.
MutantPlannedContent(r, want) ==
  /\ file[Output(r)] # Irregular
  /\ want.id = Output(r)
  /\ want.source = source
  /\ Converted[build][source] # Invalid

\* What Apply checks before it writes: the path, the source and the content are
\* those of the plan.
StillAsPlanned(r, want) ==
  /\ file[Output(r)] # Irregular
  /\ want.id = Output(r)
  /\ want.source = source
  /\ want.content = Converted[build][source]

\* Apply returns an error: the state stays as it was and the plan is spent.
ApplyRejected(r) ==
  /\ Applying(r)
  /\ \/ plan[r].want.export # export
     \/ plan[r].want.export = "enable" /\ ~StillAsPlanned(r, plan[r].want)
  /\ plan' = [plan EXCEPT ![r] = NoPlan]
  /\ UNCHANGED <<file, writer, world, state, writing, authored>>

ApplyDisabled(r) ==
  /\ Applying(r)
  /\ export = "disable"
  /\ plan[r].want.export = "disable"
  /\ state' = [state EXCEPT ![r] = plan[r].want]
  /\ plan' = [plan EXCEPT ![r] = NoPlan]
  /\ UNCHANGED <<file, writer, world, writing, authored>>

\* Resolve and Convert agree with the plan: the bytes to write are now fixed.
ApplyConvert(r) ==
  /\ Applying(r)
  /\ export = "enable"
  /\ plan[r].want.export = "enable"
  /\ StillAsPlanned(r, plan[r].want)
  /\ writing' = [writing EXCEPT ![r] =
                   [file |-> Output(r), source |-> source,
                    content |-> Converted[build][source]]]
  /\ UNCHANGED <<file, writer, world, state, plan, authored>>

\* Mutant: the state keeps the observation of the last refresh.
MutantApplyStaleObservation(r) ==
  LET w == writing[r]
      want == plan[r].want
  IN
  /\ w # NoWrite
  /\ MayReplace(ManagedDigest(r), want.overwrite, file[w.file])
  /\ file' = [file EXCEPT ![w.file] = w.content]
  /\ writer' = [writer EXCEPT ![w.file] = r]
  /\ state' = [state EXCEPT ![r] =
                 [want EXCEPT !.observed = IF state[r] = NoState THEN NoDigest
                                           ELSE state[r].observed]]
  /\ authored' = [authored EXCEPT ![r] = w.content]
  /\ plan' = [plan EXCEPT ![r] = NoPlan]
  /\ writing' = [writing EXCEPT ![r] = NoWrite]
  /\ UNCHANGED world

\* artifacts.Write takes effect and reports it: the plan becomes the state.
\* With Faults it may also take effect and fail to report it (the directory
\* cannot be synced, or the process dies), and the state keeps the old digest.
ApplyWrite(r) ==
  LET w == writing[r]
      want == plan[r].want
  IN
  /\ w # NoWrite
  /\ MayReplace(ManagedDigest(r), want.overwrite, file[w.file])
  /\ file' = [file EXCEPT ![w.file] = w.content]
  /\ writer' = [writer EXCEPT ![w.file] = r]
  /\ \/ /\ state' = [state EXCEPT ![r] =
                       [want EXCEPT !.source = w.source, !.content = w.content,
                                    !.observed = w.content]]
        /\ authored' = [authored EXCEPT ![r] = w.content]
     \/ Faults /\ UNCHANGED <<state, authored>>
  /\ plan' = [plan EXCEPT ![r] = NoPlan]
  /\ writing' = [writing EXCEPT ![r] = NoWrite]
  /\ UNCHANGED world

\* Mutant: a refused write stays pending after its plan is spent.
MutantWriteStays(r) ==
  LET w == writing[r] IN
  /\ w # NoWrite
  /\ Faults \/ ~MayReplace(ManagedDigest(r), plan[r].want.overwrite, file[w.file])
  /\ plan' = [plan EXCEPT ![r] = NoPlan]
  /\ UNCHANGED <<file, writer, world, state, writing, authored>>

\* artifacts.Write refuses, or fails before it changes anything.
ApplyWriteFails(r) ==
  LET w == writing[r] IN
  /\ w # NoWrite
  /\ Faults \/ ~MayReplace(ManagedDigest(r), plan[r].want.overwrite, file[w.file])
  /\ plan' = [plan EXCEPT ![r] = NoPlan]
  /\ writing' = [writing EXCEPT ![r] = NoWrite]
  /\ UNCHANGED <<file, writer, world, state, authored>>

-------------------------------------------------------------------------------
(* Delete                                                                    *)

Destroying(r) ==
  /\ plan[r] # NoPlan
  /\ plan[r].kind = "destroy"

\* Without an error Terraform drops the state.
StateDropped(r) ==
  /\ state' = [state EXCEPT ![r] = NoState]
  /\ plan' = [plan EXCEPT ![r] = NoPlan]

\* artifacts.Delete removes the output; with Faults it may then still fail.
\* (A Delete that fails before that leaves what DiscardPlan leaves.)
DestroyRemoves(r) ==
  LET f == OutputAsConfigured(r) IN
  /\ Destroying(r)
  /\ MayRemove(ManagedDigest(r), file[f])
  /\ file' = [file EXCEPT ![f] = Absent]
  /\ writer' = [writer EXCEPT ![f] = Nobody]
  /\ \/ StateDropped(r)
     \/ Faults /\ plan' = [plan EXCEPT ![r] = NoPlan] /\ UNCHANGED state
  /\ UNCHANGED <<world, writing, authored>>

\* Nothing was managed, nothing is left, or what is there is preserved with a
\* warning.
DestroyPreserves(r) ==
  /\ Destroying(r)
  /\ ~MayRemove(ManagedDigest(r), file[OutputAsConfigured(r)])
  /\ StateDropped(r)
  /\ UNCHANGED <<file, writer, world, writing, authored>>

-------------------------------------------------------------------------------
(* Generate: the convert command writes the same output, without any state.  *)

Generate(r, force) ==
  LET f == Output(r) IN
  /\ changes < MaxChanges
  /\ changes' = changes + 1
  /\ Converted[build][source] # Invalid
  /\ MayReplace(NoDigest, force, file[f])
  /\ file' = [file EXCEPT ![f] = Converted[build][source]]
  /\ writer' = [writer EXCEPT ![f] = Outsider]
  /\ UNCHANGED <<source, build, export, link, overwrite, wanted, state, plan,
                 writing, authored>>

-------------------------------------------------------------------------------
(* The world                                                                 *)

\* Settings, sources, builds and links change at any time; what one Terraform
\* run was given stays fixed in its plan.
WorldChanges ==
  /\ changes < MaxChanges
  /\ changes' = changes + 1
  /\ \/ source' \in Sources \ {source}
        /\ UNCHANGED <<build, export, link, overwrite, wanted>>
     \/ build' \in Builds \ {build}
        /\ UNCHANGED <<source, export, link, overwrite, wanted>>
     \/ export' \in {"enable", "disable"} \ {export}
        /\ UNCHANGED <<source, build, link, overwrite, wanted>>
     \/ link' \in Links \ {link}
        /\ UNCHANGED <<source, build, export, overwrite, wanted>>
     \/ \E r \in Resources : overwrite' = [overwrite EXCEPT ![r] = ~@]
        /\ UNCHANGED <<source, build, export, link, wanted>>
     \/ \E r \in Resources : wanted' = [wanted EXCEPT ![r] = ~@]
        /\ UNCHANGED <<source, build, export, link, overwrite>>
  /\ UNCHANGED <<file, writer, state, plan, writing, authored>>

OutsideWrite(f, v) ==
  /\ changes < MaxChanges
  /\ changes' = changes + 1
  /\ v # file[f]
  /\ file' = [file EXCEPT ![f] = v]
  /\ writer' = [writer EXCEPT ![f] = Outsider]
  /\ UNCHANGED <<source, build, export, link, overwrite, wanted, state, plan,
                 writing, authored>>

-------------------------------------------------------------------------------

Apply(r) ==
  \/ ApplyRejected(r)
  \/ ApplyDisabled(r)
  \/ ApplyConvert(r)
  \/ ApplyWrite(r)
  \/ ApplyWriteFails(r)
  \/ DestroyRemoves(r)
  \/ DestroyPreserves(r)

Terraform(r) ==
  \/ Read(r)
  \/ Plan(r)
  \/ PlanDestroy(r)
  \/ DiscardPlan(r)
  \/ Apply(r)

Next ==
  \/ \E r \in Resources : Terraform(r)
  \/ \E r \in Resources, force \in BOOLEAN : Generate(r, force)
  \/ WorldChanges
  \/ \E f \in Files, v \in OutputValues : OutsideWrite(f, v)

Spec == Init /\ [][Next]_vars

\* The practitioner keeps running terraform apply, and a run refreshes, plans
\* and applies; what a started run does is up to the provider.
Fairness ==
  \A r \in Resources :
    /\ WF_vars(Read(r))
    /\ SF_vars(Plan(r))
    /\ WF_vars(PlanDestroy(r))
    /\ SF_vars(Apply(r))

FairSpec == Spec /\ Fairness

-------------------------------------------------------------------------------

\* The values the variables range over; an Apply that writes has an enabled plan.
LifecycleTypeOK ==
  /\ file \in [Files -> OutputValues]
  /\ writer \in [Files -> Resources \cup {Nobody, Outsider}]
  /\ state \in [Resources -> ResourceStates \cup {NoState}]
  /\ plan \in [Resources -> Plans \cup {NoPlan}]
  /\ writing \in [Resources ->
                    [file : Files, source : Sources, content : Contents]
                      \cup {NoWrite}]
  /\ authored \in [Resources -> Digests]
  /\ \A r \in Resources : writing[r] # NoWrite =>
        plan[r] # NoPlan /\ plan[r].kind = "apply" /\ plan[r].want.export = "enable"

\* Some resource, not another program, changes file f in this step.
ChangedBy(r, f) ==
  /\ file'[f] # file[f]
  /\ \/ writing[r] # NoWrite /\ writing'[r] = NoWrite
     \/ Destroying(r) /\ plan'[r] = NoPlan

\* What was reviewed is what is written: an Apply changes only the file its
\* plan identifies, only to the content its plan shows, and only if the plan
\* was made with export enabled, although sources, builds, links and settings
\* may have changed since.
WritesOnlyWhatWasPlanned ==
  [][\A r \in Resources, f \in Files :
       ChangedBy(r, f) /\ file'[f] # Absent =>
         /\ plan[r].want.id = f
         /\ plan[r].want.content = file'[f]
         /\ plan[r].want.export = "enable"]_vars

\* Without overwrite a resource replaces and removes nothing but the bytes it
\* has itself reported as written: neither a refresh that saw a foreign
\* content, nor a period with export disabled, nor a failed Apply makes
\* somebody else's output its own.
KeepsForeignOutput ==
  [][\A r \in Resources, f \in Files :
       ChangedBy(r, f) =>
         \/ file[f] \in {Absent, authored[r]}
         \/ plan[r].kind = "apply" /\ plan[r].want.overwrite]_vars

\* Planned and final state agree: whatever happened between plan and apply, an
\* Apply that succeeds stores exactly the values its plan showed, so Terraform
\* never reports an inconsistent result.
StoresWhatWasPlanned ==
  [][\A r \in Resources :
       writing[r] # NoWrite /\ state'[r] # state[r] =>
         state'[r] = plan[r].want]_vars

\* A second plan after Apply is empty: as long as nothing else has changed, a
\* refresh finds no drift and the next plan has no difference.
SecondPlanIsEmpty ==
  [][\A r \in Resources :
       /\ writing[r] # NoWrite
       /\ state'[r] # state[r]
       /\ export = "enable"
       /\ StillAsPlanned(r, state'[r])
       /\ overwrite[r] = state'[r].overwrite
       => /\ Observed(r)' = state'[r].observed
          /\ Planned(r)' = {state'[r]}]_vars

\* As long as nobody else touches an output, its resource remembers it: the
\* recorded digest is the digest of the file, through every sequence of plans,
\* refreshes, applies, mode changes and destroys.
StateMatchesOutput ==
  \A r \in Resources, f \in Files :
    writer[f] = r => /\ state[r] # NoState
                     /\ state[r].content = file[f]

\* A resource is never told that its own last output was modified externally.
OwnOutputIsNotForeign ==
  \A r \in Resources : writer[Output(r)] = r => ~Foreign(r)

\* Applied often enough, a configuration that may overwrite gets its output,
\* and a resource that left the configuration leaves the state.
Converges ==
  \A r \in Resources :
    <>[](/\ ~wanted[r] => state[r] = NoState
         /\ /\ wanted[r]
            /\ export = "enable"
            /\ overwrite[r]
            /\ Converted[build][source] # Invalid
            /\ file[Output(r)] # Irregular
            => file[Output(r)] = Converted[build][source])
===============================================================================
