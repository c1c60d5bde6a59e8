------------------------ MODULE DiagramRequestsProofs ------------------------
(***************************************************************************)
(* The properties of the requests, for any configurations, sources, trees, *)
(* edits and values that become known.  The invariants build on each other:*)
(*   LearningInv   what may become known of what is configured and planned *)
(*   HonestInv     the shape of a request and what its diagnostics have    *)
(*                 passed: AnswersAreHonest                                *)
(*   AcceptedInv   what validation has accepted reaches the plan:          *)
(*                 AcceptedConfigurationPlans                              *)
(*   OutputInv     outputs of requests, plans and states:                  *)
(*                 RefreshFindsTheOutput                                   *)
(*   ApplyInv      how far a request has got with sources nobody has       *)
(*                 edited, and what its plan found: ApplyKeepsThePlan      *)
(*                                                                         *)
(* Whether an answer is honest is decided where it is given, from what the *)
(* earlier stages of the request have left: WarningsJudged says that what  *)
(* is encoded has passed the judgement of all stages' diagnostics,         *)
(* StrictnessKept that fail_on_warning reaches the conversion through      *)
(* defaults, plan and learned values, and PlansDecode that an apply gets   *)
(* values which were decoded before without an error.                      *)
(***************************************************************************)
EXTENDS DiagramRequests, PathResolutionProofs, SequenceTheorems

\* Whatever Terraform evaluates again keeps its known values and to the schema, and
\* has no unknown values any more.
LearningInv ==
    /\ config \in Configured
    /\ plan # NoPlan => LearnsWell(plan.model)
    /\ call # Idle /\ call.op = "plan" => LearnsWell(call.model)

Stages == {"options", "list", "read", "map", "encode", "finish"}

Fields == {"op", "at", "model", "spec", "source", "output", "left", "files", "mapped",
           "content", "seen", "cancelled"}

\* A request has all its fields.
CallShape ==
    call # Idle =>
      /\ DOMAIN call = Fields
      /\ call.at \in Stages
      /\ call.op \in {"plan", "apply", "items", "convert"}

Found == ConfigDiagnostics(call.files) \cup call.mapped

\* What is encoded and written has passed Judged; items are not mapped.
WarningsJudged ==
    /\ call # Idle /\ call.at \in {"map", "encode", "finish"} => call.op # "items"
    /\ call # Idle /\ call.at \in {"encode", "finish"} =>
         /\ ~HasErrors(Found)
         /\ call.spec.failOnWarning => Found = {}

\* A configured fail_on_warning is that of the request and of its plan.
StrictnessKept ==
    /\ "fail_on_warning" \in DOMAIN config
    /\ call # Idle /\ call.op # "items" =>
         /\ call.spec.failOnWarning = Flag(call.model.fail_on_warning)
         /\ config.fail_on_warning = TRUE => call.model.fail_on_warning = TRUE
    /\ call # Idle /\ call.op = "plan" =>
         /\ "fail_on_warning" \in DOMAIN call.model
         /\ config.fail_on_warning # Unknown /\ call.model.fail_on_warning # Unknown
    /\ plan # NoPlan =>
         /\ "fail_on_warning" \in DOMAIN plan.model
         /\ config.fail_on_warning # Unknown /\ plan.model.fail_on_warning # Unknown
         /\ config.fail_on_warning = TRUE => plan.model.fail_on_warning = TRUE

PlansDecode ==
    /\ plan # NoPlan => DecodeDiagnostics(plan.model) = {}
    /\ call # Idle /\ call.op = "apply" => DecodeDiagnostics(call.model) = {}

\* The inductive invariant.
HonestInv ==
    /\ AnswersAreHonest
    /\ CallShape
    /\ WarningsJudged
    /\ StrictnessKept
    /\ PlansDecode

-----------------------------------------------------------------------------
(* Diagnostics *)

LEMMA SeverityOfError ==
  ASSUME NEW code PROVE Error(code).severity = "error"
  BY DEF Error

LEMMA ErrorIsError ==
  ASSUME NEW code, NEW D PROVE HasErrors(D \cup {Error(code)})
<1>1. Error(code) \in D \cup {Error(code)} /\ Error(code).severity = "error"
  BY SeverityOfError
<1> QED
  BY <1>1 DEF HasErrors

LEMMA AllErrors ==
  ASSUME NEW D, \A d \in D : d.severity = "error", ~HasErrors(D)
  PROVE  D = {}
  BY DEF HasErrors

\* Decoding and the checks of options report errors only.
LEMMA DecodeReportsErrors ==
  ASSUME NEW model
  PROVE  \A d \in DecodeDiagnostics(model) : d.severity = "error"
  BY SeverityOfError DEF DecodeDiagnostics

LEMMA OptionsReportErrors ==
  ASSUME NEW spec
  PROVE  \A d \in OptionDiagnostics(spec) : d.severity = "error"
  BY SeverityOfError DEF OptionDiagnostics

LEMMA ValidationReportsErrors ==
  ASSUME NEW model
  PROVE  \A d \in ValidateConfig(model) : d.severity = "error"
  BY SeverityOfError DEF ValidateConfig

LEMMA JudgedHasNoErrors ==
  ASSUME NEW spec, NEW loaded, NEW mapped, ~HasErrors(Judged(spec, loaded, mapped))
  PROVE  /\ ~HasErrors(loaded \cup mapped)
         /\ spec.failOnWarning => loaded \cup mapped = {}
<1>1. CASE spec.failOnWarning
  <2>1. Judged(spec, loaded, mapped) = {Error(d.code) : d \in loaded \cup mapped}
    BY <1>1 DEF Judged, Promoted
  <2>2. loaded \cup mapped = {}
    <3> SUFFICES ASSUME NEW d \in loaded \cup mapped PROVE FALSE
      OBVIOUS
    <3>1. Error(d.code) \in Judged(spec, loaded, mapped) /\ Error(d.code).severity = "error"
      BY <2>1, SeverityOfError
    <3> QED
      BY <3>1 DEF HasErrors
  <2> QED
    BY <2>2 DEF HasErrors
<1>2. CASE ~spec.failOnWarning
  BY <1>2 DEF Judged
<1> QED
  BY <1>1, <1>2
-----------------------------------------------------------------------------
(* Ways a step can end                                                       *)

LEMMA HonestReply ==
  ASSUME NEW op, NEW D, NEW done, NEW wrote, NEW value,
         answer' = [op |-> op, diagnostics |-> D, done |-> done, wrote |-> wrote,
                    value |-> value],
         ~done => HasErrors(D) \/ (op = "items" /\ config'.source_dir = Unknown),
         HasErrors(D) => ~done,
         HasErrors(D) /\ wrote => \E d \in D : d.code = "XAL output write failed",
         done /\ op \in {"plan", "apply", "convert"} /\ config'.fail_on_warning = TRUE => D = {}
  PROVE  AnswersAreHonest'
  BY DEF AnswersAreHonest, Codes

\* A request is over, and there is no plan that was not there before.
LEMMA RequestEnds ==
  ASSUME HonestInv, AnswersAreHonest', call' = Idle, plan' \in {plan, NoPlan}, config' = config
  PROVE  HonestInv'
  BY DEF HonestInv, CallShape, WarningsJudged, StrictnessKept, PlansDecode

LEMMA FailInv ==
  ASSUME HonestInv, NEW op, NEW D, NEW failure, Fail(op, D, failure),
         failure = ErrConversion /\ op \in {"plan", "apply"} => HasErrors(D),
         config' = config
  PROVE  HonestInv'
<1>1. /\ answer' = [op |-> op, diagnostics |-> Shown(op, D, failure), done |-> FALSE,
                    wrote |-> FALSE, value |-> NoDigest]
      /\ call' = Idle /\ plan' \in {plan, NoPlan}
  BY DEF Fail, Reply
<1>2. HasErrors(Shown(op, D, failure))
  BY ErrorIsError DEF Shown
<1>3. AnswersAreHonest'
  BY <1>1, <1>2, HonestReply
<1> QED
  BY <1>1, <1>3, RequestEnds

\* A request goes on as the same request.
LEMMA ContinueInv ==
  ASSUME HonestInv, call # Idle, NEW next, Continue(next), config' = config,
         CallShape', next.op = call.op, next.model = call.model, next.spec = call.spec,
         WarningsJudged'
  PROVE  HonestInv'
<1>1. call' = next /\ UNCHANGED <<plan, answer>>
  BY DEF Continue
<1>2. AnswersAreHonest'
  BY <1>1 DEF HonestInv, AnswersAreHonest, Codes
<1>3. StrictnessKept'
  BY <1>1 DEF HonestInv, StrictnessKept
<1>4. PlansDecode'
  BY <1>1 DEF HonestInv, PlansDecode
<1> QED
  BY <1>2, <1>3, <1>4 DEF HonestInv

\* A conversion, or a listing of items, begins.
LEMMA StartInv ==
  ASSUME HonestInv, NEW op \in {"plan", "apply", "items", "convert"}, NEW model, NEW spec,
         NEW paths, Start(op, model, spec, paths), config' = config,
         op # "items" =>
           /\ spec.failOnWarning = Flag(model.fail_on_warning)
           /\ config.fail_on_warning = TRUE => model.fail_on_warning = TRUE,
         op = "plan" => /\ "fail_on_warning" \in DOMAIN model
                        /\ config.fail_on_warning # Unknown /\ model.fail_on_warning # Unknown,
         op = "apply" => DecodeDiagnostics(model) = {}
  PROVE  HonestInv'
<1>1. /\ call' = [op |-> op, at |-> "options", model |-> model, spec |-> spec,
                  source |-> paths.sourceDir, output |-> paths.outputPath,
                  left |-> <<>>, files |-> <<>>, mapped |-> {}, content |-> Absent,
                  seen |-> changes, cancelled |-> FALSE]
      /\ answer' = NoAnswer /\ plan' = plan
  BY DEF Start
<1>2. AnswersAreHonest'
  BY <1>1 DEF AnswersAreHonest
<1>3. CallShape' /\ WarningsJudged'
  BY <1>1 DEF CallShape, WarningsJudged, Stages, Fields
<1>4. StrictnessKept'
  BY <1>1 DEF HonestInv, StrictnessKept
<1>5. PlansDecode'
  BY <1>1 DEF HonestInv, PlansDecode
<1> QED
  BY <1>2, <1>3, <1>4, <1>5 DEF HonestInv
-----------------------------------------------------------------------------
(* One lemma per action.                                                     *)

LEMMA ValidationReply ==
  ASSUME HonestInv, NEW op \in {"validate", "configure"}, NEW D, NEW done, Reply(op, D, done),
         done <=> D = {}, \A d \in D : d.severity = "error",
         plan' = plan, config' = config
  PROVE  HonestInv'
<1>1. /\ answer' = [op |-> op, diagnostics |-> D, done |-> done, wrote |-> FALSE,
                    value |-> NoDigest]
      /\ call' = Idle
  BY DEF Reply
<1>2. HasErrors(D) <=> ~done
  BY DEF HasErrors
<1>3. AnswersAreHonest'
  BY <1>1, <1>2, HonestReply
<1> QED
  BY <1>1, <1>3, RequestEnds

LEMMA ValidateInv ==
  ASSUME HonestInv, ValidateProvider \/ ValidateResource \/ Configure
  PROVE  HonestInv'
<1> DEFINE D == IF ExportRefused THEN {Error("export")} ELSE {}
<1>1. plan' = plan /\ config' = config
  BY DEF ValidateProvider, ValidateResource, Configure
<1>2. \A d \in D : d.severity = "error"
  BY SeverityOfError
<1>3. ~ExportRefused <=> D = {}
  OBVIOUS
<1>4. CASE ValidateProvider
  <2>1. Reply("validate", D, ~ExportRefused)
    BY <1>4 DEF ValidateProvider
  <2> QED
    BY <1>1, <1>2, <1>3, <2>1, ValidationReply
<1>5. CASE Configure
  <2>1. Reply("configure", D, ~ExportRefused)
    BY <1>5 DEF Configure
  <2> QED
    BY <1>1, <1>2, <1>3, <2>1, ValidationReply
<1>6. CASE ValidateResource
  <2>1. Reply("validate", ValidateConfig(config), ValidateConfig(config) = {})
    BY <1>6 DEF ValidateResource
  <2> QED
    BY <1>1, <2>1, ValidationReply, ValidationReportsErrors
<1> QED
  BY <1>4, <1>5, <1>6

\* The defaults keep a configured fail_on_warning.
LEMMA DefaultStrictness ==
  ASSUME StrictnessKept, NEW model, model = WithDefaults(config)
  PROVE  /\ "fail_on_warning" \in DOMAIN model
         /\ InputsKnown(model) =>
              config.fail_on_warning # Unknown /\ model.fail_on_warning # Unknown
         /\ config.fail_on_warning = TRUE => model.fail_on_warning = TRUE
<1>1. "fail_on_warning" \in DOMAIN SchemaDefaults /\ SchemaDefaults.fail_on_warning = FALSE
  BY DEF SchemaDefaults
<1>2. model.fail_on_warning = IF config.fail_on_warning = Null THEN FALSE
                              ELSE config.fail_on_warning
  BY <1>1 DEF WithDefaults, StrictnessKept
<1>3. InputsKnown(model) => model.fail_on_warning # Unknown /\ model.fail_on_warning # Null
  BY <1>1 DEF InputsKnown, MustBeKnown, Known
<1>4. Null # TRUE /\ Null # Unknown
  BY RequestsAssumption
<1>5. InputsKnown(model) => config.fail_on_warning # Unknown
  BY <1>2, <1>3, <1>4
<1>6. config.fail_on_warning = TRUE => model.fail_on_warning = TRUE
  BY <1>2, <1>4
<1>7. DOMAIN model = DOMAIN config
  BY DEF WithDefaults
<1> QED
  BY <1>3, <1>5, <1>6, <1>7 DEF StrictnessKept

\* A plan is made.
LEMMA PlanMade ==
  ASSUME HonestInv, NEW D, NEW model, NEW seen, NEW computed, Reply("plan", D, TRUE),
         plan' = [model |-> model, seen |-> seen, computed |-> computed], config' = config,
         ~HasErrors(D), config.fail_on_warning = TRUE => D = {},
         config.fail_on_warning # Unknown /\ model.fail_on_warning # Unknown,
         "fail_on_warning" \in DOMAIN model,
         config.fail_on_warning = TRUE => model.fail_on_warning = TRUE,
         DecodeDiagnostics(model) = {}
  PROVE  HonestInv'
<1>1. /\ answer' = [op |-> "plan", diagnostics |-> D, done |-> TRUE,
                    wrote |-> FALSE, value |-> NoDigest]
      /\ call' = Idle
  BY DEF Reply
<1>2. AnswersAreHonest'
  BY <1>1, HonestReply
<1>3. CallShape' /\ WarningsJudged'
  BY <1>1 DEF CallShape, WarningsJudged
<1>4. plan'.model = model
  OBVIOUS
<1>5. StrictnessKept'
  BY <1>1, <1>4 DEF HonestInv, StrictnessKept
<1>6. PlansDecode'
  BY <1>1, <1>4 DEF PlansDecode
<1> QED
  BY <1>2, <1>3, <1>5, <1>6 DEF HonestInv

LEMMA PlanDisabledInv ==
  ASSUME HonestInv, NEW model, PlanDisabled(model), config' = config,
         config.fail_on_warning # Unknown /\ model.fail_on_warning # Unknown,
         "fail_on_warning" \in DOMAIN model,
         config.fail_on_warning = TRUE => model.fail_on_warning = TRUE
  PROVE  HonestInv'
<1> DEFINE decoded == DecodeDiagnostics(model)
<1>1. CASE decoded # {}
  <2>1. Reply("plan", decoded, FALSE) /\ plan' = NoPlan
    BY <1>1 DEF PlanDisabled
  <2>2. HasErrors(decoded)
    BY <1>1, DecodeReportsErrors DEF HasErrors
  <2>3. AnswersAreHonest'
    BY <2>1, <2>2, HonestReply DEF Reply
  <2> QED
    BY <2>1, <2>3, RequestEnds DEF Reply
<1>2. CASE decoded = {}
  <2>1. Reply("plan", {}, TRUE)
    BY <1>2, Zenon DEF PlanDisabled
  <2>2. PICK computed : plan' = [model |-> model, seen |-> changes, computed |-> computed]
    BY <1>2, Zenon DEF PlanDisabled
  <2>3. ~HasErrors({})
    BY DEF HasErrors
  <2> QED
    BY <1>2, <2>1, <2>2, <2>3, PlanMade
<1> QED
  BY <1>1, <1>2

LEMMA StartPlanInv ==
  ASSUME HonestInv, StartPlan
  PROVE  HonestInv'
<1> DEFINE model == WithDefaults(config)
           decoded == DecodeDiagnostics(model)
           paths == Resolve(model.source_dir, model.output_path)
<1>1. config' = config
  BY DEF StartPlan
<1>2. /\ "fail_on_warning" \in DOMAIN model
      /\ InputsKnown(model) =>
            config.fail_on_warning # Unknown /\ model.fail_on_warning # Unknown
      /\ config.fail_on_warning = TRUE => model.fail_on_warning = TRUE
  BY DefaultStrictness DEF HonestInv
<1>3. CASE Fail("plan", {}, "Provider is not configured")
  BY <1>1, <1>3, FailInv DEF ErrConversion
<1>4. CASE Fail("plan", {}, "Unknown diagram option")
  BY <1>1, <1>4, FailInv DEF ErrConversion
<1>5. CASE Fail("plan", decoded, "Invalid diagram paths")
  BY <1>1, <1>5, FailInv DEF ErrConversion
<1>6. CASE InputsKnown(model) /\ PlanDisabled(model)
  BY <1>1, <1>2, <1>6, PlanDisabledInv
<1>7. CASE InputsKnown(model) /\ Start("plan", model, SpecFromModel(model), paths)
  <2>1. SpecFromModel(model).failOnWarning = Flag(model.fail_on_warning)
    BY DEF SpecFromModel
  <2> QED
    BY <1>1, <1>2, <1>7, <2>1, StartInv
<1> QED
  BY <1>3, <1>4, <1>5, <1>6, <1>7, Zenon DEF StartPlan

\* What turns out for a plan's values is as strict as the configuration, and decodes.
LEMMA LearnedFromPlan ==
  ASSUME LearningInv, HonestInv, plan # NoPlan, NEW model \in Learned(plan.model)
  PROVE  /\ DecodeDiagnostics(model) = {}
         /\ config.fail_on_warning = TRUE => model.fail_on_warning = TRUE
<1>1. KeepsTheKnown(plan.model)
  BY DEF LearningInv, LearnsWell
<1>2. DecodeDiagnostics(model) = {}
  BY <1>1 DEF HonestInv, PlansDecode, KeepsTheKnown
<1>3. /\ "fail_on_warning" \in DOMAIN plan.model /\ plan.model.fail_on_warning # Unknown
      /\ config.fail_on_warning = TRUE => plan.model.fail_on_warning = TRUE
  BY DEF HonestInv, StrictnessKept
<1>4. "fail_on_warning" \in MustBeKnown
  BY DEF MustBeKnown, SchemaDefaults
<1>5. model.fail_on_warning = plan.model.fail_on_warning
  BY <1>1, <1>3, <1>4 DEF KeepsTheKnown
<1> QED
  BY <1>2, <1>3, <1>5

LEMMA StartApplyInv ==
  ASSUME LearningInv, HonestInv, StartApply
  PROVE  HonestInv'
<1>1. plan # NoPlan /\ config' = config
  BY DEF StartApply
<1>2. PICK model \in Learned(plan.model) : Apply(model)
  BY DEF StartApply
<1> DEFINE paths == Resolve(model.source_dir, model.output_path)
           decoded == DecodeDiagnostics(model)
<1>3. /\ decoded = {}
      /\ config.fail_on_warning = TRUE => model.fail_on_warning = TRUE
  BY <1>1, LearnedFromPlan
<1>4. \/ Fail("apply", {}, "Provider is not configured")
      \/ Fail("apply", decoded, "Provider export mode changed after planning")
      \/ ApplyDisabled(model)
      \/ Fail("apply", decoded, "Invalid diagram paths")
      \/ Fail("apply", decoded, "Diagram path changed after planning")
      \/ Start("apply", model, SpecFromModel(model), paths)
  BY <1>2, Zenon DEF Apply
<1>5. CASE Fail("apply", {}, "Provider is not configured")
  BY <1>1, <1>5, FailInv DEF ErrConversion
<1>6. CASE Fail("apply", decoded, "Provider export mode changed after planning")
  BY <1>1, <1>6, FailInv DEF ErrConversion
<1>7. CASE Fail("apply", decoded, "Invalid diagram paths")
  BY <1>1, <1>7, FailInv DEF ErrConversion
<1>8. CASE Fail("apply", decoded, "Diagram path changed after planning")
  BY <1>1, <1>8, FailInv DEF ErrConversion
<1>9. CASE ApplyDisabled(model)
  <2>1. Reply("apply", {}, TRUE) /\ plan' = NoPlan
    BY <1>3, <1>9 DEF ApplyDisabled
  <2>2. ~HasErrors({})
    BY DEF HasErrors
  <2>3. AnswersAreHonest'
    BY <2>1, <2>2, HonestReply DEF Reply
  <2> QED
    BY <1>1, <2>1, <2>3, RequestEnds DEF Reply
<1>10. CASE Start("apply", model, SpecFromModel(model), paths)
  <2>1. SpecFromModel(model).failOnWarning = Flag(model.fail_on_warning)
    BY DEF SpecFromModel
  <2> QED
    BY <1>1, <1>3, <1>10, <2>1, StartInv
<1> QED
  BY <1>4, <1>5, <1>6, <1>7, <1>8, <1>9, <1>10

LEMMA StartItemsInv ==
  ASSUME HonestInv, StartItems
  PROVE  HonestInv'
<1> DEFINE paths == [sourceDir |-> EvalSymlinks(Under(WorkDir, config.source_dir)),
                     outputPath |-> Nowhere]
<1>1. config' = config
  BY DEF StartItems
<1>2. CASE Fail("items", {}, "Provider is not configured")
  BY <1>1, <1>2, FailInv DEF ErrConversion
<1>3. CASE /\ config.source_dir = Unknown /\ Reply("items", {}, FALSE)
           /\ UNCHANGED <<state, disk, plan>>
  <2>1. ~HasErrors({})
    BY DEF HasErrors
  <2>2. AnswersAreHonest'
    BY <1>1, <1>3, <2>1, HonestReply DEF Reply
  <2> QED
    BY <1>1, <1>3, <2>2, RequestEnds DEF Reply
<1>4. CASE Start("items", config, <<>>, paths)
  BY <1>1, <1>4, StartInv
<1> QED
  BY <1>2, <1>3, <1>4, Zenon DEF StartItems

LEMMA StartConvertInv ==
  ASSUME HonestInv, StartConvert
  PROVE  HonestInv'
<1> DEFINE model == WithDefaults(config)
           paths == Resolve(model.source_dir, model.output_path)
<1>1. config' = config
  BY DEF StartConvert
<1>2. config.fail_on_warning = TRUE => model.fail_on_warning = TRUE
  BY DefaultStrictness DEF HonestInv
<1>3. CASE Fail("convert", {}, "Invalid diagram paths")
  BY <1>1, <1>3, FailInv DEF ErrConversion
<1>4. CASE Start("convert", model, SpecFromFlags(model), paths)
  <2>1. SpecFromFlags(model).failOnWarning = Flag(model.fail_on_warning)
    BY DEF SpecFromFlags, SpecFromModel
  <2> QED
    BY <1>1, <1>2, <1>4, <2>1, StartInv
<1> QED
  BY <1>3, <1>4, Zenon DEF StartConvert
-----------------------------------------------------------------------------
(* The stages of a conversion                                                *)

LEMMA CancelledInv ==
  ASSUME HonestInv, Cancelled, config' = config
  PROVE  HonestInv'
  BY FailInv DEF Cancelled, ErrConversion

LEMMA LoadFailsInv ==
  ASSUME HonestInv, LoadFails, config' = config
  PROVE  HonestInv'
<1> DEFINE diagnostics == ConfigDiagnostics(call.files)
<1>1. CASE Fail("items", diagnostics, "Terraform items could not be loaded")
  BY <1>1, FailInv DEF ErrConversion
<1>2. CASE Fail(call.op, diagnostics \cup {Error("CONVERT-E002")}, ErrConversion)
  BY <1>2, FailInv, ErrorIsError
<1> QED
  BY <1>1, <1>2 DEF LoadFails

\* A request goes on with what the next stage has to know.
LEMMA GoesOn ==
  ASSUME HonestInv, call # Idle, config' = config, NEW next, Continue(next),
         DOMAIN next = Fields, next.at \in Stages,
         next.op = call.op, next.model = call.model, next.spec = call.spec,
         next.at \in {"map", "encode", "finish"} => call.op # "items",
         next.at \in {"encode", "finish"} =>
           /\ ~HasErrors(ConfigDiagnostics(next.files) \cup next.mapped)
           /\ call.spec.failOnWarning => ConfigDiagnostics(next.files) \cup next.mapped = {}
  PROVE  HonestInv'
<1>1. call' = next
  BY DEF Continue
<1>2. CallShape'
  BY <1>1 DEF HonestInv, CallShape
<1>3. WarningsJudged'
  BY <1>1 DEF WarningsJudged, Found
<1> QED
  BY <1>1, <1>2, <1>3, ContinueInv

LEMMA CheckOptionsInv ==
  ASSUME HonestInv, CheckOptions
  PROVE  HonestInv'
<1> DEFINE diagnostics == IF call.op = "items" THEN {} ELSE OptionDiagnostics(call.spec)
<1>1. call # Idle /\ config' = config
  BY DEF CheckOptions, Serving
<1>2. CASE Cancelled
  BY <1>1, <1>2, CancelledInv
<1>3. CASE diagnostics # {} /\ Fail(call.op, diagnostics, ErrConversion)
  <2>1. HasErrors(diagnostics)
    BY <1>3, OptionsReportErrors DEF HasErrors
  <2> QED
    BY <1>1, <1>3, <2>1, FailInv
<1>4. CASE Continue([call EXCEPT !.at = "list"])
  <2> DEFINE next == [call EXCEPT !.at = "list"]
  <2>1. /\ DOMAIN next = Fields /\ next.op = call.op
        /\ next.model = call.model /\ next.spec = call.spec
        /\ next.at = "list"
    BY <1>1 DEF HonestInv, CallShape, Fields
  <2> HIDE DEF next
  <2> QED
    BY <1>1, <1>4, <2>1, GoesOn DEF next, Stages
<1> QED
  BY <1>2, <1>3, <1>4, Zenon DEF CheckOptions

LEMMA ListDirectoryInv ==
  ASSUME HonestInv, ListDirectory
  PROVE  HonestInv'
<1>1. call # Idle /\ config' = config
  BY DEF ListDirectory, Serving
<1>2. CASE LoadFails
  BY <1>1, <1>2, LoadFailsInv
<1>3. ASSUME NEW listed, Continue([call EXCEPT !.at = "read", !.left = listed])
      PROVE  HonestInv'
  <2> DEFINE next == [call EXCEPT !.at = "read", !.left = listed]
  <2>1. /\ DOMAIN next = Fields /\ next.op = call.op
        /\ next.model = call.model /\ next.spec = call.spec
        /\ next.at = "read"
    BY <1>1 DEF HonestInv, CallShape, Fields
  <2> HIDE DEF next
  <2> QED
    BY <1>1, <1>3, <2>1, GoesOn DEF next, Stages
<1> QED
  BY <1>2, <1>3, Zenon DEF ListDirectory

LEMMA ReadFileInv ==
  ASSUME HonestInv, ReadFile
  PROVE  HonestInv'
<1>1. call # Idle /\ config' = config /\ call.at = "read"
  BY DEF ReadFile, Serving
<1>2. CASE LoadFails
  BY <1>1, <1>2, LoadFailsInv
<1>3. ASSUME NEW left, NEW files, Continue([call EXCEPT !.left = left, !.files = files])
      PROVE  HonestInv'
  <2> DEFINE next == [call EXCEPT !.left = left, !.files = files]
  <2>1. /\ DOMAIN next = Fields /\ next.op = call.op
        /\ next.model = call.model /\ next.spec = call.spec
        /\ next.at = call.at
    BY <1>1 DEF HonestInv, CallShape, Fields
  <2> HIDE DEF next
  <2> QED
    BY <1>1, <1>3, <2>1, GoesOn DEF next, Stages
<1> QED
  BY <1>2, <1>3, Zenon DEF ReadFile

LEMMA AnswerItemsInv ==
  ASSUME HonestInv, NEW blocks, AnswerItems(blocks), config' = config
  PROVE  HonestInv'
<1> DEFINE diagnostics == ConfigDiagnostics(call.files) \cup GraphDiagnostics(blocks)
<1>1. CASE Fail("items", diagnostics, "Terraform items could not be loaded")
  BY <1>1, FailInv DEF ErrConversion
<1>2. CASE /\ ~HasErrors(diagnostics) /\ Reply("items", diagnostics, TRUE)
           /\ UNCHANGED <<state, disk, plan>>
  <2>1. AnswersAreHonest'
    BY <1>2, HonestReply DEF Reply
  <2> QED
    BY <1>2, <2>1, RequestEnds DEF Reply
<1> QED
  BY <1>1, <1>2, Zenon DEF AnswerItems

LEMMA LoadedInv ==
  ASSUME HonestInv, Loaded
  PROVE  HonestInv'
<1> DEFINE diagnostics == ConfigDiagnostics(call.files)
<1>1. call # Idle /\ config' = config
  BY DEF Loaded, Serving
<1>2. CASE LoadFails
  BY <1>1, <1>2, LoadFailsInv
<1>3. CASE AnswerItems(ConfigBlocks(call.files))
  BY <1>1, <1>3, AnswerItemsInv
<1>4. CASE HasErrors(diagnostics) /\ Fail(call.op, diagnostics, ErrConversion)
  BY <1>1, <1>4, FailInv
<1>5. CASE Cancelled
  BY <1>1, <1>5, CancelledInv
<1>6. CASE call.op # "items" /\ Continue([call EXCEPT !.at = "map"])
  <2> DEFINE next == [call EXCEPT !.at = "map"]
  <2>1. /\ DOMAIN next = Fields /\ next.op = call.op
        /\ next.model = call.model /\ next.spec = call.spec
        /\ next.at = "map"
    BY <1>1 DEF HonestInv, CallShape, Fields
  <2> HIDE DEF next
  <2> QED
    BY <1>1, <1>6, <2>1, GoesOn DEF next, Stages
<1> QED
  BY <1>2, <1>3, <1>4, <1>5, <1>6, Zenon DEF Loaded

LEMMA MapGraphInv ==
  ASSUME HonestInv, MapGraph
  PROVE  HonestInv'
<1> DEFINE blocks == ConfigBlocks(call.files)
           loaded == ConfigDiagnostics(call.files) \cup GraphDiagnostics(blocks)
           mapped == MappingDiagnostics(call.spec, Nodes(blocks))
           judged == Judged(call.spec, loaded, mapped)
<1>1. call # Idle /\ config' = config /\ call.op # "items"
  BY DEF MapGraph, Serving, HonestInv, WarningsJudged
<1>2. CASE HasErrors(loaded) /\ Fail(call.op, loaded, ErrConversion)
  BY <1>1, <1>2, FailInv
<1>3. CASE HasErrors(judged) /\ Fail(call.op, judged, ErrConversion)
  BY <1>1, <1>3, FailInv
<1>4. CASE /\ ~HasErrors(judged)
           /\ Continue([call EXCEPT !.at = "encode", !.mapped = mapped])
  <2> DEFINE next == [call EXCEPT !.at = "encode", !.mapped = mapped]
  <2>1. /\ DOMAIN next = Fields /\ next.op = call.op
        /\ next.model = call.model /\ next.spec = call.spec
        /\ next.at = "encode" /\ next.files = call.files /\ next.mapped = mapped
    BY <1>1 DEF HonestInv, CallShape, Fields
  <2> HIDE DEF next
  <2> HIDE DEF loaded, mapped, judged
  <2>2. /\ ~HasErrors(loaded \cup mapped)
        /\ call.spec.failOnWarning => loaded \cup mapped = {}
    BY <1>4, JudgedHasNoErrors DEF judged
  <2>3. ConfigDiagnostics(call.files) \subseteq loaded
    BY DEF loaded
  <2>4. /\ ~HasErrors(ConfigDiagnostics(call.files) \cup mapped)
        /\ call.spec.failOnWarning => ConfigDiagnostics(call.files) \cup mapped = {}
    BY <2>2, <2>3 DEF HasErrors
  <2> QED
    BY <1>1, <1>4, <2>1, <2>4, GoesOn DEF next, Stages
<1> QED
  BY <1>2, <1>3, <1>4, Zenon DEF MapGraph

LEMMA EncodeInv ==
  ASSUME HonestInv, Encode
  PROVE  HonestInv'
<1> DEFINE nodes == Nodes(ConfigBlocks(call.files))
           diagnostics == ConfigDiagnostics(call.files) \cup call.mapped
           content == Content(call.spec, nodes)
<1>1. call # Idle /\ config' = config /\ call.at = "encode"
  BY DEF Encode, Serving
<1>2. CASE Cancelled
  BY <1>1, <1>2, CancelledInv
<1>3. CASE Fail(call.op, diagnostics \cup {Error("CONVERT-E003")}, ErrConversion)
  BY <1>1, <1>3, FailInv, ErrorIsError
<1>4. CASE Continue([call EXCEPT !.at = "finish", !.content = content])
  <2> DEFINE next == [call EXCEPT !.at = "finish", !.content = content]
  <2>1. /\ DOMAIN next = Fields /\ next.op = call.op
        /\ next.model = call.model /\ next.spec = call.spec
        /\ next.at = "finish" /\ next.files = call.files /\ next.mapped = call.mapped
    BY <1>1 DEF HonestInv, CallShape, Fields
  <2> HIDE DEF next
  <2>2. /\ call.op # "items" /\ ~HasErrors(diagnostics)
        /\ call.spec.failOnWarning => diagnostics = {}
    BY <1>1 DEF HonestInv, WarningsJudged, Found
  <2> HIDE DEF content
  <2> QED
    BY <1>1, <1>4, <2>1, <2>2, GoesOn DEF next, Stages
<1> QED
  BY <1>2, <1>3, <1>4, Zenon DEF Encode
-----------------------------------------------------------------------------
(* The end of each request                                                   *)

\* Beside a result, fail_on_warning leaves nothing to report.
LEMMA StrictAtTheEnd ==
  ASSUME HonestInv, Serving("finish"), call.op # "items", ~HasErrors(Reported)
  PROVE  /\ call.op # "convert" => DecodeDiagnostics(call.model) = {}
         /\ config.fail_on_warning = TRUE => Reported = {}
<1>1. call # Idle /\ call.at = "finish"
  BY DEF Serving
<1>2. call.op # "convert" => DecodeDiagnostics(call.model) = {}
  BY DecodeReportsErrors DEF Reported, HasErrors
<1>3. Reported \subseteq Found
  BY <1>2 DEF Reported, Found
<1>4. ASSUME config.fail_on_warning = TRUE PROVE Reported = {}
  <2>1. call.spec.failOnWarning = Flag(TRUE)
    BY <1>1, <1>4 DEF HonestInv, StrictnessKept
  <2>2. Flag(TRUE)
    BY RequestsAssumption DEF Flag, Known
  <2> QED
    BY <1>1, <1>3, <2>1, <2>2 DEF HonestInv, WarningsJudged
<1> QED
  BY <1>2, <1>4

LEMMA FinishPlanInv ==
  ASSUME HonestInv, FinishPlan
  PROVE  HonestInv'
<1>1. /\ config' = config /\ Serving("finish") /\ call.op = "plan" /\ call # Idle
  BY DEF FinishPlan, Finishing, Serving
<1>2. CASE Fail("plan", Reported, "Output inspection failed")
  BY <1>1, <1>2, FailInv DEF ErrConversion
<1>3. CASE Fail("plan", Reported, "Output is not owned")
  BY <1>1, <1>3, FailInv DEF ErrConversion
<1>4. CASE HasErrors(Reported) /\ Reply("plan", Reported, FALSE) /\ plan' = NoPlan
  <2>1. AnswersAreHonest'
    BY <1>4, HonestReply DEF Reply
  <2> QED
    BY <1>1, <1>4, <2>1, RequestEnds DEF Reply
<1>5. ASSUME ~HasErrors(Reported), Reply("plan", Reported, TRUE), NEW computed,
             plan' = [model |-> call.model, seen |-> call.seen, computed |-> computed]
      PROVE  HonestInv'
  <2>1. /\ "fail_on_warning" \in DOMAIN call.model
        /\ config.fail_on_warning # Unknown /\ call.model.fail_on_warning # Unknown
        /\ config.fail_on_warning = TRUE => call.model.fail_on_warning = TRUE
    BY <1>1 DEF HonestInv, StrictnessKept
  <2>2. /\ DecodeDiagnostics(call.model) = {}
        /\ config.fail_on_warning = TRUE => Reported = {}
    BY <1>1, <1>5, StrictAtTheEnd
  <2> QED
    BY <1>1, <1>5, <2>1, <2>2, PlanMade
<1> QED
  BY <1>2, <1>3, <1>4, <1>5, Zenon DEF FinishPlan

LEMMA WriteInv ==
  ASSUME HonestInv, NEW expected, NEW onSuccess, Write(expected, onSuccess),
         Serving("finish"), call.op \in {"apply", "convert"}, config' = config
  PROVE  HonestInv'
<1> DEFINE failure == "XAL output write failed"
           shown == Shown(call.op, Reported, failure)
<1>1. CASE Fail(call.op, Reported, failure)
  BY <1>1, FailInv DEF ErrConversion
<1>2. CASE Replace(shown) /\ UNCHANGED <<state, plan>>
  <2>1. shown = Reported \cup {Error(failure)}
    BY DEF Shown, ErrConversion
  <2>2. HasErrors(shown)
    BY <2>1, ErrorIsError
  <2>3. Error(failure) \in shown /\ Error(failure).code = failure
    BY <2>1 DEF Error
  <2> HIDE DEF shown
  <2>4. answer' = [op |-> call.op, diagnostics |-> shown, done |-> FALSE,
                   wrote |-> TRUE, value |-> NoDigest]
    BY <1>2, <2>2 DEF Replace
  <2>5. AnswersAreHonest'
    BY <2>2, <2>3, <2>4, HonestReply
  <2> QED
    BY <1>2, <2>5, RequestEnds DEF Replace
<1>3. CASE Replace(Reported) /\ ~HasErrors(Reported) /\ plan' = NoPlan
  <2>1. config.fail_on_warning = TRUE => Reported = {}
    BY <1>3, StrictAtTheEnd
  <2>2. answer' = [op |-> call.op, diagnostics |-> Reported, done |-> TRUE,
                   wrote |-> TRUE, value |-> NoDigest]
    BY <1>3 DEF Replace
  <2>3. AnswersAreHonest'
    BY <1>3, <2>1, <2>2, HonestReply
  <2> QED
    BY <1>3, <2>3, RequestEnds DEF Replace
<1>4. ~HasErrors(Reported)
  <2>1. DecodeDiagnostics(call.model) = {} \/ call.op = "convert"
    BY DEF HonestInv, PlansDecode, Serving
  <2>2. Reported = Found
    BY <2>1 DEF Reported, Found
  <2> QED
    BY <2>2 DEF HonestInv, WarningsJudged, Serving
<1> QED
  BY <1>1, <1>2, <1>3, <1>4, Zenon DEF Write

LEMMA FinishApplyInv ==
  ASSUME HonestInv, FinishApply
  PROVE  HonestInv'
<1>1. /\ config' = config /\ Serving("finish") /\ call.op = "apply"
  BY DEF FinishApply, Finishing
<1>2. CASE Fail("apply", Reported, "Terraform source changed after planning")
  BY <1>1, <1>2, FailInv DEF ErrConversion
<1>3. CASE Fail("apply", Reported, "Generated XAL changed after planning")
  BY <1>1, <1>3, FailInv DEF ErrConversion
<1>4. ASSUME NEW onSuccess, Write(ManagedContent, onSuccess)
      PROVE  HonestInv'
  BY <1>1, <1>4, WriteInv
<1> QED
  BY <1>2, <1>3, <1>4, Zenon DEF FinishApply

LEMMA FinishConvertInv ==
  ASSUME HonestInv, FinishConvert
  PROVE  HonestInv'
<1>1. /\ config' = config /\ Serving("finish") /\ call.op = "convert"
      /\ Write(NoDigest, state)
  BY DEF FinishConvert, Finishing
<1> QED
  BY <1>1, WriteInv

-----------------------------------------------------------------------------
(* Refresh, destroy and what happens around the provider                     *)

LEMMA ReadInv ==
  ASSUME HonestInv, Read
  PROVE  HonestInv'
<1>1. config' = config /\ call = Idle
  BY DEF Read
<1>2. CASE Fail("read", {}, "Provider is not configured")
  BY <1>1, <1>2, FailInv DEF ErrConversion
<1>3. CASE Fail("read", {}, "Output inspection failed")
  BY <1>1, <1>3, FailInv DEF ErrConversion
<1>4. ASSUME NEW observed,
             answer' = [op |-> "read", diagnostics |-> {}, done |-> TRUE, wrote |-> FALSE,
                        value |-> observed],
             UNCHANGED <<call, disk, plan>>
      PROVE  HonestInv'
  <2>1. ~HasErrors({})
    BY DEF HasErrors
  <2>2. AnswersAreHonest'
    BY <1>4, <2>1, HonestReply
  <2> QED
    BY <1>1, <1>4, <2>2, RequestEnds
<1> QED
  BY <1>2, <1>3, <1>4, Zenon DEF Read

LEMMA DeleteInv ==
  ASSUME HonestInv, Delete
  PROVE  HonestInv'
<1>1. config' = config /\ call = Idle
  BY DEF Delete
<1>2. CASE Fail("delete", {}, "Provider is not configured")
  BY <1>1, <1>2, FailInv DEF ErrConversion
<1>3. ASSUME NEW D \in {{}, {Warning("Managed output was preserved")}},
             Reply("delete", D, TRUE), plan' = NoPlan
      PROVE  HonestInv'
  <2>1. ~HasErrors(D)
    <3>1. Warning("Managed output was preserved").severity # "error"
      BY DEF Warning
    <3> QED
      BY <1>3, <3>1 DEF HasErrors
  <2>2. AnswersAreHonest'
    BY <1>3, <2>1, HonestReply DEF Reply
  <2> QED
    BY <1>1, <1>3, <2>2, RequestEnds DEF Reply
<1>4. CASE /\ Reply("delete", {Error("Managed output deletion failed")}, FALSE)
           /\ UNCHANGED plan
  <2> DEFINE D == {Error("Managed output deletion failed")}
  <2>1. HasErrors(D)
    BY DEF HasErrors, Error
  <2> HIDE DEF D
  <2>2. AnswersAreHonest'
    BY <1>4, <2>1, HonestReply DEF Reply, D
  <2> QED
    BY <1>1, <1>4, <2>2, RequestEnds DEF Reply
<1> QED
  BY <1>2, <1>3, <1>4, Zenon DEF Delete

LEMMA CancelInv ==
  ASSUME HonestInv, Cancel
  PROVE  HonestInv'
<1> DEFINE next == [call EXCEPT !.cancelled = TRUE]
<1>1. call # Idle /\ call' = next /\ UNCHANGED <<config, plan, answer>>
  BY DEF Cancel
<1>2. /\ DOMAIN next = Fields /\ next.op = call.op /\ next.at = call.at
      /\ next.model = call.model /\ next.spec = call.spec
      /\ next.files = call.files /\ next.mapped = call.mapped
  BY <1>1 DEF HonestInv, CallShape, Fields
<1> HIDE DEF next
<1>3. AnswersAreHonest'
  BY <1>1 DEF HonestInv, AnswersAreHonest, Codes
<1>4. CallShape' /\ WarningsJudged'
  BY <1>1, <1>2 DEF HonestInv, CallShape, WarningsJudged, Found
<1>5. StrictnessKept' /\ PlansDecode'
  BY <1>1, <1>2 DEF HonestInv, StrictnessKept, PlansDecode
<1> QED
  BY <1>3, <1>4, <1>5 DEF HonestInv

LEMMA EvaluateInv ==
  ASSUME LearningInv, HonestInv, Evaluate
  PROVE  HonestInv'
<1>1. /\ call = Idle /\ config' \in Learned(config) /\ answer' = NoAnswer
      /\ UNCHANGED <<plan, call>>
  BY DEF Evaluate
<1>2. "fail_on_warning" \in DOMAIN config /\ "fail_on_warning" \in MustBeKnown
  BY DEF HonestInv, StrictnessKept, MustBeKnown, SchemaDefaults
<1>3. /\ DOMAIN config' = DOMAIN config
      /\ config.fail_on_warning # Unknown => config'.fail_on_warning = config.fail_on_warning
  <2>1. KeepsTheKnown(config)
    BY RequestsAssumption DEF LearningInv, LearnsWell
  <2> QED
    BY <1>1, <1>2, <2>1 DEF KeepsTheKnown
<1>4. AnswersAreHonest' /\ CallShape' /\ WarningsJudged' /\ PlansDecode'
  BY <1>1 DEF HonestInv, AnswersAreHonest, CallShape, WarningsJudged, PlansDecode
<1>5. StrictnessKept'
  BY <1>1, <1>2, <1>3 DEF HonestInv, StrictnessKept
<1> QED
  BY <1>4, <1>5 DEF HonestInv

\* Steps of others, and steps that change nothing a request looks at.
LEMMA OthersInv ==
  ASSUME HonestInv, UNCHANGED <<config, call, plan, answer>>
  PROVE  HonestInv'
<1>1. AnswersAreHonest' /\ CallShape' /\ WarningsJudged'
  BY DEF HonestInv, AnswersAreHonest, Codes, CallShape, WarningsJudged, Found
<1>2. StrictnessKept' /\ PlansDecode'
  BY DEF HonestInv, StrictnessKept, PlansDecode
<1> QED
  BY <1>1, <1>2 DEF HonestInv

-----------------------------------------------------------------------------
(* What is evaluated again                                                   *)

LEMMA LearningStays ==
  ASSUME LearningInv, config' = config, plan' \in {plan, NoPlan},
         call' = Idle \/ (call # Idle /\ call'.op = call.op /\ call'.model = call.model)
  PROVE  LearningInv'
  BY DEF LearningInv, Idle

\* A request that has begun keeps its model until it is over.
LEMMA KeepsItsModel ==
  ASSUME HonestInv,
         CheckOptions \/ ListDirectory \/ ReadFile \/ Loaded \/ MapGraph \/ Encode \/ Cancel
  PROVE  /\ call # Idle /\ config' = config /\ plan' \in {plan, NoPlan}
         /\ call' = Idle \/ (call'.op = call.op /\ call'.model = call.model)
<1>1. call # Idle /\ config' = config
  BY DEF CheckOptions, ListDirectory, ReadFile, Loaded, MapGraph, Encode, Cancel, Serving
<1>2. DOMAIN call = Fields
  BY <1>1 DEF HonestInv, CallShape
<1>3. ASSUME NEW op, NEW D, NEW failure, Fail(op, D, failure)
      PROVE  call' = Idle /\ plan' \in {plan, NoPlan}
  BY <1>3 DEF Fail, Reply
<1>4. CASE \E D : Reply("items", D, TRUE) /\ UNCHANGED plan
  BY <1>1, <1>4 DEF Reply
<1>5. CASE CheckOptions /\ Continue([call EXCEPT !.at = "list"])
  BY <1>1, <1>2, <1>5 DEF Continue, Fields
<1>6. CASE ListDirectory /\ Continue([call EXCEPT !.at = "read", !.left = Listing(call.source)])
  BY <1>1, <1>2, <1>6 DEF Continue, Fields
<1>7. ASSUME NEW left, NEW files, Continue([call EXCEPT !.left = left, !.files = files])
      PROVE  call'.op = call.op /\ call'.model = call.model /\ plan' = plan
  BY <1>1, <1>2, <1>7 DEF Continue, Fields
<1>8. CASE Loaded /\ Continue([call EXCEPT !.at = "map"])
  BY <1>1, <1>2, <1>8 DEF Continue, Fields
<1>9. ASSUME NEW mapped, Continue([call EXCEPT !.at = "encode", !.mapped = mapped])
      PROVE  call'.op = call.op /\ call'.model = call.model /\ plan' = plan
  BY <1>1, <1>2, <1>9 DEF Continue, Fields
<1>10. ASSUME NEW content, Continue([call EXCEPT !.at = "finish", !.content = content])
       PROVE  call'.op = call.op /\ call'.model = call.model /\ plan' = plan
  BY <1>1, <1>2, <1>10 DEF Continue, Fields
<1>11. CASE Cancel
  BY <1>1, <1>2, <1>11 DEF Cancel, Fields
<1>12. CASE CheckOptions
  BY <1>1, <1>3, <1>5, <1>12 DEF CheckOptions, Cancelled
<1>13. CASE ListDirectory
  BY <1>1, <1>3, <1>6, <1>13 DEF ListDirectory, LoadFails
<1>14. CASE ReadFile
  BY <1>1, <1>3, <1>7, <1>14 DEF ReadFile, LoadFails
<1>15. CASE Loaded
  BY <1>1, <1>3, <1>4, <1>8, <1>15 DEF Loaded, LoadFails, Cancelled, AnswerItems
<1>16. CASE MapGraph
  BY <1>1, <1>3, <1>9, <1>16 DEF MapGraph
<1>17. CASE Encode
  BY <1>1, <1>3, <1>10, <1>17 DEF Encode, Cancelled
<1> QED
  BY <1>11, <1>12, <1>13, <1>14, <1>15, <1>16, <1>17

LEMMA LearningInit ==
  ASSUME Init
  PROVE  LearningInv
  BY DEF Init, LearningInv, Configured

\* A plan is for what is configured, or for what the request that makes it is for.
LEMMA LearningPlan ==
  ASSUME LearningInv, StartPlan \/ FinishPlan
  PROVE  LearningInv'
<1>1. config' = config
  BY DEF StartPlan, FinishPlan
<1>2. ASSUME NEW model, LearnsWell(model), NEW seen, NEW computed, call' = Idle,
             plan' = [model |-> model, seen |-> seen, computed |-> computed]
      PROVE  LearningInv'
  <2>1. plan'.model = model
    BY <1>2
  <2> QED
    BY <1>1, <1>2, <2>1 DEF LearningInv
<1>3. CASE \E op, D, failure : Fail(op, D, failure)
  <2>1. call' = Idle /\ plan' \in {plan, NoPlan}
    BY <1>3 DEF Fail, Reply
  <2> QED
    BY <1>1, <2>1, LearningStays
<1>4. CASE StartPlan
  <2> DEFINE model == WithDefaults(config)
  <2>1. LearnsWell(model)
    BY RequestsAssumption DEF LearningInv
  <2> HIDE DEF model
  <2>2. CASE PlanDisabled(model)
    <3>1. CASE plan' = NoPlan /\ call' = Idle
      BY <1>1, <3>1, LearningStays
    <3>2. \/ plan' = NoPlan /\ call' = Idle
          \/ call' = Idle /\ \E seen, computed :
               plan' = [model |-> model, seen |-> seen, computed |-> computed]
      BY <2>2, Zenon DEF PlanDisabled, Reply
    <3> QED
      BY <1>2, <2>1, <3>1, <3>2
  <2>3. ASSUME NEW spec, NEW paths, Start("plan", model, spec, paths)
        PROVE  LearningInv'
    <3>1. call'.model = model /\ plan' = plan
      BY <2>3 DEF Start
    <3> QED
      BY <1>1, <2>1, <3>1 DEF LearningInv
  <2> QED
    BY <1>3, <1>4, <2>2, <2>3, Zenon DEF StartPlan, model
<1>5. CASE FinishPlan
  <2>1. call # Idle /\ call.op = "plan"
    BY <1>5 DEF FinishPlan, Finishing, Serving
  <2>2. CASE plan' = NoPlan /\ call' = Idle
    BY <1>1, <2>2, LearningStays
  <2>3. \/ \E op, D, failure : Fail(op, D, failure)
        \/ plan' = NoPlan /\ call' = Idle
        \/ call' = Idle /\ \E seen, computed :
             plan' = [model |-> call.model, seen |-> seen, computed |-> computed]
    BY <1>5, Zenon DEF FinishPlan, Reply
  <2>4. LearnsWell(call.model)
    BY <2>1 DEF LearningInv
  <2> QED
    BY <1>2, <1>3, <2>2, <2>3, <2>4
<1> QED
  BY <1>4, <1>5

LEMMA LearningNext ==
  ASSUME LearningInv, HonestInv, [Next]_vars
  PROVE  LearningInv'
<1>1. CASE ValidateProvider \/ ValidateResource \/ Configure
  <2>1. config' = config /\ plan' = plan /\ call' = Idle
    BY <1>1 DEF ValidateProvider, ValidateResource, Configure, Reply
  <2> QED
    BY <2>1, LearningStays
<1>2. CASE StartPlan \/ FinishPlan
  BY <1>2, LearningPlan
<1>3. CASE StartApply \/ StartItems \/ StartConvert
  <2>1. config' = config
    BY <1>3 DEF StartApply, StartItems, StartConvert
  <2>2. CASE call' = Idle /\ plan' \in {plan, NoPlan}
    BY <2>1, <2>2, LearningStays
  <2>3. CASE plan' = plan /\ call'.op \in {"apply", "items", "convert"}
    BY <2>1, <2>3 DEF LearningInv
  <2>4. \A op, D, failure : Fail(op, D, failure) => call' = Idle /\ plan' \in {plan, NoPlan}
    BY DEF Fail, Reply
  <2>5. \A op, model, spec, paths : Start(op, model, spec, paths) => plan' = plan /\ call'.op = op
    BY DEF Start
  <2>6. \A model : ApplyDisabled(model) => call' = Idle /\ plan' \in {plan, NoPlan}
    BY DEF ApplyDisabled, Reply
  <2>7. ASSUME NEW model, Apply(model)
        PROVE  \/ call' = Idle /\ plan' \in {plan, NoPlan}
               \/ plan' = plan /\ call'.op = "apply"
    <3>1. \/ \E D, failure : Fail("apply", D, failure)
          \/ ApplyDisabled(model)
          \/ \E spec, paths : Start("apply", model, spec, paths)
      BY <2>7, Zenon DEF Apply
    <3> QED
      BY <2>4, <2>5, <2>6, <3>1
  <2>8. StartItems => \/ call' = Idle /\ plan' \in {plan, NoPlan}
                      \/ plan' = plan /\ call'.op = "items"
    <3>1. \/ \E D, failure : Fail("items", D, failure)
          \/ call' = Idle /\ plan' = plan
          \/ \E model, spec, paths : Start("items", model, spec, paths)
          \/ ~StartItems
      BY Zenon DEF StartItems, Reply
    <3> QED
      BY <2>4, <2>5, <3>1
  <2>9. StartConvert => \/ call' = Idle /\ plan' \in {plan, NoPlan}
                        \/ plan' = plan /\ call'.op = "convert"
    BY <2>4, <2>5, Zenon DEF StartConvert
  <2> QED
    BY <1>3, <2>2, <2>3, <2>7, <2>8, <2>9 DEF StartApply
<1>4. CASE \/ CheckOptions \/ ListDirectory \/ ReadFile \/ Loaded \/ MapGraph \/ Encode
           \/ Cancel
  BY <1>4, KeepsItsModel, LearningStays
<1>5. CASE FinishApply \/ FinishConvert \/ Read \/ Delete
  <2>1. config' = config
    BY <1>5 DEF FinishApply, FinishConvert, Read, Delete
  <2>2. \A op, D, failure : Fail(op, D, failure) => call' = Idle /\ plan' \in {plan, NoPlan}
    BY DEF Fail, Reply
  <2>3. \A expected, onSuccess : Write(expected, onSuccess) => call' = Idle /\ plan' \in {plan, NoPlan}
    BY <2>2 DEF Write, Replace
  <2>4. Read => call' = Idle /\ plan' \in {plan, NoPlan}
    BY <2>2 DEF Read
  <2>5. Delete => call' = Idle /\ plan' \in {plan, NoPlan}
    BY <2>2 DEF Delete, Reply
  <2>6. call' = Idle /\ plan' \in {plan, NoPlan}
    BY <1>5, <2>2, <2>3, <2>4, <2>5 DEF FinishApply, FinishConvert
  <2> QED
    BY <2>1, <2>6, LearningStays
<1>6. CASE Evaluate
  <2>1. config \in Configured /\ config' \in Learned(config) /\ call' = Idle /\ plan' = plan
    BY <1>6 DEF Evaluate, LearningInv
  <2>2. config' \in Configured
    BY <2>1, RequestsAssumption
  <2> QED
    BY <2>1, <2>2 DEF LearningInv
<1>7. CASE Edit \/ ChangeExport \/ UNCHANGED vars
  BY <1>7 DEF Edit, ChangeExport, vars, LearningInv
<1> QED
  BY <1>1, <1>2, <1>3, <1>4, <1>5, <1>6, <1>7, Zenon DEF Next

-----------------------------------------------------------------------------

LEMMA HonestInit ==
  ASSUME Init
  PROVE  HonestInv
<1>1. /\ call = Idle /\ plan = NoPlan /\ answer = NoAnswer /\ config \in Configured
  BY DEF Init, Configured
<1>2. "fail_on_warning" \in DOMAIN config
  BY <1>1, RequestsAssumption DEF WellFormed, MustBeKnown, SchemaDefaults
<1> QED
  BY <1>1, <1>2 DEF HonestInv, AnswersAreHonest, CallShape, WarningsJudged, StrictnessKept,
                    PlansDecode

LEMMA HonestNext ==
  ASSUME LearningInv, HonestInv, [Next]_vars
  PROVE  HonestInv'
<1>1. CASE ValidateProvider \/ ValidateResource \/ Configure
  BY <1>1, ValidateInv
<1>2. CASE StartPlan \/ StartApply \/ StartItems \/ StartConvert
  BY <1>2, StartPlanInv, StartApplyInv, StartItemsInv, StartConvertInv
<1>3. CASE CheckOptions \/ ListDirectory \/ ReadFile \/ Loaded \/ MapGraph \/ Encode
  BY <1>3, CheckOptionsInv, ListDirectoryInv, ReadFileInv, LoadedInv, MapGraphInv, EncodeInv
<1>4. CASE FinishPlan \/ FinishApply \/ FinishConvert
  BY <1>4, FinishPlanInv, FinishApplyInv, FinishConvertInv
<1>5. CASE Read \/ Delete
  BY <1>5, ReadInv, DeleteInv
<1>6. CASE Cancel \/ Evaluate
  BY <1>6, CancelInv, EvaluateInv
<1>7. CASE Edit \/ ChangeExport \/ UNCHANGED vars
  <2>1. UNCHANGED <<config, call, plan, answer>>
    BY <1>7 DEF Edit, ChangeExport, vars
  <2> QED
    BY <2>1, OthersInv
<1> QED
  BY <1>1, <1>2, <1>3, <1>4, <1>5, <1>6, <1>7, Zenon DEF Next

\* Whatever is configured, edited, cancelled or fails, no request answers without
\* its result and without an error, or with both, or writes and then reports
\* another error than that of writing, or passes a warning over in spite of
\* fail_on_warning.
THEOREM RequestsAnswersAreHonest == Spec => []AnswersAreHonest
<1>1. HonestInv => AnswersAreHonest
  BY DEF HonestInv
<1> QED
  BY <1>1, LearningInit, LearningNext, HonestInit, HonestNext, PTL DEF Spec

-----------------------------------------------------------------------------
(* What ValidateConfig has accepted *)

\* The codes of a plan that is refused for its options or the form of its paths.
Refusals ==
    {"CONVERT-E001", "CONVERT-E004", "Unknown diagram option", "Invalid diagram paths"}

NoRefusal(diagnostics) == \A d \in diagnostics : d.code \notin Refusals

LEMMA CodeOfError ==
  ASSUME NEW code PROVE Error(code).code = code /\ Warning(code).code = code
  BY DEF Error, Warning

\* Neither the sources nor the layout are refused with these codes.
LEMMA LoaderRefusesNone ==
  ASSUME NEW files, NEW blocks
  PROVE  NoRefusal(ConfigDiagnostics(files)) /\ NoRefusal(GraphDiagnostics(blocks))
<1>1. ASSUME NEW block PROVE NoRefusal(BlockDiagnostics(block))
  <2>1. BlockDiagnostics(block) \subseteq
          {Error("TFCONFIG-E002"), Warning("TFCONFIG-W001"), Warning("TFCONFIG-W002")}
    BY DEF BlockDiagnostics
  <2>2. \A d \in {Error("TFCONFIG-E002"), Warning("TFCONFIG-W001"), Warning("TFCONFIG-W002")} :
           d.code \in {"TFCONFIG-E002", "TFCONFIG-W001", "TFCONFIG-W002"}
    BY CodeOfError
  <2> QED
    BY <2>1, <2>2 DEF NoRefusal, Refusals
<1>2. ASSUME NEW text PROVE NoRefusal(TextDiagnostics(text))
  <2> DEFINE blocksOf == UNION {BlockDiagnostics(text.blocks[i]) : i \in DOMAIN text.blocks}
  <2>1. NoRefusal(blocksOf)
    BY <1>1 DEF NoRefusal
  <2> HIDE DEF blocksOf
  <2>2. TextDiagnostics(text) \subseteq
          {Error("TFCONFIG-E001"), Error("TFCONFIG-E003"), Warning("TFCONFIG-E003")} \cup blocksOf
    BY DEF TextDiagnostics, blocksOf
  <2> QED
    BY <2>1, <2>2, CodeOfError DEF NoRefusal, Refusals
<1>3. NoRefusal(ConfigDiagnostics(files))
  BY <1>2 DEF NoRefusal, ConfigDiagnostics
<1>4. NoRefusal(GraphDiagnostics(blocks))
  <2>1. GraphDiagnostics(blocks) \subseteq {Error("INFRA-E001"), Error("INFRA-E002")}
    BY DEF GraphDiagnostics
  <2>2. \A d \in {Error("INFRA-E001"), Error("INFRA-E002")} : d.code \in {"INFRA-E001", "INFRA-E002"}
    BY CodeOfError
  <2> QED
    BY <2>1, <2>2 DEF NoRefusal, Refusals
<1> QED
  BY <1>3, <1>4

LEMMA MapperRefusesNone ==
  ASSUME NEW spec, NEW nodes
  PROVE  NoRefusal(MappingDiagnostics(spec, nodes))
<1>1. \A d \in MappingDiagnostics(spec, nodes) :
         d \in {Warning("MAPPING-W002"), Warning("MAPPING-W003"), Error("MAPPING-E005")}
  BY DEF MappingDiagnostics
<1>2. \A d \in {Warning("MAPPING-W002"), Warning("MAPPING-W003"), Error("MAPPING-E005")} :
         d.code \in {"MAPPING-W002", "MAPPING-W003", "MAPPING-E005"}
  BY CodeOfError
<1> QED
  BY <1>1, <1>2 DEF NoRefusal, Refusals

LEMMA DecodingRefusesNone ==
  ASSUME NEW model
  PROVE  NoRefusal(DecodeDiagnostics(model))
<1>1. \A d \in DecodeDiagnostics(model) : d.code = "Value Conversion Error"
  BY CodeOfError DEF DecodeDiagnostics
<1> QED
  BY <1>1 DEF NoRefusal, Refusals

LEMMA JudgementRefusesNone ==
  ASSUME NEW spec, NEW loaded, NEW mapped, NoRefusal(loaded), NoRefusal(mapped)
  PROVE  NoRefusal(Judged(spec, loaded, mapped))
  BY CodeOfError DEF NoRefusal, Judged, Promoted

-----------------------------------------------------------------------------
(* Options *)

LEMMA Accepted ==
  ASSUME NEW model, ValidateConfig(model) = {}
  PROVE  /\ Known(model.frame_id) => ValidFrameID(model.frame_id)
         /\ Known(model.paper_size) => ValidPaperSize(model.paper_size)
         /\ Known(model.orientation) => ValidOrientation(model.orientation)
         /\ Known(model.grid_columns) => ValidGridColumns(Narrow(model.grid_columns))
         /\ Known(model.grid_gap) => ~(model.grid_gap < 0)
         /\ Known(model.source_dir) => model.source_dir # EmptyPath
         /\ Known(model.output_path) => IsXal(model.output_path.names)
  BY DEF ValidateConfig

LEMMA SmallFits ==
  ASSUME NEW v \in 0..16
  PROVE  Narrow(v) = v
  BY ConversionAssumption DEF Narrow

LEMMA ValueOfDefault ==
  ASSUME WellFormed(config), NEW a \in MustBeKnown
  PROVE  LET model == WithDefaults(config) IN
         model[a] = IF a \in DOMAIN SchemaDefaults /\ config[a] = Null THEN SchemaDefaults[a]
                    ELSE config[a]
  BY DEF WithDefaults, WellFormed

\* A request that has all its inputs refuses no options but what does not fit an int.
LEMMA OptionsFit ==
  ASSUME WellFormed(config), ValidateConfig(config) = {}, NEW model,
         model = WithDefaults(config), InputsKnown(model),
         OptionDiagnostics(SpecFromModel(model)) # {}
  PROVE  ~Fits(config.grid_columns) \/ ~Fits(config.grid_gap)
<1> SUFFICES ASSUME Fits(config.grid_gap) PROVE FALSE
  OBVIOUS
<1>1. \A a \in MustBeKnown :
        /\ Known(model[a])
        /\ \/ model[a] = config[a] /\ Known(config[a])
           \/ a \in DOMAIN SchemaDefaults /\ model[a] = SchemaDefaults[a]
  BY ValueOfDefault DEF InputsKnown
<1>2. /\ {"frame_id", "paper_size", "orientation", "grid_columns", "grid_gap"} \subseteq MustBeKnown
      /\ SchemaDefaults.frame_id = "main" /\ SchemaDefaults.paper_size = "screen"
      /\ SchemaDefaults.orientation = "landscape"
      /\ SchemaDefaults.grid_columns = 1 /\ SchemaDefaults.grid_gap = 16
  BY DEF MustBeKnown, SchemaDefaults
<1> DEFINE spec == SpecFromModel(model)
<1>3. /\ spec.frameID = model.frame_id /\ spec.paperSize = model.paper_size
      /\ spec.orientation = model.orientation
      /\ spec.gridColumns = Narrow(model.grid_columns) /\ spec.gridGap = Narrow(model.grid_gap)
  BY <1>1, <1>2 DEF SpecFromModel, Text, IntValue, Number
<1>4. ValidFrameID(spec.frameID)
  BY <1>1, <1>2, <1>3, Accepted, ConversionAssumption DEF ValidFrameID
<1>5. ValidPaperSize(spec.paperSize)
  BY <1>1, <1>2, <1>3, Accepted DEF ValidPaperSize
<1>6. ValidOrientation(spec.orientation)
  BY <1>1, <1>2, <1>3, Accepted DEF ValidOrientation
<1>7. ValidGridColumns(spec.gridColumns)
  <2>1. Narrow(1) = 1
    BY SmallFits
  <2> QED
    BY <1>1, <1>2, <1>3, <2>1, Accepted DEF ValidGridColumns
<1>8. ~(spec.gridGap < 0)
  <2>1. Narrow(16) = 16
    BY SmallFits
  <2> QED
    BY <1>1, <1>2, <1>3, <2>1, Accepted DEF Fits
<1> HIDE DEF spec
<1> QED
  BY <1>4, <1>5, <1>6, <1>7, <1>8 DEF OptionDiagnostics, spec

\* What has to be known and is not is unknown in the configuration.
LEMMA UnknownInput ==
  ASSUME WellFormed(config), ~InputsKnown(WithDefaults(config))
  PROVE  \E a \in DOMAIN config : config[a] = Unknown
<1> DEFINE model == WithDefaults(config)
<1>1. CASE \E a \in MustBeKnown : ~Known(model[a])
  <2>1. PICK a \in MustBeKnown : ~Known(model[a])
    BY <1>1
  <2>2. a \in DOMAIN config
    BY DEF WellFormed
  <2>3. model[a] = config[a] /\ (a \in DOMAIN SchemaDefaults => config[a] # Null)
    BY <2>1, ValueOfDefault, RequestsAssumption
  <2>4. config[a] \in {Null, Unknown}
    BY <2>1, <2>3 DEF Known
  <2>5. a \in {"source_dir", "output_path"} => config[a] # Null
    BY RequestsAssumption DEF WellFormed, Paths
  <2>6. a \in DOMAIN SchemaDefaults \/ a \in {"source_dir", "output_path"}
    BY DEF MustBeKnown
  <2> QED
    BY <2>2, <2>3, <2>4, <2>5, <2>6
<1>2. CASE \E a \in {"row", "container", "layout"} : model[a] = Unknown
  <2>1. PICK a \in {"row", "container", "layout"} : model[a] = Unknown
    BY <1>2
  <2>2. a \in DOMAIN config /\ a \notin DOMAIN SchemaDefaults
    BY DEF WellFormed, SchemaDefaults
  <2>3. model[a] = config[a]
    BY <2>2 DEF WithDefaults
  <2> QED
    BY <2>1, <2>2, <2>3
<1> QED
  BY <1>1, <1>2 DEF InputsKnown
-----------------------------------------------------------------------------
(* How the stages of a request go on                                         *)

SameRequest(next) ==
    /\ DOMAIN next = Fields
    /\ next.op = call.op /\ next.model = call.model /\ next.spec = call.spec
    /\ next.source = call.source /\ next.output = call.output /\ next.seen = call.seen

\* Nothing a stage reports is a refusal, but what the first one says of the options.
OnlyOptionsRefused(D) ==
    \A d \in D : d.code \in Refusals =>
      call.op # "items" /\ d \in OptionDiagnostics(call.spec)

StageFails ==
    \E D, failure : /\ Fail(call.op, D, failure)
                    /\ failure \notin Refusals /\ OnlyOptionsRefused(D)

StageGoesOn ==
    \E next : Continue(next) /\ SameRequest(next) /\ NoRefusal(next.mapped)

ItemsAnswered ==
    /\ call.op = "items" /\ UNCHANGED <<state, disk, plan>>
    /\ \E D : Reply("items", D, TRUE)

LEMMA StageFailing ==
  ASSUME NEW D, NEW failure, Fail(call.op, D, failure), NoRefusal(D), failure \notin Refusals
  PROVE  StageFails
  BY DEF StageFails, OnlyOptionsRefused, NoRefusal

LEMMA ConversionFailing ==
  ASSUME NEW D, Fail(call.op, D, ErrConversion), NoRefusal(D)
  PROVE  StageFails
<1>1. ErrConversion \notin Refusals
  BY DEF ErrConversion, Refusals
<1> QED
  BY <1>1, StageFailing

LEMMA LoadFailing ==
  ASSUME LoadFails
  PROVE  StageFails
<1> DEFINE diagnostics == ConfigDiagnostics(call.files)
<1>1. NoRefusal(diagnostics)
  BY LoaderRefusesNone
<1>2. CASE call.op = "items" /\ Fail("items", diagnostics, "Terraform items could not be loaded")
  <2>1. "Terraform items could not be loaded" \notin Refusals
    BY DEF Refusals
  <2> QED
    BY <1>1, <1>2, <2>1, StageFailing
<1>3. CASE Fail(call.op, diagnostics \cup {Error("CONVERT-E002")}, ErrConversion)
  <2>1. NoRefusal(diagnostics \cup {Error("CONVERT-E002")})
    BY <1>1, CodeOfError DEF NoRefusal, Refusals
  <2> QED
    BY <1>3, <2>1, ConversionFailing
<1> QED
  BY <1>2, <1>3 DEF LoadFails

LEMMA CancelFailing ==
  ASSUME Cancelled, NoRefusal(call.mapped)
  PROVE  StageFails
<1>1. NoRefusal(ConfigDiagnostics(call.files) \cup call.mapped)
  BY LoaderRefusesNone DEF NoRefusal
<1>2. "Terraform conversion failed" \notin Refusals
  BY DEF Refusals
<1> QED
  BY <1>1, <1>2, StageFailing DEF Cancelled

Unaffected == UNCHANGED <<export, data, config, accepted>>

LEMMA OptionsForm ==
  ASSUME HonestInv, CheckOptions, NoRefusal(call.mapped)
  PROVE  StageFails \/ StageGoesOn
<1> DEFINE diagnostics == IF call.op = "items" THEN {} ELSE OptionDiagnostics(call.spec)
<1>1. CASE Cancelled
  BY <1>1, CancelFailing
<1>2. CASE Fail(call.op, diagnostics, ErrConversion)
  <2>1. OnlyOptionsRefused(diagnostics)
    BY DEF OnlyOptionsRefused
  <2>2. ErrConversion \notin Refusals
    BY DEF ErrConversion, Refusals
  <2> QED
    BY <1>2, <2>1, <2>2 DEF StageFails
<1>3. CASE Continue([call EXCEPT !.at = "list"])
  <2>1. SameRequest([call EXCEPT !.at = "list"]) /\ [call EXCEPT !.at = "list"].mapped = call.mapped
    BY DEF SameRequest, HonestInv, CallShape, CheckOptions, Serving, Fields
  <2> QED
    BY <1>3, <2>1 DEF StageGoesOn
<1> QED
  BY <1>1, <1>2, <1>3, Zenon DEF CheckOptions

LEMMA ListForm ==
  ASSUME HonestInv, ListDirectory, NoRefusal(call.mapped)
  PROVE  StageFails \/ StageGoesOn
<1>1. CASE LoadFails
  BY <1>1, LoadFailing
<1>2. ASSUME NEW listed, Continue([call EXCEPT !.at = "read", !.left = listed])
      PROVE  StageGoesOn
  <2> DEFINE next == [call EXCEPT !.at = "read", !.left = listed]
  <2>1. SameRequest(next) /\ next.mapped = call.mapped
    BY DEF SameRequest, HonestInv, CallShape, ListDirectory, Serving, Fields
  <2> QED
    BY <1>2, <2>1 DEF StageGoesOn
<1> QED
  BY <1>1, <1>2, Zenon DEF ListDirectory

LEMMA ReadForm ==
  ASSUME HonestInv, ReadFile, NoRefusal(call.mapped)
  PROVE  StageFails \/ StageGoesOn
<1>1. CASE LoadFails
  BY <1>1, LoadFailing
<1>2. ASSUME NEW left, NEW files, Continue([call EXCEPT !.left = left, !.files = files])
      PROVE  StageGoesOn
  <2> DEFINE next == [call EXCEPT !.left = left, !.files = files]
  <2>1. SameRequest(next) /\ next.mapped = call.mapped
    BY DEF SameRequest, HonestInv, CallShape, ReadFile, Serving, Fields
  <2> QED
    BY <1>2, <2>1 DEF StageGoesOn
<1> QED
  BY <1>1, <1>2, Zenon DEF ReadFile

LEMMA LoadedForm ==
  ASSUME HonestInv, Loaded, NoRefusal(call.mapped)
  PROVE  StageFails \/ StageGoesOn \/ ItemsAnswered
<1> DEFINE diagnostics == ConfigDiagnostics(call.files)
           blocks == ConfigBlocks(call.files)
<1>1. CASE LoadFails
  BY <1>1, LoadFailing
<1>2. CASE call.op = "items" /\ AnswerItems(blocks)
  <2> DEFINE all == diagnostics \cup GraphDiagnostics(blocks)
  <2>1. CASE Fail("items", all, "Terraform items could not be loaded")
    <3>1. NoRefusal(all)
      BY LoaderRefusesNone DEF NoRefusal
    <3>2. "Terraform items could not be loaded" \notin Refusals
      BY DEF Refusals
    <3> QED
      BY <1>2, <2>1, <3>1, <3>2, StageFailing
  <2>2. CASE Reply("items", all, TRUE) /\ UNCHANGED <<state, disk, plan>>
    BY <1>2, <2>2 DEF ItemsAnswered
  <2> QED
    BY <1>2, <2>1, <2>2, Zenon DEF AnswerItems
<1>3. CASE Fail(call.op, diagnostics, ErrConversion)
  BY <1>3, LoaderRefusesNone, ConversionFailing
<1>4. CASE Cancelled
  BY <1>4, CancelFailing
<1>5. CASE Continue([call EXCEPT !.at = "map"])
  <2>1. SameRequest([call EXCEPT !.at = "map"]) /\ [call EXCEPT !.at = "map"].mapped = call.mapped
    BY DEF SameRequest, HonestInv, CallShape, Loaded, Serving, Fields
  <2> QED
    BY <1>5, <2>1 DEF StageGoesOn
<1> QED
  BY <1>1, <1>2, <1>3, <1>4, <1>5, Zenon DEF Loaded

LEMMA MapForm ==
  ASSUME HonestInv, MapGraph, NoRefusal(call.mapped)
  PROVE  StageFails \/ StageGoesOn
<1> DEFINE blocks == ConfigBlocks(call.files)
           loaded == ConfigDiagnostics(call.files) \cup GraphDiagnostics(blocks)
           mapped == MappingDiagnostics(call.spec, Nodes(blocks))
           judged == Judged(call.spec, loaded, mapped)
<1>1. NoRefusal(loaded) /\ NoRefusal(mapped)
  BY LoaderRefusesNone, MapperRefusesNone DEF NoRefusal
<1>2. CASE Fail(call.op, loaded, ErrConversion)
  BY <1>1, <1>2, ConversionFailing
<1>3. CASE Fail(call.op, judged, ErrConversion)
  BY <1>1, <1>3, JudgementRefusesNone, ConversionFailing
<1>4. CASE Continue([call EXCEPT !.at = "encode", !.mapped = mapped])
  <2> DEFINE next == [call EXCEPT !.at = "encode", !.mapped = mapped]
  <2>1. SameRequest(next) /\ next.mapped = mapped
    BY DEF SameRequest, HonestInv, CallShape, MapGraph, Serving, Fields
  <2> QED
    BY <1>1, <1>4, <2>1 DEF StageGoesOn
<1> QED
  BY <1>2, <1>3, <1>4, Zenon DEF MapGraph

LEMMA EncodeForm ==
  ASSUME HonestInv, Encode, NoRefusal(call.mapped)
  PROVE  StageFails \/ StageGoesOn
<1> DEFINE diagnostics == ConfigDiagnostics(call.files) \cup call.mapped
           content == Content(call.spec, Nodes(ConfigBlocks(call.files)))
<1>1. CASE Cancelled
  BY <1>1, CancelFailing
<1>2. CASE Fail(call.op, diagnostics \cup {Error("CONVERT-E003")}, ErrConversion)
  <2>1. NoRefusal(diagnostics)
    BY LoaderRefusesNone DEF NoRefusal
  <2>2. NoRefusal(diagnostics \cup {Error("CONVERT-E003")})
    BY <2>1, CodeOfError DEF NoRefusal, Refusals
  <2> QED
    BY <1>2, <2>2, ConversionFailing
<1>3. CASE Continue([call EXCEPT !.at = "finish", !.content = content])
  <2> DEFINE next == [call EXCEPT !.at = "finish", !.content = content]
  <2> HIDE DEF content
  <2>1. SameRequest(next) /\ next.mapped = call.mapped
    BY DEF SameRequest, HonestInv, CallShape, Encode, Serving, Fields
  <2> QED
    BY <1>3, <2>1 DEF StageGoesOn, content
<1> QED
  BY <1>1, <1>2, <1>3, Zenon DEF Encode

Stage == CheckOptions \/ ListDirectory \/ ReadFile \/ Loaded \/ MapGraph \/ Encode

LEMMA StageForms ==
  ASSUME HonestInv, Stage, NoRefusal(call.mapped)
  PROVE  /\ call # Idle /\ Unaffected /\ UNCHANGED <<dir, changes>>
         /\ StageFails \/ StageGoesOn \/ ItemsAnswered
<1>1. call # Idle /\ Unaffected /\ UNCHANGED <<dir, changes>>
  BY DEF Stage, CheckOptions, ListDirectory, ReadFile, Loaded, MapGraph, Encode, Serving,
         Unaffected
<1> QED
  BY <1>1, OptionsForm, ListForm, ReadForm, LoadedForm, MapForm, EncodeForm DEF Stage
-----------------------------------------------------------------------------
(* Accepted configurations                                                   *)

ProviderAccepted == "provider" \in accepted => ~ExportRefused
ResourceAccepted == "resource" \in accepted => ValidateConfig(config) = {}

\* The request of a plan is what the accepted configuration asks for.
PlansTheAccepted ==
    call # Idle /\ call.op = "plan" =>
      /\ "resource" \in accepted
      /\ call.model = WithDefaults(config) /\ InputsKnown(call.model)
      /\ call.spec = SpecFromModel(call.model)

MapperAccepts == call # Idle => NoRefusal(call.mapped)

RefusedPlanIsGone ==
    answer # NoAnswer /\ answer.op = "plan" /\ "Invalid diagram paths" \in Codes => plan = NoPlan

AcceptedInv ==
    /\ AcceptedConfigurationPlans
    /\ WellFormed(config)
    /\ ProviderAccepted /\ ResourceAccepted
    /\ PlansTheAccepted
    /\ MapperAccepts
    /\ RefusedPlanIsGone

\* What a plan's answer may say.
Justified(D) ==
    \A d \in D :
      /\ d.code \in {"CONVERT-E001", "CONVERT-E004"} =>
           ~Fits(config.grid_columns) \/ ~Fits(config.grid_gap)
      /\ d.code = "Unknown diagram option" => \E a \in DOMAIN config : config[a] = Unknown
      /\ d.code = "Invalid diagram paths" => data = "enable"

LEMMA NoRefusalJustified ==
  ASSUME NEW D, NoRefusal(D)
  PROVE  Justified(D)
  BY DEF NoRefusal, Refusals, Justified

LEMMA ErrorJustified ==
  ASSUME NEW code, code \notin {"CONVERT-E001", "CONVERT-E004"},
         code = "Unknown diagram option" => \E a \in DOMAIN config : config[a] = Unknown,
         code = "Invalid diagram paths" => data = "enable"
  PROVE  Justified({Error(code)})
<1>1. \A d \in {Error(code)} : d.code = code
  BY CodeOfError
<1> QED
  BY <1>1 DEF Justified

\* A request is over.
LEMMA AnsweredAccepted ==
  ASSUME AcceptedInv, Unaffected, call' = Idle, NEW op, NEW D, NEW done, NEW wrote, NEW value,
         answer' = [op |-> op, diagnostics |-> D, done |-> done, wrote |-> wrote,
                    value |-> value],
         op # "configure",
         op = "plan" => Justified(D) /\ (plan' = NoPlan \/ NoRefusal(D))
  PROVE  AcceptedInv'
<1>1. /\ answer'.op = op /\ answer'.done = done
      /\ Codes' = {d.code : d \in D}
  BY DEF Codes
<1>2. AcceptedConfigurationPlans'
  BY <1>1 DEF AcceptedConfigurationPlans, Unaffected, Justified
<1>3. RefusedPlanIsGone'
  BY <1>1 DEF RefusedPlanIsGone, NoRefusal, Refusals
<1>4. ProviderAccepted' /\ ResourceAccepted' /\ WellFormed(config)'
  BY DEF AcceptedInv, Unaffected, ProviderAccepted, ResourceAccepted, ExportRefused
<1>5. PlansTheAccepted' /\ MapperAccepts'
  BY DEF PlansTheAccepted, MapperAccepts
<1> QED
  BY <1>2, <1>3, <1>4, <1>5 DEF AcceptedInv

LEMMA RepliedAccepted ==
  ASSUME AcceptedInv, Unaffected, NEW op, NEW D, NEW done, Reply(op, D, done),
         op # "configure",
         op = "plan" => Justified(D) /\ (plan' = NoPlan \/ NoRefusal(D))
  PROVE  AcceptedInv'
  BY AnsweredAccepted DEF Reply

LEMMA FailedAccepted ==
  ASSUME AcceptedInv, Unaffected, NEW op, NEW D, NEW failure, Fail(op, D, failure),
         op # "configure", op = "plan" => Justified(D) /\ Justified({Error(failure)})
  PROVE  AcceptedInv'
<1>1. Reply(op, Shown(op, D, failure), FALSE) /\ (op = "plan" => plan' = NoPlan)
  BY DEF Fail
<1>2. op = "plan" => Justified(Shown(op, D, failure))
  BY DEF Shown, Justified
<1> QED
  BY <1>1, <1>2, RepliedAccepted

\* A request goes on, or begins.
LEMMA ServingAccepted ==
  ASSUME AcceptedInv, Unaffected, answer' = NoAnswer \/ UNCHANGED <<answer, plan>>,
         PlansTheAccepted', MapperAccepts'
  PROVE  AcceptedInv'
<1>1. AcceptedConfigurationPlans' /\ RefusedPlanIsGone'
  BY DEF AcceptedInv, AcceptedConfigurationPlans, RefusedPlanIsGone, Unaffected, Codes
<1>2. ProviderAccepted' /\ ResourceAccepted' /\ WellFormed(config)'
  BY DEF AcceptedInv, Unaffected, ProviderAccepted, ResourceAccepted, ExportRefused
<1> QED
  BY <1>1, <1>2 DEF AcceptedInv

LEMMA StageAccepted ==
  ASSUME HonestInv, AcceptedInv, Stage
  PROVE  AcceptedInv'
<1>1. call # Idle /\ NoRefusal(call.mapped)
  BY DEF AcceptedInv, MapperAccepts, Stage, CheckOptions, ListDirectory, ReadFile, Loaded,
         MapGraph, Encode, Serving
<1>2. Unaffected /\ (StageFails \/ StageGoesOn \/ ItemsAnswered)
  BY <1>1, StageForms
<1>3. CASE StageFails
  <2>1. PICK D, failure : /\ Fail(call.op, D, failure)
                          /\ failure \notin Refusals /\ OnlyOptionsRefused(D)
    BY <1>3 DEF StageFails
  <2>2. ASSUME call.op = "plan" PROVE Justified(D)
    <3>1. OptionDiagnostics(call.spec) # {} => ~Fits(config.grid_columns) \/ ~Fits(config.grid_gap)
      BY <1>1, <2>2, OptionsFit DEF AcceptedInv, PlansTheAccepted, ResourceAccepted
    <3>2. \A d \in OptionDiagnostics(call.spec) : d.code \in {"CONVERT-E001", "CONVERT-E004"}
      BY CodeOfError DEF OptionDiagnostics
    <3> QED
      BY <2>1, <3>1, <3>2 DEF Justified, OnlyOptionsRefused, Refusals
  <2>3. Justified({Error(failure)})
    BY <2>1, CodeOfError DEF Justified, Refusals
  <2>4. call.op # "configure"
    BY <1>1 DEF HonestInv, CallShape
  <2> QED
    BY <1>2, <2>1, <2>2, <2>3, <2>4, FailedAccepted
<1>4. CASE StageGoesOn
  <2>1. PICK next : Continue(next) /\ SameRequest(next) /\ NoRefusal(next.mapped)
    BY <1>4 DEF StageGoesOn
  <2>2. call' = next /\ UNCHANGED <<answer, plan>>
    BY <2>1 DEF Continue
  <2>3. PlansTheAccepted' /\ MapperAccepts'
    BY <1>1, <1>2, <2>1, <2>2
       DEF AcceptedInv, PlansTheAccepted, MapperAccepts, SameRequest, Unaffected
  <2> QED
    BY <1>2, <2>2, <2>3, ServingAccepted
<1>5. CASE ItemsAnswered
  <2>1. PICK D : Reply("items", D, TRUE)
    BY <1>5 DEF ItemsAnswered
  <2> QED
    BY <1>2, <2>1, RepliedAccepted
<1> QED
  BY <1>2, <1>3, <1>4, <1>5

LEMMA ValidationAccepted ==
  ASSUME AcceptedInv, ValidateProvider \/ ValidateResource \/ Configure
  PROVE  AcceptedInv'
<1>1. /\ call' = Idle /\ UNCHANGED <<export, config>>
      /\ answer'.op # "plan"
      /\ answer'.op = "configure" /\ "provider" \in accepted' => answer'.done
  <2>1. CASE ValidateProvider
    BY <2>1 DEF ValidateProvider, Reply
  <2>2. CASE ValidateResource
    BY <2>2 DEF ValidateResource, Reply
  <2>3. CASE Configure
    BY <2>3 DEF Configure, Reply, AcceptedInv, ProviderAccepted
  <2> QED
    BY <2>1, <2>2, <2>3
<1>2. ProviderAccepted' /\ ResourceAccepted' /\ WellFormed(config)'
  BY DEF ValidateProvider, ValidateResource, Configure, AcceptedInv, ProviderAccepted,
         ResourceAccepted, ExportRefused
<1>3. AcceptedConfigurationPlans' /\ RefusedPlanIsGone'
  BY <1>1 DEF AcceptedConfigurationPlans, RefusedPlanIsGone
<1>4. PlansTheAccepted' /\ MapperAccepts'
  BY <1>1 DEF PlansTheAccepted, MapperAccepts
<1> QED
  BY <1>2, <1>3, <1>4 DEF AcceptedInv

\* A conversion, or a listing, that begins has found nothing yet.
LEMMA StartedAccepted ==
  ASSUME AcceptedInv, Unaffected, NEW op, NEW model, NEW spec, NEW paths,
         Start(op, model, spec, paths),
         op = "plan" => /\ "resource" \in accepted
                        /\ model = WithDefaults(config) /\ InputsKnown(model)
                        /\ spec = SpecFromModel(model)
  PROVE  AcceptedInv'
<1>1. /\ call' = [op |-> op, at |-> "options", model |-> model, spec |-> spec,
                  source |-> paths.sourceDir, output |-> paths.outputPath,
                  left |-> <<>>, files |-> <<>>, mapped |-> {}, content |-> Absent,
                  seen |-> changes, cancelled |-> FALSE]
      /\ answer' = NoAnswer
  BY DEF Start
<1>2. /\ call'.op = op /\ call'.model = model /\ call'.spec = spec /\ call'.mapped = {}
  BY <1>1
<1>3. PlansTheAccepted' /\ MapperAccepts'
  BY <1>2 DEF PlansTheAccepted, MapperAccepts, NoRefusal, Unaffected
<1> QED
  BY <1>1, <1>3, ServingAccepted

LEMMA PlanStartAccepted ==
  ASSUME AcceptedInv, StartPlan
  PROVE  AcceptedInv'
<1> DEFINE model == WithDefaults(config)
           decoded == DecodeDiagnostics(model)
           paths == Resolve(model.source_dir, model.output_path)
<1>1. Unaffected /\ "resource" \in accepted
  BY DEF StartPlan, Unaffected
<1>2. Justified(decoded) /\ NoRefusal(decoded)
  BY DecodingRefusesNone, NoRefusalJustified
<1>3. Justified({}) /\ NoRefusal({})
  BY DEF Justified, NoRefusal
<1>4. CASE Fail("plan", {}, "Provider is not configured")
  <2>1. Justified({Error("Provider is not configured")})
    BY ErrorJustified
  <2> QED
    BY <1>1, <1>3, <1>4, <2>1, FailedAccepted
<1>5. CASE ~InputsKnown(model) /\ Fail("plan", {}, "Unknown diagram option")
  <2>1. \E a \in DOMAIN config : config[a] = Unknown
    BY <1>5, UnknownInput DEF AcceptedInv
  <2>2. Justified({Error("Unknown diagram option")})
    BY <2>1, ErrorJustified
  <2> QED
    BY <1>1, <1>3, <1>5, <2>2, FailedAccepted
<1>6. CASE data = "enable" /\ Fail("plan", decoded, "Invalid diagram paths")
  <2>1. Justified({Error("Invalid diagram paths")})
    BY <1>6, ErrorJustified
  <2> QED
    BY <1>1, <1>2, <1>6, <2>1, FailedAccepted
<1>7. CASE InputsKnown(model) /\ LexicallyRefused(model.source_dir, model.output_path)
  <2>1. \A a \in {"source_dir", "output_path"} :
           a \in MustBeKnown /\ a \notin DOMAIN SchemaDefaults
    BY DEF MustBeKnown, SchemaDefaults
  <2>2. \A a \in {"source_dir", "output_path"} : model[a] = config[a] /\ Known(config[a])
    BY <1>7, <2>1, ValueOfDefault DEF AcceptedInv, InputsKnown
  <2>3. model.source_dir \in Paths /\ model.output_path \in Paths
    BY <2>2 DEF AcceptedInv, WellFormed, Known
  <2>4. model.source_dir # EmptyPath /\ IsXal(model.output_path.names)
    BY <1>1, <2>2, Accepted DEF AcceptedInv, ResourceAccepted
  <2> QED
    BY <1>7, <2>3, <2>4, LexicallyAccepted
<1>8. CASE PlanDisabled(model)
  <2>1. PICK D, done : Reply("plan", D, done) /\ D \in {decoded, {}}
    BY <1>8, Zenon DEF PlanDisabled
  <2> QED
    BY <1>1, <1>2, <1>3, <2>1, RepliedAccepted
<1>9. CASE InputsKnown(model) /\ Start("plan", model, SpecFromModel(model), paths)
  BY <1>1, <1>9, StartedAccepted
<1> QED
  BY <1>4, <1>5, <1>6, <1>7, <1>8, <1>9, Zenon DEF StartPlan

LEMMA ApplyStartAccepted ==
  ASSUME AcceptedInv, StartApply
  PROVE  AcceptedInv'
<1>1. Unaffected
  BY DEF StartApply, Unaffected
<1>2. PICK model \in Learned(plan.model) : Apply(model)
  BY DEF StartApply
<1>3. \/ \E D, failure : Fail("apply", D, failure)
      \/ ApplyDisabled(model)
      \/ \E spec, paths : Start("apply", model, spec, paths)
  BY <1>2, Zenon DEF Apply
<1>4. CASE ApplyDisabled(model)
  BY <1>1, <1>4, RepliedAccepted DEF ApplyDisabled
<1> QED
  BY <1>1, <1>3, <1>4, FailedAccepted, StartedAccepted

LEMMA OtherStartsAccepted ==
  ASSUME AcceptedInv, StartItems \/ StartConvert
  PROVE  AcceptedInv'
<1>1. Unaffected
  BY DEF StartItems, StartConvert, Unaffected
<1>2. \E op \in {"items", "convert"} :
         \/ \E D, failure : Fail(op, D, failure)
         \/ \E D, done : Reply(op, D, done)
         \/ \E model, spec, paths : Start(op, model, spec, paths)
  BY Zenon DEF StartItems, StartConvert
<1> QED
  BY <1>1, <1>2, FailedAccepted, RepliedAccepted, StartedAccepted

\* At the end nothing is refused either.
LEMMA ReportedRefusesNone ==
  ASSUME AcceptedInv, call # Idle
  PROVE  NoRefusal(Reported)
<1>1. NoRefusal(call.mapped)
  BY DEF AcceptedInv, MapperAccepts
<1> QED
  BY <1>1, LoaderRefusesNone, DecodingRefusesNone DEF NoRefusal, Reported

LEMMA FinishPlanAccepted ==
  ASSUME AcceptedInv, FinishPlan
  PROVE  AcceptedInv'
<1>1. Unaffected /\ call # Idle
  BY DEF FinishPlan, Finishing, Serving, Unaffected
<1>2. NoRefusal(Reported) /\ Justified(Reported)
  BY <1>1, ReportedRefusesNone, NoRefusalJustified
<1>3. \/ Fail("plan", Reported, "Output inspection failed")
      \/ Fail("plan", Reported, "Output is not owned")
      \/ \E done : Reply("plan", Reported, done)
  BY Zenon DEF FinishPlan
<1>4. /\ Justified({Error("Output inspection failed")})
      /\ Justified({Error("Output is not owned")})
  BY ErrorJustified
<1> QED
  BY <1>1, <1>2, <1>3, <1>4, FailedAccepted, RepliedAccepted

LEMMA WriteAccepted ==
  ASSUME AcceptedInv, FinishApply \/ FinishConvert
  PROVE  AcceptedInv'
<1>1. Unaffected /\ call.op # "plan" /\ call.op # "configure"
  BY DEF FinishApply, FinishConvert, Finishing, Unaffected
<1>2. \/ \E D, failure : Fail(call.op, D, failure)
      \/ \E D : Replace(D)
  BY Zenon DEF FinishApply, FinishConvert, Finishing, Write
<1>3. CASE \E D, failure : Fail(call.op, D, failure)
  BY <1>1, <1>3, FailedAccepted
<1>4. ASSUME NEW D, Replace(D) PROVE AcceptedInv'
  <2>1. answer' = [op |-> call.op, diagnostics |-> D, done |-> ~HasErrors(D), wrote |-> TRUE,
                   value |-> NoDigest]
    BY <1>4 DEF Replace
  <2> QED
    BY <1>1, <1>4, <2>1, AnsweredAccepted DEF Replace
<1> QED
  BY <1>2, <1>3, <1>4

LEMMA ReadDeleteAccepted ==
  ASSUME AcceptedInv, Read \/ Delete
  PROVE  AcceptedInv'
<1>1. Unaffected /\ call = Idle
  BY DEF Read, Delete, Unaffected
<1>2. \/ \E op \in {"read", "delete"} : \E D, failure : Fail(op, D, failure)
      \/ \E D, done : Reply("delete", D, done)
      \/ /\ UNCHANGED call
         /\ \E value : answer' = [op |-> "read", diagnostics |-> {}, done |-> TRUE,
                                  wrote |-> FALSE, value |-> value]
  BY Zenon DEF Read, Delete
<1>3. ASSUME NEW op \in {"read", "delete"}, NEW D, NEW failure, Fail(op, D, failure)
      PROVE  AcceptedInv'
  BY <1>1, <1>3, FailedAccepted
<1>4. ASSUME NEW D, NEW done, Reply("delete", D, done) PROVE AcceptedInv'
  BY <1>1, <1>4, RepliedAccepted
<1>5. ASSUME UNCHANGED call, NEW value,
             answer' = [op |-> "read", diagnostics |-> {}, done |-> TRUE, wrote |-> FALSE,
                        value |-> value]
      PROVE  AcceptedInv'
  BY <1>1, <1>5, AnsweredAccepted
<1> QED
  BY <1>2, <1>3, <1>4, <1>5

LEMMA CancelAccepted ==
  ASSUME HonestInv, AcceptedInv, Cancel
  PROVE  AcceptedInv'
<1>1. /\ call # Idle /\ call' = [call EXCEPT !.cancelled = TRUE]
      /\ Unaffected /\ UNCHANGED <<answer, plan>>
  BY DEF Cancel, Unaffected
<1>2. /\ call'.op = call.op /\ call'.model = call.model /\ call'.spec = call.spec
      /\ call'.mapped = call.mapped
  BY <1>1 DEF HonestInv, CallShape, Fields
<1>3. PlansTheAccepted' /\ MapperAccepts'
  BY <1>1, <1>2 DEF AcceptedInv, PlansTheAccepted, MapperAccepts, Unaffected
<1> QED
  BY <1>1, <1>3, ServingAccepted

LEMMA OthersAccepted ==
  ASSUME LearningInv, AcceptedInv, Evaluate \/ Edit \/ ChangeExport \/ UNCHANGED vars
  PROVE  AcceptedInv'
<1>1. CASE Evaluate
  <2>1. /\ call' = Idle /\ answer' = NoAnswer /\ UNCHANGED export
        /\ WellFormed(config)' /\ "resource" \notin accepted' /\ accepted' \subseteq accepted
    BY <1>1, RequestsAssumption DEF Evaluate, LearningInv
  <2> QED
    BY <2>1 DEF AcceptedInv, AcceptedConfigurationPlans, ProviderAccepted, ResourceAccepted,
                PlansTheAccepted, MapperAccepts, RefusedPlanIsGone, ExportRefused
<1>2. CASE Edit \/ UNCHANGED vars
  <2>1. Unaffected /\ UNCHANGED <<answer, plan, call>>
    BY <1>2 DEF Edit, vars, Unaffected
  <2>2. PlansTheAccepted' /\ MapperAccepts'
    BY <2>1 DEF AcceptedInv, PlansTheAccepted, MapperAccepts, Unaffected
  <2> QED
    BY <2>1, <2>2, ServingAccepted
<1>3. CASE ChangeExport
  <2>1. /\ plan # NoPlan /\ export' \in {"enable", "disable"}
        /\ UNCHANGED <<config, plan, accepted, call, answer>>
    BY <1>3 DEF ChangeExport
  <2>2. AcceptedConfigurationPlans' /\ RefusedPlanIsGone'
    BY <2>1 DEF AcceptedInv, AcceptedConfigurationPlans, RefusedPlanIsGone, Codes
  <2>3. ProviderAccepted' /\ ResourceAccepted' /\ WellFormed(config)'
    BY <2>1 DEF AcceptedInv, ProviderAccepted, ResourceAccepted, ExportRefused
  <2>4. PlansTheAccepted' /\ MapperAccepts'
    BY <2>1 DEF AcceptedInv, PlansTheAccepted, MapperAccepts
  <2> QED
    BY <2>2, <2>3, <2>4 DEF AcceptedInv
<1> QED
  BY <1>1, <1>2, <1>3

LEMMA AcceptedInit ==
  ASSUME Init
  PROVE  AcceptedInv
<1>1. /\ call = Idle /\ plan = NoPlan /\ answer = NoAnswer /\ accepted = {}
      /\ WellFormed(config)
  BY RequestsAssumption DEF Init, Configured
<1> QED
  BY <1>1 DEF AcceptedInv, AcceptedConfigurationPlans, ProviderAccepted, ResourceAccepted,
              PlansTheAccepted, MapperAccepts, RefusedPlanIsGone

LEMMA AcceptedNext ==
  ASSUME LearningInv, HonestInv, AcceptedInv, [Next]_vars
  PROVE  AcceptedInv'
<1>1. CASE ValidateProvider \/ ValidateResource \/ Configure
  BY <1>1, ValidationAccepted
<1>2. CASE StartPlan \/ StartApply \/ StartItems \/ StartConvert
  BY <1>2, PlanStartAccepted, ApplyStartAccepted, OtherStartsAccepted
<1>3. CASE Stage
  BY <1>3, StageAccepted
<1>4. CASE FinishPlan \/ FinishApply \/ FinishConvert
  BY <1>4, FinishPlanAccepted, WriteAccepted
<1>5. CASE Read \/ Delete \/ Cancel
  BY <1>5, ReadDeleteAccepted, CancelAccepted
<1>6. CASE Evaluate \/ Edit \/ ChangeExport \/ UNCHANGED vars
  BY <1>6, OthersAccepted
<1> QED
  BY <1>1, <1>2, <1>3, <1>4, <1>5, <1>6, Zenon DEF Next, Stage

\* A configuration that ValidateConfig accepted is not refused by the plan for its
\* options or the form of its paths: options only where an integer does not fit
\* Go's int, unknown values only where there are some.
THEOREM RequestsAcceptedPlans == Spec => []AcceptedConfigurationPlans
<1>1. AcceptedInv => AcceptedConfigurationPlans
  BY DEF AcceptedInv
<1> QED
  BY <1>1, LearningInit, LearningNext, HonestInit, HonestNext, AcceptedInit, AcceptedNext, PTL
     DEF Spec

-----------------------------------------------------------------------------
(* Outputs of plans and states                                               *)

\* All a plan with export enabled needs of a model's paths.
Resolved(model, place) ==
    /\ WellFormed(model) /\ \A a \in MustBeKnown : Known(model[a])
    /\ ~Refused(model.source_dir, model.output_path)
    /\ Resolve(model.source_dir, model.output_path).outputPath = place

\* What was planned with export enabled has an output, where no directory is.
Managed(model, computed) ==
    /\ DOMAIN computed = {"id", "export", "source", "content", "observed"}
    /\ computed.export = "enable" => Resolved(model, computed.id) /\ ~Exists(computed.id)

\* The output of a request is that of its model, or of the plan it applies.
ServesTheOutput ==
    /\ call # Idle /\ call.op = "plan" => Resolved(call.model, call.output)
    /\ call # Idle /\ call.op = "apply" =>
         /\ plan # NoPlan /\ call.model \in Learned(plan.model)
         /\ plan.computed.export = "enable" /\ call.output = plan.computed.id

\* A state with all its fields.
Stored ==
    /\ DOMAIN state = {"model", "computed"}
    /\ Managed(state.model, state.computed)

\* What a refresh has answered is what is there.
ReadSaw ==
    answer # NoAnswer /\ answer.op = "read" /\ answer.done =>
      /\ Stored
      /\ state.computed.export = "enable" =>
           answer.value = IF At(StateOutput) = Absent THEN NoDigest ELSE At(StateOutput)

OutputInv ==
    /\ plan # NoPlan => Managed(plan.model, plan.computed)
    /\ state # NoState => Stored
    /\ ServesTheOutput
    /\ ReadSaw

LEMMA ResolvedPaths ==
  ASSUME NEW model, NEW place, Resolved(model, place)
  PROVE  model.source_dir \in Paths /\ model.output_path \in Paths
<1>1. \A a \in {"source_dir", "output_path"} : a \in MustBeKnown
  BY DEF MustBeKnown
<1> QED
  BY <1>1 DEF Resolved, WellFormed, Known

\* Learning changes nothing about the output.
LEMMA LearnedManaged ==
  ASSUME NEW model, NEW computed, Managed(model, computed), LearnsWell(model),
         NEW learned \in Learned(model)
  PROVE  Managed(learned, computed)
<1> SUFFICES ASSUME computed.export = "enable" PROVE Resolved(learned, computed.id)
  BY DEF Managed
<1>1. /\ WellFormed(model) /\ WellFormed(learned) /\ KeepsTheKnown(model)
      /\ \A a \in MustBeKnown : Known(model[a])
  BY DEF Managed, Resolved, LearnsWell
<1>2. \A a \in MustBeKnown : learned[a] = model[a]
  BY <1>1 DEF KeepsTheKnown, WellFormed, Known
<1>3. learned.source_dir = model.source_dir /\ learned.output_path = model.output_path
  BY <1>2 DEF MustBeKnown
<1> QED
  BY <1>1, <1>2, <1>3 DEF Managed, Resolved

\* Refresh and destroy look at the output, unless it leaves source_dir through a link.
LEMMA TextualOutput ==
  ASSUME state.computed.export = "enable", Managed(state.model, state.computed),
         ~LeavesThroughLink(state.model)
  PROVE  StateOutput = state.computed.id
<1> DEFINE source == state.model.source_dir
           output == state.model.output_path
<1>1. /\ source \in Paths /\ output \in Paths
      /\ ~Refused(source, output)
      /\ Resolve(source, output).outputPath = state.computed.id
      /\ state.computed.id \notin DOMAIN Tree
  BY ResolvedPaths DEF Managed, Resolved, Exists
<1>2. Null \notin STRING \cup {".", ".."}
  BY RequestsAssumption
<1>3. \/ output.absolute
      \/ Null \in ToSet(Clean(<<Null>> \o output.names))
      \/ EvalSymlinks(Under(WorkDir, source)) = Under(WorkDir, source)
  BY DEF LeavesThroughLink
<1> HIDE DEF source, output
<1>4. FileNamed(ResolveLexical(source, output).outputPath) = Resolve(source, output).outputPath
  BY <1>1, <1>2, <1>3, TextualMeansReal
<1> QED
  BY <1>1, <1>4 DEF StateOutput, StatePaths, source, output

LEMMA OutputFound ==
  ASSUME OutputInv PROVE RefreshFindsTheOutput
<1>1. Stored /\ state.computed.export = "enable" /\ ~LeavesThroughLink(state.model)
        => StateOutput = state.computed.id
  BY TextualOutput DEF Stored
<1> QED
  BY <1>1 DEF OutputInv, ReadSaw, RefreshFindsTheOutput

-----------------------------------------------------------------------------

\* A request is over, and nothing was written.
LEMMA EndKeepsOutput ==
  ASSUME OutputInv, call' = Idle, UNCHANGED <<state, disk>>, plan' \in {plan, NoPlan},
         answer'.op # "read" \/ ~answer'.done
  PROVE  OutputInv'
  BY DEF OutputInv, ServesTheOutput, ReadSaw, Stored

LEMMA FailKeepsOutput ==
  ASSUME OutputInv, NEW op, NEW D, NEW failure, Fail(op, D, failure)
  PROVE  OutputInv'
<1>1. /\ answer'.done = FALSE /\ call' = Idle
      /\ plan' \in {plan, NoPlan} /\ UNCHANGED <<state, disk>>
  BY DEF Fail, Reply
<1> QED
  BY <1>1, EndKeepsOutput

LEMMA ReplyKeepsOutput ==
  ASSUME OutputInv, NEW op, op # "read", NEW D, NEW done, Reply(op, D, done),
         UNCHANGED <<state, disk>>, plan' \in {plan, NoPlan}
  PROVE  OutputInv'
<1>1. answer'.op # "read" /\ call' = Idle
  BY DEF Reply
<1> QED
  BY <1>1, EndKeepsOutput

\* A plan is made, or a request stored.
LEMMA PlannedOutput ==
  ASSUME OutputInv, call' = Idle, NEW model, NEW seen, NEW computed,
         plan' = [model |-> model, seen |-> seen, computed |-> computed],
         Managed(model, computed), UNCHANGED <<state, disk>>,
         answer'.op # "read"
  PROVE  OutputInv'
<1>1. plan'.model = model /\ plan'.computed = computed
  OBVIOUS
<1>2. (plan # NoPlan => Managed(plan.model, plan.computed))'
  BY <1>1 DEF Managed, Resolved, WellFormed
<1> QED
  BY <1>2 DEF OutputInv, ServesTheOutput, ReadSaw, Stored

LEMMA DefaultsWellFormed ==
  ASSUME WellFormed(config)
  PROVE  WellFormed(WithDefaults(config))
<1>1. \A a \in {"source_dir", "output_path"} : a \in DOMAIN config /\ a \notin DOMAIN SchemaDefaults
  BY DEF WellFormed, MustBeKnown, SchemaDefaults
<1>2. \A a \in {"source_dir", "output_path"} : WithDefaults(config)[a] = config[a]
  BY <1>1 DEF WithDefaults
<1>3. DOMAIN WithDefaults(config) = DOMAIN config
  BY DEF WithDefaults
<1> QED
  BY <1>2, <1>3 DEF WellFormed

LEMMA PlanDisabledOutput ==
  ASSUME OutputInv, NEW model, PlanDisabled(model)
  PROVE  OutputInv'
<1> DEFINE decoded == DecodeDiagnostics(model)
           paths == ResolveLexical(model.source_dir, model.output_path)
           fresh == [id |-> StableID(paths.outputPath), export |-> "disable",
                     source |-> NoDigest, content |-> NoDigest, observed |-> NoDigest]
           computed == IF state = NoState THEN fresh
                       ELSE [state.computed EXCEPT !.export = "disable"]
<1>1. CASE Reply("plan", decoded, FALSE) /\ plan' = NoPlan /\ UNCHANGED <<state, disk>>
  BY <1>1, ReplyKeepsOutput
<1>2. CASE /\ Reply("plan", {}, TRUE) /\ UNCHANGED <<state, disk>>
           /\ plan' = [model |-> model, seen |-> changes, computed |-> computed]
  <2>1. Managed(model, fresh)
    <3>1. DOMAIN fresh = {"id", "export", "source", "content", "observed"}
          /\ fresh.export = "disable"
      OBVIOUS
    <3> HIDE DEF fresh
    <3> QED
      BY <3>1 DEF Managed
  <2>2. state # NoState => Managed(model, [state.computed EXCEPT !.export = "disable"])
    BY DEF OutputInv, Stored, Managed
  <2>3. Managed(model, computed)
    BY <2>1, <2>2
  <2>4. call' = Idle /\ answer'.op # "read"
    BY <1>2 DEF Reply
  <2> HIDE DEF computed
  <2> QED
    BY <1>2, <2>3, <2>4, PlannedOutput
<1> QED
  BY <1>1, <1>2, Zenon DEF PlanDisabled

\* A conversion, or a listing, begins.
LEMMA StartKeepsOutput ==
  ASSUME OutputInv, NEW op, NEW model, NEW spec, NEW paths, Start(op, model, spec, paths),
         op = "plan" => Resolved(model, paths.outputPath),
         op = "apply" => /\ plan # NoPlan /\ model \in Learned(plan.model)
                         /\ plan.computed.export = "enable"
                         /\ paths.outputPath = plan.computed.id
  PROVE  OutputInv'
<1>1. call' = [op |-> op, at |-> "options", model |-> model, spec |-> spec,
               source |-> paths.sourceDir, output |-> paths.outputPath,
               left |-> <<>>, files |-> <<>>, mapped |-> {}, content |-> Absent,
               seen |-> changes, cancelled |-> FALSE]
  BY DEF Start
<1>2. call'.op = op /\ call'.model = model /\ call'.output = paths.outputPath
  BY <1>1
<1>3. answer' = NoAnswer /\ UNCHANGED <<state, disk, plan>>
  BY DEF Start
<1>4. ServesTheOutput'
  BY <1>2, <1>3 DEF ServesTheOutput, Resolved, WellFormed
<1> QED
  BY <1>3, <1>4 DEF OutputInv, ReadSaw, Stored

LEMMA PlanStartOutput ==
  ASSUME AcceptedInv, OutputInv, StartPlan
  PROVE  OutputInv'
<1> DEFINE model == WithDefaults(config)
           decoded == DecodeDiagnostics(model)
           paths == Resolve(model.source_dir, model.output_path)
<1>1. CASE \E D, failure : Fail("plan", D, failure)
  BY <1>1, FailKeepsOutput
<1>2. CASE PlanDisabled(model)
  BY <1>2, PlanDisabledOutput
<1>3. CASE /\ InputsKnown(model) /\ ~Refused(model.source_dir, model.output_path)
           /\ Start("plan", model, SpecFromModel(model), paths)
  <2>1. WellFormed(model)
    BY DefaultsWellFormed DEF AcceptedInv
  <2>2. Resolved(model, paths.outputPath)
    BY <1>3, <2>1 DEF Resolved, InputsKnown
  <2> QED
    BY <1>3, <2>2, StartKeepsOutput
<1> QED
  BY <1>1, <1>2, <1>3, Zenon DEF StartPlan

LEMMA ApplyStartOutput ==
  ASSUME LearningInv, OutputInv, StartApply
  PROVE  OutputInv'
<1>1. PICK model \in Learned(plan.model) : Apply(model)
  BY DEF StartApply
<1> DEFINE paths == Resolve(model.source_dir, model.output_path)
<1>2. plan # NoPlan /\ Managed(model, plan.computed)
  BY <1>1, LearnedManaged DEF StartApply, OutputInv, LearningInv
<1>3. CASE \E D, failure : Fail("apply", D, failure)
  BY <1>3, FailKeepsOutput
<1>4. CASE ApplyDisabled(model)
  <2>1. answer'.op # "read" /\ call' = Idle /\ UNCHANGED disk
    BY <1>4 DEF ApplyDisabled, Reply
  <2>2. CASE state' = state /\ plan' = plan
    BY <2>1, <2>2, EndKeepsOutput
  <2>3. CASE state' = [model |-> model, computed |-> plan.computed] /\ plan' = NoPlan
    <3>1. /\ state'.model = model /\ state'.computed = plan.computed
          /\ DOMAIN state' = {"model", "computed"}
      BY <2>3
    <3>2. Managed(state.model, state.computed)'
      BY <1>2, <3>1 DEF Managed, Resolved, WellFormed
    <3> QED
      BY <1>2, <2>1, <2>3, <3>1, <3>2 DEF OutputInv, ServesTheOutput, ReadSaw, Stored
  <2> QED
    BY <1>4, <2>2, <2>3 DEF ApplyDisabled
<1>5. CASE /\ plan.computed.export = data /\ data = "enable"
           /\ plan.computed.id = StableID(paths.outputPath)
           /\ Start("apply", model, SpecFromModel(model), paths)
  <2>1. paths.outputPath = plan.computed.id
    BY <1>5 DEF StableID
  <2> QED
    BY <1>1, <1>2, <1>5, <2>1, StartKeepsOutput
<1> QED
  BY <1>1, <1>3, <1>4, <1>5, Zenon DEF Apply

LEMMA OtherStartsOutput ==
  ASSUME OutputInv, StartItems \/ StartConvert
  PROVE  OutputInv'
<1>1. \E op \in {"items", "convert"} :
         \/ \E D, failure : Fail(op, D, failure)
         \/ \E D, done : Reply(op, D, done) /\ UNCHANGED <<state, disk, plan>>
         \/ \E model, spec, paths : Start(op, model, spec, paths)
  BY Zenon DEF StartItems, StartConvert
<1> QED
  BY <1>1, FailKeepsOutput, ReplyKeepsOutput, StartKeepsOutput

LEMMA StageOutput ==
  ASSUME HonestInv, AcceptedInv, OutputInv, Stage
  PROVE  OutputInv'
<1>1. call # Idle /\ NoRefusal(call.mapped)
  BY DEF AcceptedInv, MapperAccepts, Stage, CheckOptions, ListDirectory, ReadFile, Loaded,
         MapGraph, Encode, Serving
<1>2. Unaffected /\ (StageFails \/ StageGoesOn \/ ItemsAnswered)
  BY <1>1, StageForms
<1>3. CASE StageFails
  BY <1>3, FailKeepsOutput DEF StageFails
<1>4. CASE StageGoesOn
  <2>1. PICK next : Continue(next) /\ SameRequest(next)
    BY <1>4 DEF StageGoesOn
  <2>2. call' = next /\ UNCHANGED <<answer, plan, state, disk>>
    BY <2>1 DEF Continue
  <2>3. call'.op = call.op /\ call'.model = call.model /\ call'.output = call.output
    BY <2>1, <2>2 DEF SameRequest
  <2>4. ServesTheOutput'
    BY <1>1, <2>2, <2>3 DEF OutputInv, ServesTheOutput, Resolved, WellFormed
  <2> QED
    BY <2>2, <2>4 DEF OutputInv, ReadSaw, Stored, At, StateOutput, StatePaths
<1>5. CASE ItemsAnswered
  BY <1>5, ReplyKeepsOutput DEF ItemsAnswered
<1> QED
  BY <1>2, <1>3, <1>4, <1>5

LEMMA FinishPlanOutput ==
  ASSUME OutputInv, FinishPlan
  PROVE  OutputInv'
<1> DEFINE computed == [id |-> StableID(call.output), export |-> "enable",
                        source |-> SourceDigest(call.files),
                        content |-> call.content, observed |-> call.content]
<1>1. call # Idle /\ call.op = "plan"
  BY DEF FinishPlan, Finishing, Serving
<1>2. CASE \E D, failure : Fail("plan", D, failure)
  BY <1>2, FailKeepsOutput
<1>3. CASE Reply("plan", Reported, FALSE) /\ plan' = NoPlan /\ UNCHANGED <<state, disk>>
  BY <1>3, ReplyKeepsOutput
<1>4. CASE /\ At(call.output) # NotRegular /\ Reply("plan", Reported, TRUE)
           /\ plan' = [model |-> call.model, seen |-> call.seen, computed |-> computed]
           /\ UNCHANGED <<state, disk>>
  <2>1. Resolved(call.model, call.output) /\ ~Exists(call.output)
    BY <1>1, <1>4 DEF OutputInv, ServesTheOutput, At
  <2>2. /\ DOMAIN computed = {"id", "export", "source", "content", "observed"}
        /\ computed.id = call.output
    BY DEF StableID
  <2>3. call' = Idle /\ answer'.op # "read"
    BY <1>4 DEF Reply
  <2> HIDE DEF computed
  <2>4. Managed(call.model, computed)
    BY <2>1, <2>2 DEF Managed
  <2> QED
    BY <1>4, <2>3, <2>4, PlannedOutput
<1> QED
  BY <1>2, <1>3, <1>4, Zenon DEF FinishPlan

LEMMA WriteOutput ==
  ASSUME LearningInv, HonestInv, OutputInv, FinishApply \/ FinishConvert
  PROVE  OutputInv'
<1>1. call # Idle /\ call.op \in {"apply", "convert"}
  BY DEF FinishApply, FinishConvert, Finishing, Serving
<1>2. CASE \E D, failure : Fail(call.op, D, failure)
  BY <1>2, FailKeepsOutput
<1>3. ASSUME NEW D, Replace(D), UNCHANGED <<state, plan>>
      PROVE  OutputInv'
  <2>1. answer'.op = call.op /\ call' = Idle
    BY <1>3 DEF Replace
  <2> QED
    BY <1>1, <1>3, <2>1 DEF OutputInv, ServesTheOutput, ReadSaw, Stored
<1>4. ASSUME FinishConvert, NEW D, Replace(D), UNCHANGED state, plan' = NoPlan
      PROVE  OutputInv'
  <2>1. answer'.op = call.op /\ call' = Idle
    BY <1>4 DEF Replace
  <2> QED
    BY <1>1, <1>4, <2>1 DEF OutputInv, ServesTheOutput, ReadSaw, Stored
<1>5. ASSUME FinishApply, NEW D, Replace(D), plan' = NoPlan,
             state' = [model |-> call.model, computed |-> plan.computed]
      PROVE  OutputInv'
  <2>1. answer'.op = call.op /\ call' = Idle
    BY <1>5 DEF Replace
  <2>2. call.op = "apply" /\ plan # NoPlan /\ call.model \in Learned(plan.model)
    BY <1>1, <1>5 DEF FinishApply, Finishing, OutputInv, ServesTheOutput
  <2>3. Managed(call.model, plan.computed)
    BY <2>2, LearnedManaged DEF OutputInv, LearningInv
  <2>4. /\ state'.model = call.model /\ state'.computed = plan.computed
        /\ DOMAIN state' = {"model", "computed"}
    BY <1>5
  <2>5. Managed(state.model, state.computed)'
    BY <2>3, <2>4 DEF Managed, Resolved, WellFormed
  <2> QED
    BY <1>1, <1>5, <2>1, <2>4, <2>5 DEF OutputInv, ServesTheOutput, ReadSaw, Stored
<1>6. \/ \E D, failure : Fail(call.op, D, failure)
      \/ \E D : Replace(D) /\ UNCHANGED <<state, plan>>
      \/ FinishConvert /\ \E D : Replace(D) /\ UNCHANGED state /\ plan' = NoPlan
      \/ FinishApply /\ \E D : /\ Replace(D) /\ plan' = NoPlan
                               /\ state' = [model |-> call.model, computed |-> plan.computed]
  BY Zenon DEF FinishApply, FinishConvert, Finishing, Write
<1> QED
  BY <1>2, <1>3, <1>4, <1>5, <1>6

LEMMA ReadOutput ==
  ASSUME OutputInv, Read
  PROVE  OutputInv'
<1> DEFINE found == At(StateOutput)
           observed == IF state.computed.export = "disable" THEN state.computed.observed
                       ELSE IF found = Absent THEN NoDigest ELSE found
<1>1. call = Idle /\ state # NoState
  BY DEF Read
<1>2. CASE \E D, failure : Fail("read", D, failure)
  BY <1>2, FailKeepsOutput
<1>3. CASE /\ answer' = [op |-> "read", diagnostics |-> {}, done |-> TRUE, wrote |-> FALSE,
                         value |-> observed]
           /\ state' = [state EXCEPT !.computed.observed = observed]
           /\ UNCHANGED <<call, disk, plan>>
  <2>1. DOMAIN state = {"model", "computed"} /\ Managed(state.model, state.computed)
    BY <1>1 DEF OutputInv, Stored
  <2>2. answer'.value = observed
    BY <1>3
  <2> HIDE DEF observed
  <2>3. /\ DOMAIN state' = {"model", "computed"} /\ state'.model = state.model
        /\ state'.computed = [state.computed EXCEPT !.observed = observed]
    BY <1>3, <2>1
  <2>4. /\ DOMAIN state'.computed = {"id", "export", "source", "content", "observed"}
        /\ state'.computed.id = state.computed.id
        /\ state'.computed.export = state.computed.export
    BY <2>1, <2>3 DEF Managed
  <2>5. Managed(state.model, state.computed)'
    BY <2>1, <2>3, <2>4 DEF Managed, Resolved, WellFormed
  <2>6. Stored'
    BY <2>3, <2>5 DEF Stored
  <2>7. ReadSaw'
    BY <1>1, <1>3, <2>2, <2>3, <2>4, <2>6 DEF ReadSaw, At, StateOutput, StatePaths, observed
  <2>8. ServesTheOutput'
    BY <1>1, <1>3 DEF ServesTheOutput
  <2> QED
    BY <1>3, <2>6, <2>7, <2>8 DEF OutputInv
<1> QED
  BY <1>2, <1>3, Zenon DEF Read

LEMMA DeleteOutput ==
  ASSUME OutputInv, Delete
  PROVE  OutputInv'
<1>1. call = Idle
  BY DEF Delete
<1>2. CASE \E D, failure : Fail("delete", D, failure)
  BY <1>2, FailKeepsOutput
<1>3. CASE /\ \E D, done : Reply("delete", D, done)
           /\ state' = NoState /\ plan' = NoPlan
  <2>1. answer'.op = "delete" /\ call' = Idle
    BY <1>3 DEF Reply
  <2> QED
    BY <1>3, <2>1 DEF OutputInv, ServesTheOutput, ReadSaw
<1>4. CASE \E D, done : Reply("delete", D, done) /\ UNCHANGED <<state, plan>>
  <2>1. answer'.op = "delete" /\ call' = Idle /\ state' = state /\ plan' = plan
    BY <1>4 DEF Reply
  <2> QED
    BY <2>1 DEF OutputInv, ServesTheOutput, ReadSaw, Stored
<1> QED
  BY <1>2, <1>3, <1>4, Zenon DEF Delete

LEMMA CancelOutput ==
  ASSUME HonestInv, OutputInv, Cancel
  PROVE  OutputInv'
<1>1. /\ call # Idle /\ call' = [call EXCEPT !.cancelled = TRUE]
      /\ UNCHANGED <<answer, plan, state, disk>>
  BY DEF Cancel
<1>2. call'.op = call.op /\ call'.model = call.model /\ call'.output = call.output
  BY <1>1 DEF HonestInv, CallShape, Fields
<1>3. ServesTheOutput'
  BY <1>1, <1>2 DEF OutputInv, ServesTheOutput, Resolved, WellFormed
<1> QED
  BY <1>1, <1>3 DEF OutputInv, ReadSaw, Stored, At, StateOutput, StatePaths

LEMMA ValidationOutput ==
  ASSUME OutputInv, ValidateProvider \/ ValidateResource \/ Configure
  PROVE  OutputInv'
<1>1. /\ \E op \in {"validate", "configure"} : \E D, done : Reply(op, D, done)
      /\ UNCHANGED <<state, disk, plan>>
  BY Zenon DEF ValidateProvider, ValidateResource, Configure
<1> QED
  BY <1>1, ReplyKeepsOutput

LEMMA OthersOutput ==
  ASSUME OutputInv, Evaluate \/ Edit \/ ChangeExport \/ UNCHANGED vars
  PROVE  OutputInv'
<1>1. /\ UNCHANGED <<state, disk, plan, call>>
      /\ answer' = NoAnswer \/ UNCHANGED answer
  BY DEF Evaluate, Edit, ChangeExport, vars
<1> QED
  BY <1>1 DEF OutputInv, ServesTheOutput, ReadSaw, Stored, At, StateOutput, StatePaths

LEMMA OutputInit ==
  ASSUME Init
  PROVE  OutputInv
  BY DEF Init, OutputInv, ServesTheOutput, ReadSaw

LEMMA OutputNext ==
  ASSUME LearningInv, HonestInv, AcceptedInv, OutputInv, [Next]_vars
  PROVE  OutputInv'
<1>1. CASE ValidateProvider \/ ValidateResource \/ Configure
  BY <1>1, ValidationOutput
<1>2. CASE StartPlan \/ StartApply \/ StartItems \/ StartConvert
  BY <1>2, PlanStartOutput, ApplyStartOutput, OtherStartsOutput
<1>3. CASE Stage
  BY <1>3, StageOutput
<1>4. CASE FinishPlan \/ FinishApply \/ FinishConvert
  BY <1>4, FinishPlanOutput, WriteOutput
<1>5. CASE Read \/ Delete \/ Cancel
  BY <1>5, ReadOutput, DeleteOutput, CancelOutput
<1>6. CASE Evaluate \/ Edit \/ ChangeExport \/ UNCHANGED vars
  BY <1>6, OthersOutput
<1> QED
  BY <1>1, <1>2, <1>3, <1>4, <1>5, <1>6, Zenon DEF Next, Stage

\* Refresh and destroy resolve the configured paths as texts, plan and apply through
\* links; unless a relative output leaves a source_dir that is behind a link, both
\* come to the same file, and a refresh answers what is there.
THEOREM RequestsRefreshFindsTheOutput == Spec => []RefreshFindsTheOutput
<1>1. OutputInv => RefreshFindsTheOutput
  BY OutputFound
<1> QED
  BY <1>1, LearningInit, LearningNext, HonestInit, HonestNext, AcceptedInit, AcceptedNext,
     OutputInit, OutputNext, PTL DEF Spec

-----------------------------------------------------------------------------
(* What a document shows                                                     *)

Keeping == INSTANCE SequenceFolds WITH Op <- Kept, Base <- <<>>
Joining == INSTANCE SequenceFolds WITH Op <- Joined, Base <- <<>>

LEMMA KeptFold == ASSUME NEW xs PROVE FoldLeft(Kept, <<>>, xs) = Keeping!Folded(xs)
  BY DEF Keeping!Folded, FoldLeft, Keeping!FoldLeft, MapThenFoldSet, Keeping!MapThenFoldSet,
         Max, Keeping!Max

LEMMA JoinedFold == ASSUME NEW xs PROVE FoldLeft(Joined, <<>>, xs) = Joining!Folded(xs)
  BY DEF Joining!Folded, FoldLeft, Joining!FoldLeft, MapThenFoldSet, Joining!MapThenFoldSet,
         Max, Joining!Max

\* The blocks that count in a text.
DecodedBlocks(text) == {Decoded(b) : b \in {b \in ToSet(text.blocks) : Included(b)}}

\* The files of a conversion, whose blocks are sequences.
AreSources(files) ==
    /\ files \in Seq(ToSet(files))
    /\ \A file \in ToSet(files) : IsSource(file)

LEMMA BlocksOfText ==
  ASSUME NEW file, IsSource(file)
  PROVE  TextBlocks(file.text) \in Seq(DecodedBlocks(file.text))
<1> DEFINE blocks == file.text.blocks
           S == ToSet(blocks)
           I == Seq(DecodedBlocks(file.text))
<1>1. <<>> \in I
  OBVIOUS
<1>2. ASSUME NEW a \in I, NEW x \in S PROVE Kept(a, x) \in I
  <2>1. CASE Included(x)
    <3>1. Decoded(x) \in DecodedBlocks(file.text)
      BY <2>1 DEF DecodedBlocks
    <3> QED
      BY <2>1, <3>1 DEF Kept
  <2>2. CASE ~Included(x)
    BY <2>2 DEF Kept
  <2> QED
    BY <2>1, <2>2
<1>3. blocks \in Seq(S)
  BY DEF IsSource
<1> HIDE DEF I, S, blocks
<1>4. FoldLeft(Kept, <<>>, blocks) \in I
  BY <1>1, <1>2, <1>3, KeptFold, Keeping!FoldInvariant
<1> QED
  BY <1>1, <1>4 DEF TextBlocks, I, blocks

LEMMA BlocksOfFiles ==
  ASSUME NEW files, AreSources(files)
  PROVE  ConfigBlocks(files) \in Seq(UNION {DecodedBlocks(file.text) : file \in ToSet(files)})
<1> DEFINE S == ToSet(files)
           B == UNION {DecodedBlocks(file.text) : file \in S}
           I == Seq(B)
<1>1. <<>> \in I
  OBVIOUS
<1>2. ASSUME NEW a \in I, NEW x \in S PROVE Joined(a, x) \in I
  <2>1. TextBlocks(x.text) \in Seq(DecodedBlocks(x.text))
    BY BlocksOfText DEF AreSources
  <2>2. DecodedBlocks(x.text) \subseteq B
    OBVIOUS
  <2> DEFINE T == TextBlocks(x.text)
             D == DecodedBlocks(x.text)
  <2> HIDE DEF B, T, D
  <2>3. T \in Seq(B)
    <3>1. T \in Seq(D) /\ D \subseteq B
      BY <2>1, <2>2 DEF T, D
    <3> QED
      BY <3>1
  <2>4. a \o T \in Seq(B)
    BY <2>3
  <2> QED
    BY <2>4 DEF Joined, T
<1>3. files \in Seq(S)
  BY DEF AreSources
<1> HIDE DEF I, S
<1>4. FoldLeft(Joined, <<>>, files) \in I
  BY <1>1, <1>2, <1>3, JoinedFold, Joining!FoldInvariant
<1> QED
  BY <1>4 DEF ConfigBlocks, I, S

\* Every node stands for a block of the sources that counts.
LEMMA NodesAreBlocks ==
  ASSUME NEW files, AreSources(files), NEW n \in Nodes(ConfigBlocks(files))
  PROVE  \E i \in DOMAIN files : \E block \in ToSet(files[i].text.blocks) :
           Included(block) /\ n = Decoded(block)
<1> DEFINE blocks == ConfigBlocks(files)
           B == UNION {DecodedBlocks(file.text) : file \in ToSet(files)}
<1>1. blocks \in Seq(B)
  BY BlocksOfFiles
<1>2. PICK i \in DOMAIN blocks : n = blocks[i]
  BY DEF Nodes
<1>3. n \in B
  <2> HIDE DEF B, blocks
  <2> QED
    BY <1>1, <1>2
<1>4. PICK file \in ToSet(files) : n \in DecodedBlocks(file.text)
  BY <1>3
<1>5. PICK j \in DOMAIN files : file = files[j]
  BY DEF ToSet
<1> QED
  BY <1>4, <1>5 DEF DecodedBlocks

\* A row with items is in the document, with its gap if one was set.
LEMMA RowShown ==
  ASSUME NEW model, NEW nodes, NEW r \in ToSet(Blocks(model.row)), r.gap # Unknown,
         RowItems([items |-> Items(r.items), columns |-> Columns(r.columns)]) # <<>>
  PROVE  BlockShown(Content(SpecFromModel(model), nodes), "row", <<>>, r.gap,
                    RowItems([items |-> Items(r.items), columns |-> Columns(r.columns)]))
<1> DEFINE spec == SpecFromModel(model)
           content == Content(spec, nodes)
           items == RowItems([items |-> Items(r.items), columns |-> Columns(r.columns)])
<1>1. PICK i \in DOMAIN Blocks(model.row) : r = Blocks(model.row)[i]
  BY DEF ToSet
<1>2. spec.rows = Rows(model.row)
  BY DEF SpecFromModel
<1>3. Known(model.row) => Blocks(model.row) = model.row
  BY DEF Blocks
<1>4. Known(model.row)
  BY <1>1 DEF Blocks
<1> DEFINE row == [items    |-> Items(r.items),
                   columns  |-> Columns(r.columns),
                   gap      |-> Number(r.gap),
                   gapSet   |-> Known(r.gap),
                   overflow |-> Text(r.overflow)]
<1>5. i \in DOMAIN spec.rows /\ spec.rows[i] = row
  BY <1>1, <1>2, <1>3, <1>4 DEF Rows
<1>6. row \in ToSet(spec.rows)
  BY <1>5 DEF ToSet
<1>7. /\ row.items = Items(r.items) /\ row.columns = Columns(r.columns)
      /\ row.gap = Number(r.gap) /\ row.gapSet = Known(r.gap)
  OBVIOUS
<1> HIDE DEF row
<1>8. RowItems(row) = items
  BY <1>7 DEF RowItems
<1> DEFINE style == RowStyle(spec, row)
           x == Element("row", <<>>, style, RowItems(row), NoSpan)
           e == Encoded(x)
<1>9. x \in RowElements(spec, row)
  BY DEF RowElements
<1> HIDE DEF x, spec, items
<1>10. x \in Elements(spec, nodes)
  BY <1>6, <1>8, <1>9 DEF Elements, items
<1>11. e \in content.elements
  BY <1>10 DEF Content
<1>e. e = Encoded(Element("row", <<>>, style, RowItems(row), NoSpan))
  BY DEF x
<1> HIDE DEF e, style
<1>12. e.tag = "row" /\ e.id = <<>> /\ e.holds = items
       /\ e.gaps = IF style.gapSet \/ style.gap > 0 THEN {style.gap} ELSE {}
  BY <1>8, <1>e DEF Encoded, Element
<1>13. style.gapSet = TRUE /\ (row.gapSet => style.gap = row.gap)
  BY DEF RowStyle, Plain, style
<1>14. r.gap # Null => e.gaps = {r.gap}
  BY <1>7, <1>12, <1>13 DEF Known, Number
<1> HIDE DEF e, content
<1> QED
  BY <1>11, <1>12, <1>14 DEF BlockShown, items, content, spec

\* So is a container with items.
LEMMA ContainerShown ==
  ASSUME NEW model, NEW nodes, NEW c \in ToSet(Blocks(model.container)), c.items # <<>>,
         DecodeDiagnostics(model) = {}, Known(c.id), c.style.gap # Unknown
  PROVE  BlockShown(Content(SpecFromModel(model), nodes), "container", <<c.id>>, c.style.gap,
                    c.items)
<1> DEFINE spec == SpecFromModel(model)
           content == Content(spec, nodes)
<1>1. PICK i \in DOMAIN Blocks(model.container) : c = Blocks(model.container)[i]
  BY DEF ToSet
<1>2. spec.containers = Containers(model.container)
  BY DEF SpecFromModel
<1>3. Known(model.container) /\ Blocks(model.container) = model.container
  BY <1>1 DEF Blocks
<1>4. Listed(c.items)
  <2>1. c.items \in RequiredLists(model)
    BY <1>1, <1>3 DEF RequiredLists
  <2>2. \A items \in RequiredLists(model) \cup OptionalLists(model) : Listed(items)
    BY DEF DecodeDiagnostics
  <2> QED
    BY <2>1, <2>2
<1>5. Items(c.items) = c.items /\ Text(c.id) = c.id
  BY <1>4 DEF Items, Text
<1> DEFINE box == [id |-> c.id, items |-> c.items, style |-> Style(c.style)]
<1>6. i \in DOMAIN spec.containers /\ spec.containers[i] = box
  BY <1>1, <1>2, <1>3, <1>5 DEF Containers
<1>7. box \in ToSet(spec.containers)
  BY <1>6 DEF ToSet
<1>8. box.id = c.id /\ box.items = c.items /\ box.style = Style(c.style)
  OBVIOUS
<1> HIDE DEF box, spec
<1> DEFINE x == Element("container", <<box.id>>, box.style, box.items, NoSpan)
           e == Encoded(x)
<1>9. x \in Elements(spec, nodes)
  BY <1>7, <1>8 DEF Elements
<1> HIDE DEF x
<1>10. e \in content.elements
  BY <1>9 DEF Content
<1>e. e = Encoded(Element("container", <<box.id>>, box.style, box.items, NoSpan))
  BY DEF x
<1> HIDE DEF e
<1>11. e.tag = "container" /\ e.id = <<c.id>> /\ e.holds = c.items
       /\ e.gaps = IF box.style.gapSet \/ box.style.gap > 0 THEN {box.style.gap} ELSE {}
  BY <1>8, <1>e DEF Encoded, Element
<1>12. box.style.gapSet = Known(c.style.gap) /\ box.style.gap = Number(c.style.gap)
  BY <1>8 DEF Style
<1>13. c.style.gap # Null => e.gaps = {c.style.gap}
  BY <1>11, <1>12 DEF Known, Number
<1> HIDE DEF e, content
<1> QED
  BY <1>10, <1>11, <1>13 DEF BlockShown, content, spec

\* What is drawn as a node is a block of the sources, and none of this provider.
LEMMA NodeShown ==
  ASSUME NEW spec, NEW files, AreSources(files),
         NEW e \in Content(spec, Nodes(ConfigBlocks(files))).elements, e.tag = "node"
  PROVE  \E i \in DOMAIN files : \E block \in ToSet(files[i].text.blocks) :
           /\ e.id = Address(block)
           /\ block.type # "module" => block.labels[1] \notin XaligoTypes
<1> DEFINE nodes == Nodes(ConfigBlocks(files))
<1>1. PICK x \in Elements(spec, nodes) : e = Encoded(x)
  BY DEF Content
<1>2. e.tag = x.tag /\ e.id = x.id
  BY <1>1 DEF Encoded
<1> HIDE DEF nodes
<1>3. \A c : Element("container", <<c.id>>, c.style, c.items, NoSpan).tag = "container"
  BY DEF Element
<1>4. \A row : \A y \in RowElements(spec, row) : y.tag \in {"row", "col"}
  BY DEF RowElements, Column, Element
<1>5. PICK n \in nodes : x = Element("node", n.address, ItemStyle(spec, n.address), <<>>, NoSpan)
  BY <1>2, <1>3, <1>4 DEF Elements
<1>6. x.id = n.address
  BY <1>5 DEF Element
<1>7. PICK i \in DOMAIN files : \E block \in ToSet(files[i].text.blocks) :
                               Included(block) /\ n = Decoded(block)
  BY <1>5, NodesAreBlocks DEF nodes
<1> PICK block \in ToSet(files[i].text.blocks) : Included(block) /\ n = Decoded(block)
  BY <1>7
<1>8. n.address = Address(block)
  BY DEF Decoded
<1>9. block.type # "module" => block.labels[1] \notin XaligoTypes
  BY DEF Included
<1> QED
  BY <1>2, <1>6, <1>8, <1>9

LEMMA ConversionShows ==
  ASSUME NEW model, NEW files, AreSources(files), DecodeDiagnostics(model) = {},
         Settled(model), Known(model.frame_id)
  PROVE  Shows(model, files, Content(SpecFromModel(model), Nodes(ConfigBlocks(files))))
<1> DEFINE spec == SpecFromModel(model)
           nodes == Nodes(ConfigBlocks(files))
           content == Content(spec, nodes)
<1>1. content.id = model.frame_id
  BY DEF Content, SpecFromModel, Text
<1>2. content.titles = {model.title} \ {Null, ""}
  <2>1. content.titles = {Text(model.title)} \ {""}
    BY DEF Content, SpecFromModel
  <2> QED
    BY <2>1 DEF Text, Known, Settled
<1> HIDE DEF content, nodes
<1>3. \A r \in ToSet(Blocks(model.row)) :
         RowItems([items |-> Items(r.items), columns |-> Columns(r.columns)]) # <<>> =>
           BlockShown(content, "row", <<>>, r.gap,
                      RowItems([items |-> Items(r.items), columns |-> Columns(r.columns)]))
  BY RowShown DEF content, Settled
<1>4. \A c \in ToSet(Blocks(model.container)) :
         c.items # <<>> => BlockShown(content, "container", <<c.id>>, c.style.gap, c.items)
  BY ContainerShown DEF content, Settled
<1>5. \A e \in content.elements : e.tag = "node" =>
         \E i \in DOMAIN files : \E block \in ToSet(files[i].text.blocks) :
           /\ e.id = Address(block)
           /\ block.type # "module" => block.labels[1] \notin XaligoTypes
  BY NodeShown DEF content, nodes
<1> QED
  BY <1>1, <1>2, <1>3, <1>4, <1>5 DEF Shows, content, nodes

-----------------------------------------------------------------------------
(* An apply repeats the conversion of its plan                               *)

\* One turn of the loop of Load, for the entry that is found for a name.
ReadNext(files, found) ==
    IF Skipped(found.entry) THEN files
    ELSE Append(files, [name |-> found.name, text |-> found.entry.text])

FoundIn(source) ==
    [i \in DOMAIN Listing(source) |->
       [name |-> Listing(source)[i], entry |-> dir[Listing(source)[i]]]]

\* What Load makes of a directory that nobody edits.
FilesIn(source) == FoldLeft(ReadNext, <<>>, FoundIn(source))
ReadableIn(source) == \A i \in DOMAIN Listing(source) : ~Unreadable(dir[Listing(source)[i]])

\* As far as Load has got, with these names left.
HasRead(source, left, files) ==
    \E k \in 0 .. Len(Listing(source)) :
      /\ Len(left) = Len(Listing(source)) - k
      /\ \A j \in 1 .. Len(left) : left[j] = Listing(source)[k + j]
      /\ files = FoldLeft(ReadNext, <<>>, SubSeq(FoundIn(source), 1, k))
      /\ \A j \in 1 .. k : ~Unreadable(dir[Listing(source)[j]])

\* What the stages have judged.
Loadable(files) == files # <<>> /\ ~HasErrors(ConfigDiagnostics(files))

Mappable(spec, files) ==
    LET blocks == ConfigBlocks(files)
        loaded == ConfigDiagnostics(files) \cup GraphDiagnostics(blocks)
    IN ~HasErrors(loaded) /\ ~HasErrors(Judged(spec, loaded, MappingDiagnostics(spec, Nodes(blocks))))

Encodable(spec, files) == ~DocumentInvalid(spec, Nodes(ConfigBlocks(files)))
ContentOf(spec, files) == Content(spec, Nodes(ConfigBlocks(files)))

\* While seen = changes, nobody has edited the sources since the request began.
Advanced(request) ==
    /\ request.seen \in Nat /\ request.seen <= changes
    /\ request.left \in Seq(ToSet(SourceNames))
    /\ AreSources(request.files)
    /\ request.at \in {"options", "list"} => request.files = <<>>
    /\ request.at # "options" /\ request.op # "items" => OptionDiagnostics(request.spec) = {}
    /\ request.at \in {"map", "encode", "finish"} => Loadable(request.files)
    /\ request.at \in {"encode", "finish"} => Mappable(request.spec, request.files)
    /\ request.at = "finish" => /\ Encodable(request.spec, request.files)
                                /\ request.content = ContentOf(request.spec, request.files)
    /\ request.at = "read" /\ request.seen = changes =>
         HasRead(request.source, request.left, request.files)
    /\ request.at \in {"map", "encode", "finish"} /\ request.seen = changes =>
         request.files = FilesIn(request.source) /\ ReadableIn(request.source)

Progress == call # Idle => Advanced(call)

\* Plans and applies are of their models.
ServesTheModel ==
    /\ call # Idle /\ call.op \in {"plan", "apply"} =>
         /\ data = "enable" /\ call.spec = SpecFromModel(call.model)
         /\ call.source = Resolve(call.model.source_dir, call.model.output_path).sourceDir
    /\ call # Idle /\ call.op = "apply" => plan.seen <= call.seen

\* What the plan has found, and finds again while nobody changes anything.
PlanStands ==
    plan # NoPlan =>
      LET spec == SpecFromModel(plan.model)
          files == plan.computed.source
          source == Resolve(plan.model.source_dir, plan.model.output_path).sourceDir
      IN
      /\ plan.seen \in Nat /\ plan.seen <= changes
      /\ plan.seen = changes => data = plan.computed.export /\ data \in {"enable", "disable"}
      /\ plan.computed.export = "enable" =>
           /\ OptionDiagnostics(spec) = {} /\ Loadable(files) /\ Mappable(spec, files)
           /\ Encodable(spec, files) /\ plan.computed.content = ContentOf(spec, files)
           /\ plan.seen = changes => files = FilesIn(source) /\ ReadableIn(source)

\* An apply that was refused leaves its plan.
RefusedKeepsPlan ==
    answer # NoAnswer /\ answer.op = "apply" /\ ~answer.done => plan # NoPlan

DirectoryInv ==
    /\ DOMAIN dir = ToSet(SourceNames) /\ \A n \in DOMAIN dir : IsSource(dir[n])
    /\ changes \in Nat

ApplyInv ==
    /\ ApplyKeepsThePlan
    /\ DirectoryInv /\ Progress /\ ServesTheModel /\ PlanStands /\ RefusedKeepsPlan

-----------------------------------------------------------------------------
(* Listing and reading                                                       *)

Taking == INSTANCE SequenceFolds WITH Op <- TakenName, Base <- <<>>
Reading == INSTANCE SequenceFolds WITH Op <- ReadNext, Base <- <<>>

LEMMA TakenFold == ASSUME NEW xs PROVE FoldLeft(TakenName, <<>>, xs) = Taking!Folded(xs)
  BY DEF Taking!Folded, FoldLeft, Taking!FoldLeft, MapThenFoldSet, Taking!MapThenFoldSet,
         Max, Taking!Max

LEMMA ReadFold == ASSUME NEW xs PROVE FoldLeft(ReadNext, <<>>, xs) = Reading!Folded(xs)
  BY DEF Reading!Folded, FoldLeft, Reading!FoldLeft, MapThenFoldSet, Reading!MapThenFoldSet,
         Max, Reading!Max

LEMMA ListingNames ==
  ASSUME NEW source
  PROVE  Listing(source) \in Seq(ToSet(SourceNames))
<1> DEFINE N == ToSet(SourceNames)
           E == {[name |-> n, type |-> dir[n].type] : n \in N}
           I == Seq(N)
<1>1. SourceNames \in Seq(N)
  BY RequestsAssumption
<1>2. Entries \in Seq(E)
  <2>1. \A i \in DOMAIN SourceNames : SourceNames[i] \in N
    BY DEF ToSet
  <2>2. \A i \in DOMAIN SourceNames :
           [name |-> SourceNames[i], type |-> dir[SourceNames[i]].type] \in E
    BY <2>1
  <2>3. DOMAIN SourceNames = 1..Len(SourceNames) /\ Len(SourceNames) \in Nat
    BY <1>1
  <2> HIDE DEF E
  <2> QED
    BY <2>2, <2>3 DEF Entries
<1>3. <<>> \in I
  OBVIOUS
<1>4. ASSUME NEW a \in I, NEW x \in E PROVE TakenName(a, x) \in I
  <2>1. x.name \in N
    OBVIOUS
  <2> HIDE DEF N, E
  <2> QED
    BY <2>1 DEF TakenName
<1> HIDE DEF I, E
<1>5. FoldLeft(TakenName, <<>>, Entries) \in I
  BY <1>2, <1>3, <1>4, TakenFold, Taking!FoldInvariant
<1> QED
  BY <1>3, <1>5 DEF Listing, I

LEMMA PrefixAppend ==
  ASSUME NEW S, NEW xs \in Seq(S), NEW k \in 0 .. Len(xs) - 1
  PROVE  /\ SubSeq(xs, 1, k) \in Seq(S) /\ xs[k + 1] \in S
         /\ SubSeq(xs, 1, k + 1) = Append(SubSeq(xs, 1, k), xs[k + 1])
<1> DEFINE ys == SubSeq(xs, 1, k)
           zs == SubSeq(xs, 1, k + 1)
<1>1. /\ k \in Nat /\ Len(xs) \in Nat /\ k + 1 <= Len(xs) /\ xs[k + 1] \in S
  OBVIOUS
<1>2. ys \in Seq(S) /\ Len(ys) = k /\ \A i \in 1..k : ys[i] = xs[i]
  BY <1>1
<1>3. zs \in Seq(S) /\ Len(zs) = k + 1 /\ \A i \in 1 .. k + 1 : zs[i] = xs[i]
  BY <1>1
<1> HIDE DEF ys, zs
<1>4. Append(ys, xs[k + 1]) \in Seq(S) /\ Len(Append(ys, xs[k + 1])) = k + 1
  BY <1>1, <1>2
<1>5. \A i \in 1 .. k + 1 : Append(ys, xs[k + 1])[i] = xs[i]
  BY <1>1, <1>2
<1>6. zs = Append(ys, xs[k + 1])
  BY <1>1, <1>3, <1>4, <1>5, SeqEqual
<1> QED
  BY <1>1, <1>2, <1>6 DEF ys, zs

LEMMA FoundSequence ==
  ASSUME NEW source
  PROVE  \E S : /\ FoundIn(source) \in Seq(S) /\ Len(FoundIn(source)) = Len(Listing(source))
                /\ \A i \in DOMAIN Listing(source) :
                     FoundIn(source)[i] = [name |-> Listing(source)[i],
                                           entry |-> dir[Listing(source)[i]]]
<1> DEFINE N == ToSet(SourceNames)
           S == {[name |-> n, entry |-> dir[n]] : n \in N}
           L == Listing(source)
<1>1. L \in Seq(N)
  BY ListingNames
<1> HIDE DEF L
<1>2. /\ DOMAIN L = 1..Len(L) /\ Len(L) \in Nat
      /\ \A i \in DOMAIN L : [name |-> L[i], entry |-> dir[L[i]]] \in S
  BY <1>1
<1>3. /\ DOMAIN FoundIn(source) = DOMAIN L
      /\ FoundIn(source) = [i \in DOMAIN L |-> [name |-> L[i], entry |-> dir[L[i]]]]
  BY DEF FoundIn, L
<1> HIDE DEF S
<1>4. FoundIn(source) \in Seq(S)
  BY <1>2, <1>3
<1> QED
  BY <1>2, <1>3, <1>4 DEF L

LEMMA NothingRead ==
  ASSUME NEW source
  PROVE  HasRead(source, Listing(source), <<>>)
<1> DEFINE L == Listing(source)
           F == FoundIn(source)
<1>1. PICK S : F \in Seq(S)
  BY FoundSequence
<1>2. L \in Seq(ToSet(SourceNames))
  BY ListingNames
<1> HIDE DEF L, F
<1>3. SubSeq(F, 1, 0) = <<>>
  BY <1>1
<1>4. FoldLeft(ReadNext, <<>>, SubSeq(F, 1, 0)) = <<>>
  BY <1>3, ReadFold, Reading!FoldEmpty
<1>5. /\ 0 \in 0..Len(L) /\ Len(L) = Len(L) - 0
      /\ \A j \in 1..Len(L) : L[j] = L[0 + j]
      /\ \A j \in 1..0 : ~Unreadable(dir[L[j]])
  BY <1>2
<1> QED
  BY <1>4, <1>5 DEF HasRead, L, F

LEMMA ReadOn ==
  ASSUME NEW source, NEW left \in Seq(ToSet(SourceNames)), NEW files, left # <<>>,
         HasRead(source, left, files), ~Unreadable(dir[Head(left)])
  PROVE  HasRead(source, Tail(left),
                 ReadNext(files, [name |-> Head(left), entry |-> dir[Head(left)]]))
<1> DEFINE L == Listing(source)
           F == FoundIn(source)
           rest == Tail(left)
           next == ReadNext(files, [name |-> Head(left), entry |-> dir[Head(left)]])
<1>1. L \in Seq(ToSet(SourceNames))
  BY ListingNames
<1>2. PICK S : /\ F \in Seq(S) /\ Len(F) = Len(L)
               /\ \A i \in DOMAIN L : F[i] = [name |-> L[i], entry |-> dir[L[i]]]
  BY FoundSequence
<1>3. PICK k \in 0..Len(L) :
         /\ Len(left) = Len(L) - k
         /\ \A j \in 1..Len(left) : left[j] = L[k + j]
         /\ files = FoldLeft(ReadNext, <<>>, SubSeq(F, 1, k))
         /\ \A j \in 1..k : ~Unreadable(dir[L[j]])
  BY DEF HasRead
<1> HIDE DEF L, F
<1>4. /\ Len(left) \in Nat \ {0} /\ Head(left) = left[1]
      /\ Len(L) \in Nat /\ DOMAIN L = 1..Len(L)
  BY <1>1
<1>5. k \in 0 .. Len(F) - 1 /\ k + 1 \in DOMAIN L /\ k + 1 \in 0..Len(L) /\ Head(left) = L[k + 1]
  BY <1>2, <1>3, <1>4
<1>6. /\ SubSeq(F, 1, k + 1) = Append(SubSeq(F, 1, k), F[k + 1])
      /\ SubSeq(F, 1, k) \in Seq(S) /\ F[k + 1] \in S
  BY <1>2, <1>5, PrefixAppend
<1>7. F[k + 1] = [name |-> Head(left), entry |-> dir[Head(left)]]
  BY <1>2, <1>5
<1>8. next = FoldLeft(ReadNext, <<>>, SubSeq(F, 1, k + 1))
  <2>1. FoldLeft(ReadNext, <<>>, SubSeq(F, 1, k + 1))
          = ReadNext(FoldLeft(ReadNext, <<>>, SubSeq(F, 1, k)), F[k + 1])
    BY <1>6, ReadFold, Reading!FoldAppend
  <2> QED
    BY <1>3, <1>7, <2>1
<1>9. Len(rest) = Len(L) - (k + 1) /\ \A j \in 1..Len(rest) : rest[j] = L[(k + 1) + j]
  <2>1. Len(rest) = Len(left) - 1 /\ \A j \in 1..Len(rest) : rest[j] = left[j + 1]
    BY <1>4
  <2>2. ASSUME NEW j \in 1..Len(rest) PROVE rest[j] = L[(k + 1) + j]
    <3>1. j + 1 \in 1..Len(left) /\ k + (j + 1) = (k + 1) + j
      BY <1>3, <1>4, <2>1
    <3>2. left[j + 1] = L[k + (j + 1)]
      BY <1>3, <3>1
    <3> QED
      BY <2>1, <3>1, <3>2
  <2>3. Len(rest) = Len(L) - (k + 1)
    BY <1>3, <1>4, <2>1
  <2> QED
    BY <2>2, <2>3
<1>10. \A j \in 1 .. k + 1 : ~Unreadable(dir[L[j]])
  <2>1. ~Unreadable(dir[L[k + 1]])
    BY <1>5
  <2>2. \A j \in 1 .. k + 1 : j \in 1..k \/ j = k + 1
    BY <1>3, <1>4
  <2> QED
    BY <1>3, <2>1, <2>2
<1> HIDE DEF next, rest
<1>11. HasRead(source, rest, next)
  BY <1>5, <1>8, <1>9, <1>10 DEF HasRead, L, F
<1> QED
  BY <1>11 DEF rest, next

LEMMA AllRead ==
  ASSUME NEW source, NEW files, HasRead(source, <<>>, files)
  PROVE  files = FilesIn(source) /\ ReadableIn(source)
<1> DEFINE L == Listing(source)
           F == FoundIn(source)
<1>1. L \in Seq(ToSet(SourceNames))
  BY ListingNames
<1>2. PICK S : F \in Seq(S) /\ Len(F) = Len(L)
  BY FoundSequence
<1>3. PICK k \in 0..Len(L) :
         /\ Len(<<>>) = Len(L) - k
         /\ files = FoldLeft(ReadNext, <<>>, SubSeq(F, 1, k))
         /\ \A j \in 1..k : ~Unreadable(dir[L[j]])
  BY DEF HasRead
<1> HIDE DEF L, F
<1>4. k = Len(L) /\ DOMAIN L = 1..Len(L)
  BY <1>1, <1>3
<1>5. SubSeq(F, 1, Len(F)) = F
  BY <1>2
<1> QED
  BY <1>2, <1>3, <1>4, <1>5 DEF FilesIn, ReadableIn, L, F

LEMMA NextIsReadable ==
  ASSUME NEW source, NEW left \in Seq(ToSet(SourceNames)), NEW files, left # <<>>,
         HasRead(source, left, files), ReadableIn(source)
  PROVE  ~Unreadable(dir[Head(left)])
<1> DEFINE L == Listing(source)
<1>1. L \in Seq(ToSet(SourceNames))
  BY ListingNames
<1>2. PICK k \in 0..Len(L) :
         Len(left) = Len(L) - k /\ \A j \in 1..Len(left) : left[j] = L[k + j]
  BY DEF HasRead
<1> HIDE DEF L
<1>3. Head(left) = L[k + 1] /\ k + 1 \in DOMAIN L
  BY <1>1, <1>2
<1> QED
  BY <1>3 DEF ReadableIn, L

-----------------------------------------------------------------------------
(* The stages of an apply that repeats its plan                              *)

\* Nothing has changed since the plan, and it had no unknown values.
Repeats == plan.seen = changes /\ Learned(plan.model) = {plan.model}

LEMMA ApplyRepeats ==
  ASSUME OutputInv, Progress, ServesTheModel, PlanStands, call # Idle, call.op = "apply", Repeats
  PROVE  LET files == FilesIn(call.source) IN
         /\ call.seen = changes
         /\ OptionDiagnostics(call.spec) = {} /\ IsDirectory(call.source)
         /\ ReadableIn(call.source) /\ Loadable(files)
         /\ Mappable(call.spec, files) /\ Encodable(call.spec, files)
         /\ plan.computed.source = files
         /\ plan.computed.content = ContentOf(call.spec, files)
<1> DEFINE source == Resolve(plan.model.source_dir, plan.model.output_path).sourceDir
<1>1. /\ plan # NoPlan /\ call.model = plan.model /\ plan.computed.export = "enable"
  BY DEF OutputInv, ServesTheOutput, Repeats
<1>2. call.spec = SpecFromModel(plan.model) /\ call.source = source
  BY <1>1 DEF ServesTheModel
<1>3. /\ plan.seen \in Nat /\ plan.seen <= call.seen /\ call.seen \in Nat /\ call.seen <= changes
  BY <1>1 DEF ServesTheModel, PlanStands, Progress, Advanced
<1>4. call.seen = changes
  BY <1>3 DEF Repeats
<1>5. IsDirectory(source)
  BY <1>1 DEF OutputInv, Managed, Resolved, Refused
<1> HIDE DEF source
<1>6. /\ OptionDiagnostics(call.spec) = {} /\ plan.computed.source = FilesIn(source)
      /\ Loadable(plan.computed.source) /\ Mappable(call.spec, plan.computed.source)
      /\ Encodable(call.spec, plan.computed.source)
      /\ plan.computed.content = ContentOf(call.spec, plan.computed.source)
      /\ ReadableIn(source)
  BY <1>1, <1>2 DEF PlanStands, Repeats, source
<1> QED
  BY <1>2, <1>4, <1>5, <1>6

\* A stage is cancelled, goes on, or fails, but not where the plan did not.
StageEnds == \E D, failure : Fail(call.op, D, failure)
StageAdvances == \E next : Continue(next) /\ SameRequest(next) /\ Advanced(next)

StageStands ==
    \/ Cancelled
    \/ StageEnds /\ ~(call.op = "apply" /\ Repeats)
    \/ StageAdvances
    \/ ItemsAnswered

StageInv == HonestInv /\ OutputInv /\ Progress /\ ServesTheModel /\ PlanStands

LEMMA LoadFailsEnds == ASSUME LoadFails PROVE StageEnds
  BY Zenon DEF LoadFails, StageEnds

LEMMA OptionsStand ==
  ASSUME StageInv, CheckOptions
  PROVE  StageStands
<1> DEFINE diagnostics == IF call.op = "items" THEN {} ELSE OptionDiagnostics(call.spec)
           next == [call EXCEPT !.at = "list"]
<1>1. call # Idle /\ call.at = "options"
  BY DEF CheckOptions, Serving
<1>2. CASE Cancelled
  BY <1>2 DEF StageStands
<1>3. CASE diagnostics # {} /\ Fail(call.op, diagnostics, ErrConversion)
  <2>1. ~(call.op = "apply" /\ Repeats)
    BY <1>1, <1>3, ApplyRepeats DEF StageInv
  <2> QED
    BY <1>3, <2>1 DEF StageStands, StageEnds
<1>4. CASE diagnostics = {} /\ Continue(next)
  <2>1. /\ SameRequest(next)
        /\ next.at = "list" /\ next.left = call.left /\ next.files = call.files
    BY <1>1 DEF SameRequest, StageInv, HonestInv, CallShape, Fields
  <2>2. Advanced(next)
    BY <1>1, <1>4, <2>1 DEF StageInv, Progress, Advanced, SameRequest
  <2> QED
    BY <1>4, <2>1, <2>2 DEF StageStands, StageAdvances
<1> QED
  BY <1>2, <1>3, <1>4, Zenon DEF CheckOptions

LEMMA ListStands ==
  ASSUME StageInv, ListDirectory
  PROVE  StageStands
<1> DEFINE next == [call EXCEPT !.at = "read", !.left = Listing(call.source)]
<1>1. call # Idle /\ call.at = "list"
  BY DEF ListDirectory, Serving
<1>2. CASE ~IsDirectory(call.source) /\ LoadFails
  <2>1. ~(call.op = "apply" /\ Repeats)
    BY <1>1, <1>2, ApplyRepeats DEF StageInv
  <2> QED
    BY <1>2, <2>1, LoadFailsEnds DEF StageStands
<1>3. CASE Continue(next)
  <2>1. /\ SameRequest(next)
        /\ next.at = "read" /\ next.left = Listing(call.source) /\ next.files = call.files
    BY <1>1 DEF SameRequest, StageInv, HonestInv, CallShape, Fields
  <2>2. HasRead(call.source, Listing(call.source), <<>>)
        /\ Listing(call.source) \in Seq(ToSet(SourceNames))
    BY NothingRead, ListingNames
  <2>3. Advanced(next)
    BY <1>1, <2>1, <2>2 DEF StageInv, Progress, Advanced, SameRequest
  <2> QED
    BY <1>3, <2>1, <2>3 DEF StageStands, StageAdvances
<1> QED
  BY <1>2, <1>3, Zenon DEF ListDirectory

\* What is read is a source.
LEMMA AppendedSource ==
  ASSUME NEW files, AreSources(files), NEW file, IsSource(file)
  PROVE  AreSources(Append(files, file))
<1> DEFINE S == ToSet(files) \cup {file}
           more == Append(files, file)
<1>1. files \in Seq(S) /\ file \in S
  <2>1. files \in Seq(ToSet(files)) /\ ToSet(files) \subseteq S
    BY DEF AreSources
  <2> DEFINE T == ToSet(files)
  <2> HIDE DEF T, S
  <2> QED
    BY <2>1 DEF T, S
<1>2. more \in Seq(S) /\ \A s \in S : IsSource(s)
  <2>1. \A s \in S : IsSource(s)
    BY DEF AreSources
  <2> HIDE DEF S
  <2> QED
    BY <1>1, <2>1
<1> HIDE DEF S, more
<1>3. ToSet(more) \subseteq S
  BY <1>2 DEF ToSet
<1>4. more \in Seq(ToSet(more))
  <2>1. DOMAIN more = 1..Len(more) /\ Len(more) \in Nat
    BY <1>2
  <2>2. \A i \in DOMAIN more : more[i] \in ToSet(more)
    BY DEF ToSet
  <2>3. more = [i \in 1..Len(more) |-> more[i]]
    BY <1>2
  <2> DEFINE T == ToSet(more)
  <2> HIDE DEF T
  <2>4. more \in [1..Len(more) -> T]
    BY <2>1, <2>2, <2>3 DEF T
  <2> QED
    BY <2>1, <2>4, SeqDef DEF T
<1> QED
  BY <1>2, <1>3, <1>4 DEF AreSources, more

LEMMA ReadStands ==
  ASSUME StageInv, DirectoryInv, ReadFile
  PROVE  StageStands
<1> DEFINE name == Head(call.left)
           entry == dir[name]
           file == [name |-> name, text |-> entry.text]
           files == IF Skipped(entry) THEN call.files ELSE Append(call.files, file)
           next == [call EXCEPT !.left = Tail(@), !.files = IF Skipped(entry) THEN @ ELSE Append(@, file)]
<1>1. /\ call # Idle /\ call.at = "read" /\ call.left # <<>>
      /\ call.left \in Seq(ToSet(SourceNames))
  BY DEF ReadFile, Serving, StageInv, Progress, Advanced
<1>2. CASE Unreadable(entry) /\ LoadFails
  <2>1. ~(call.op = "apply" /\ Repeats)
    BY <1>1, <1>2, ApplyRepeats, NextIsReadable DEF StageInv, Progress, Advanced
  <2> QED
    BY <1>2, <2>1, LoadFailsEnds DEF StageStands
<1>3. CASE ~Unreadable(entry) /\ Continue(next)
  <2>1. /\ SameRequest(next)
        /\ next.at = "read" /\ next.left = Tail(call.left) /\ next.files = files
    BY <1>1 DEF SameRequest, StageInv, HonestInv, CallShape, Fields
  <2>2. name \in DOMAIN dir
    BY <1>1 DEF DirectoryInv
  <2>3. IsSource(file)
    BY <2>2 DEF DirectoryInv, IsSource
  <2>4. AreSources(files)
    BY <1>1, <2>3, AppendedSource DEF StageInv, Progress, Advanced
  <2>5. files = ReadNext(call.files, [name |-> name, entry |-> entry])
    BY DEF ReadNext
  <2> HIDE DEF next, files
  <2>6. call.seen = changes => HasRead(call.source, Tail(call.left), files)
    BY <1>1, <1>3, <2>5, ReadOn DEF StageInv, Progress, Advanced
  <2>7. Tail(call.left) \in Seq(ToSet(SourceNames))
    BY <1>1
  <2>8. Advanced(next)
    BY <1>1, <2>1, <2>4, <2>6, <2>7 DEF StageInv, Progress, Advanced, SameRequest
  <2> QED
    BY <1>3, <2>1, <2>8 DEF StageStands, StageAdvances
<1> QED
  BY <1>2, <1>3, Zenon DEF ReadFile

LEMMA LoadedStands ==
  ASSUME StageInv, Loaded
  PROVE  StageStands
<1> DEFINE diagnostics == ConfigDiagnostics(call.files)
           blocks == ConfigBlocks(call.files)
           next == [call EXCEPT !.at = "map"]
<1>1. call # Idle /\ call.at = "read" /\ call.left = <<>>
  BY DEF Loaded, Serving
<1>2. call.seen = changes => call.files = FilesIn(call.source) /\ ReadableIn(call.source)
  BY <1>1, AllRead DEF StageInv, Progress, Advanced
<1>3. call.op = "apply" /\ Repeats => Loadable(call.files)
  BY <1>1, <1>2, ApplyRepeats DEF StageInv
<1>4. CASE call.files = <<>> /\ LoadFails
  BY <1>3, <1>4, LoadFailsEnds DEF StageStands, Loadable
<1>5. CASE call.op = "items" /\ AnswerItems(blocks)
  <2> DEFINE all == diagnostics \cup GraphDiagnostics(blocks)
  <2>1. CASE Fail("items", all, "Terraform items could not be loaded")
    BY <1>5, <2>1 DEF StageStands, StageEnds
  <2>2. CASE Reply("items", all, TRUE) /\ UNCHANGED <<state, disk, plan>>
    BY <1>5, <2>2 DEF StageStands, ItemsAnswered
  <2> QED
    BY <1>5, <2>1, <2>2, Zenon DEF AnswerItems
<1>6. CASE HasErrors(diagnostics) /\ Fail(call.op, diagnostics, ErrConversion)
  BY <1>3, <1>6 DEF StageStands, StageEnds, Loadable
<1>7. CASE Cancelled
  BY <1>7 DEF StageStands
<1>8. CASE call.files # <<>> /\ ~HasErrors(diagnostics) /\ Continue(next)
  <2>1. /\ SameRequest(next)
        /\ next.at = "map" /\ next.left = call.left /\ next.files = call.files
    BY <1>1 DEF SameRequest, StageInv, HonestInv, CallShape, Fields
  <2>2. Loadable(call.files)
    BY <1>8 DEF Loadable
  <2>3. Advanced(next)
    BY <1>1, <1>2, <2>1, <2>2 DEF StageInv, Progress, Advanced, SameRequest
  <2> QED
    BY <1>8, <2>1, <2>3 DEF StageStands, StageAdvances
<1> QED
  BY <1>4, <1>5, <1>6, <1>7, <1>8, Zenon DEF Loaded

LEMMA MapStands ==
  ASSUME StageInv, MapGraph
  PROVE  StageStands
<1> DEFINE blocks == ConfigBlocks(call.files)
           loaded == ConfigDiagnostics(call.files) \cup GraphDiagnostics(blocks)
           mapped == MappingDiagnostics(call.spec, Nodes(blocks))
           judged == Judged(call.spec, loaded, mapped)
           next == [call EXCEPT !.at = "encode", !.mapped = mapped]
<1>1. call # Idle /\ call.at = "map"
  BY DEF MapGraph, Serving
<1>2. Mappable(call.spec, call.files) <=> ~HasErrors(loaded) /\ ~HasErrors(judged)
  BY DEF Mappable
<1>3. call.op = "apply" /\ Repeats => Mappable(call.spec, call.files)
  BY <1>1, ApplyRepeats DEF StageInv, Progress, Advanced
<1> HIDE DEF loaded, mapped, judged
<1>4. CASE HasErrors(loaded) /\ Fail(call.op, loaded, ErrConversion)
  BY <1>2, <1>3, <1>4 DEF StageStands, StageEnds
<1>5. CASE HasErrors(judged) /\ Fail(call.op, judged, ErrConversion)
  BY <1>2, <1>3, <1>5 DEF StageStands, StageEnds
<1>6. CASE ~HasErrors(loaded) /\ ~HasErrors(judged) /\ Continue(next)
  <2>1. /\ SameRequest(next)
        /\ next.at = "encode" /\ next.left = call.left /\ next.files = call.files
    BY <1>1 DEF SameRequest, StageInv, HonestInv, CallShape, Fields
  <2>2. Advanced(next)
    BY <1>1, <1>2, <1>6, <2>1 DEF StageInv, Progress, Advanced, SameRequest
  <2> QED
    BY <1>6, <2>1, <2>2 DEF StageStands, StageAdvances
<1> QED
  BY <1>4, <1>5, <1>6, Zenon DEF MapGraph, loaded, mapped, judged

LEMMA EncodeStands ==
  ASSUME StageInv, Encode
  PROVE  StageStands
<1> DEFINE nodes == Nodes(ConfigBlocks(call.files))
           next == [call EXCEPT !.at = "finish", !.content = Content(call.spec, nodes)]
<1>1. call # Idle /\ call.at = "encode"
  BY DEF Encode, Serving
<1>2. Encodable(call.spec, call.files) <=> ~DocumentInvalid(call.spec, nodes)
  BY DEF Encodable
<1>3. call.op = "apply" /\ Repeats => Encodable(call.spec, call.files)
  BY <1>1, ApplyRepeats DEF StageInv, Progress, Advanced
<1>4. ContentOf(call.spec, call.files) = Content(call.spec, nodes)
  BY DEF ContentOf
<1> HIDE DEF nodes
<1>5. CASE Cancelled
  BY <1>5 DEF StageStands
<1>6. CASE DocumentInvalid(call.spec, nodes) /\ StageEnds
  BY <1>2, <1>3, <1>6 DEF StageStands
<1>7. CASE ~DocumentInvalid(call.spec, nodes) /\ Continue(next)
  <2>1. /\ SameRequest(next)
        /\ next.at = "finish" /\ next.left = call.left /\ next.files = call.files
        /\ next.content = Content(call.spec, nodes)
    BY <1>1 DEF SameRequest, StageInv, HonestInv, CallShape, Fields
  <2>2. Advanced(next)
    BY <1>1, <1>2, <1>4, <1>7, <2>1 DEF StageInv, Progress, Advanced, SameRequest
  <2> QED
    BY <1>7, <2>1, <2>2 DEF StageStands, StageAdvances
<1> QED
  BY <1>5, <1>6, <1>7, Zenon DEF Encode, nodes, StageEnds

LEMMA StagesStand ==
  ASSUME StageInv, DirectoryInv, Stage
  PROVE  StageStands
  BY OptionsStand, ListStands, ReadStands, LoadedStands, MapStands, EncodeStands DEF Stage

-----------------------------------------------------------------------------
(* The invariant is kept                                                     *)

Settles == UNCHANGED <<dir, changes, data>>

LEMMA AdvancedStays ==
  ASSUME UNCHANGED <<dir, changes>>, NEW next, Advanced(next), call' = next
  PROVE  Advanced(call)'
<1>1. /\ (FilesIn(call.source))' = FilesIn(next.source)
      /\ (ReadableIn(call.source))' <=> ReadableIn(next.source)
  BY DEF FilesIn, ReadableIn, FoundIn, Listing, Entries
<1>2. (HasRead(call.source, call.left, call.files))' <=> HasRead(next.source, next.left, next.files)
  BY DEF HasRead, FoundIn, Listing, Entries
<1> QED
  BY <1>1, <1>2 DEF Advanced

LEMMA PlanStays ==
  ASSUME PlanStands, Settles, plan' \in {plan, NoPlan}
  PROVE  PlanStands'
<1> SUFFICES ASSUME plan' = plan, plan # NoPlan PROVE PlanStands'
  BY DEF PlanStands
<1> DEFINE source == Resolve(plan.model.source_dir, plan.model.output_path).sourceDir
<1>1. (FilesIn(source))' = FilesIn(source) /\ (ReadableIn(source))' <=> ReadableIn(source)
  BY DEF FilesIn, ReadableIn, FoundIn, Listing, Entries, Settles
<1> QED
  BY <1>1 DEF PlanStands, Settles

LEMMA DirectoryStays ==
  ASSUME DirectoryInv, Settles
  PROVE  DirectoryInv'
  BY DEF DirectoryInv, Settles

\* A request is over that was none of an apply.
LEMMA EndStands ==
  ASSUME ApplyInv, Settles, call' = Idle, plan' \in {plan, NoPlan}, answer'.op # "apply"
  PROVE  ApplyInv'
<1>1. PlanStands' /\ DirectoryInv'
  BY PlanStays, DirectoryStays DEF ApplyInv
<1>2. ApplyKeepsThePlan' /\ RefusedKeepsPlan'
  BY DEF ApplyKeepsThePlan, RefusedKeepsPlan
<1>3. Progress' /\ ServesTheModel'
  BY DEF Progress, ServesTheModel
<1> QED
  BY <1>1, <1>2, <1>3 DEF ApplyInv

\* What an apply may report that nobody could foresee.
Excuses == {"Terraform conversion failed", "XAL output write failed", "Provider is not configured"}

\* An apply is over without a result.
LEMMA RefusalStands ==
  ASSUME ApplyInv, Settles, call' = Idle, plan # NoPlan, plan' = plan,
         ~answer'.done, ~Repeats \/ \E d \in answer'.diagnostics : d.code \in Excuses
  PROVE  ApplyInv'
<1>1. PlanStands' /\ DirectoryInv'
  BY PlanStays, DirectoryStays DEF ApplyInv
<1>2. RefusedKeepsPlan'
  BY DEF RefusedKeepsPlan
<1>3. Progress' /\ ServesTheModel'
  BY DEF Progress, ServesTheModel
<1>4. ApplyKeepsThePlan'
  <2>1. (\E d \in answer'.diagnostics : d.code \in Excuses) => Codes' \cap Excuses # {}
    BY DEF Codes
  <2>2. Learned(plan'.model) = Learned(plan.model) /\ plan'.seen = plan.seen /\ changes' = changes
    BY DEF Settles
  <2>3. \/ plan'.seen # changes' \/ Learned(plan'.model) # {plan'.model}
        \/ Codes' \cap Excuses # {}
    BY <2>1, <2>2 DEF Repeats
  <2> QED
    BY <2>3 DEF ApplyKeepsThePlan, Excuses
<1> QED
  BY <1>1, <1>2, <1>3, <1>4 DEF ApplyInv

LEMMA FailStands ==
  ASSUME ApplyInv, Settles, NEW op, NEW D, NEW failure, Fail(op, D, failure),
         op = "apply" => plan # NoPlan /\ (~Repeats \/ failure \in Excuses)
  PROVE  ApplyInv'
<1>1. /\ answer' = [op |-> op, diagnostics |-> Shown(op, D, failure), done |-> FALSE,
                    wrote |-> FALSE, value |-> NoDigest]
      /\ call' = Idle /\ plan' = IF op = "plan" THEN NoPlan ELSE plan
  BY DEF Fail, Reply
<1>2. CASE op = "apply"
  <2>1. failure \in Excuses => Error(failure) \in Shown(op, D, failure)
    BY DEF Shown, Excuses, ErrConversion
  <2>2. ~Repeats \/ \E d \in answer'.diagnostics : d.code \in Excuses
    BY <1>1, <1>2, <2>1, CodeOfError
  <2> QED
    BY <1>1, <1>2, <2>2, RefusalStands
<1>3. CASE op # "apply"
  BY <1>1, <1>3, EndStands
<1> QED
  BY <1>2, <1>3

LEMMA ReplyStands ==
  ASSUME ApplyInv, Settles, NEW op, op # "apply", NEW D, NEW done, Reply(op, D, done),
         plan' \in {plan, NoPlan}
  PROVE  ApplyInv'
<1>1. answer'.op # "apply" /\ call' = Idle
  BY DEF Reply
<1> QED
  BY <1>1, EndStands

LEMMA StartStands ==
  ASSUME ApplyInv, Settles, NEW op, NEW model, NEW paths, NEW spec, Start(op, model, spec, paths),
         op \in {"plan", "apply"} =>
           /\ data = "enable" /\ spec = SpecFromModel(model)
           /\ paths.sourceDir = Resolve(model.source_dir, model.output_path).sourceDir,
         op = "apply" => plan.seen <= changes
  PROVE  ApplyInv'
<1> DEFINE next == [op |-> op, at |-> "options", model |-> model, spec |-> spec,
                    source |-> paths.sourceDir, output |-> paths.outputPath,
                    left |-> <<>>, files |-> <<>>, mapped |-> {}, content |-> Absent,
                    seen |-> changes, cancelled |-> FALSE]
<1>1. call' = next /\ answer' = NoAnswer /\ UNCHANGED <<state, disk, plan>>
  BY DEF Start
<1>2. /\ next.op = op /\ next.at = "options" /\ next.model = model /\ next.spec = spec
      /\ next.source = paths.sourceDir /\ next.left = <<>> /\ next.files = <<>>
      /\ next.seen = changes
  OBVIOUS
<1> HIDE DEF next
<1>3. PlanStands' /\ DirectoryInv'
  BY <1>1, PlanStays, DirectoryStays DEF ApplyInv
<1>4. AreSources(<<>>)
  BY DEF AreSources, ToSet
<1>5. Advanced(next)
  BY <1>2, <1>4 DEF Advanced, ApplyInv, DirectoryInv
<1>6. Progress'
  BY <1>1, <1>5, AdvancedStays DEF Progress, Settles
<1>7. ServesTheModel'
  BY <1>1, <1>2 DEF ServesTheModel, Settles
<1>8. ApplyKeepsThePlan' /\ RefusedKeepsPlan'
  BY <1>1 DEF ApplyKeepsThePlan, RefusedKeepsPlan
<1> QED
  BY <1>3, <1>6, <1>7, <1>8 DEF ApplyInv

LEMMA ValidationStands ==
  ASSUME ApplyInv, ValidateProvider \/ ValidateResource \/ Configure
  PROVE  ApplyInv'
<1>1. CASE ValidateProvider \/ ValidateResource
  <2>1. Settles /\ plan' = plan /\ \E D, done : Reply("validate", D, done)
    BY <1>1, Zenon DEF ValidateProvider, ValidateResource, Settles
  <2> QED
    BY <2>1, ReplyStands
<1>2. CASE Configure
  <2>1. /\ data = NotConfigured /\ answer'.op = "configure" /\ call' = Idle
        /\ UNCHANGED <<dir, changes, plan>>
    BY <1>2 DEF Configure, Reply
  <2>2. plan # NoPlan => plan.seen # changes
    BY <2>1, RequestsAssumption DEF ApplyInv, PlanStands
  <2>3. PlanStands'
    BY <2>1, <2>2 DEF ApplyInv, PlanStands
  <2>4. DirectoryInv'
    BY <2>1 DEF ApplyInv, DirectoryInv
  <2>5. ApplyKeepsThePlan' /\ RefusedKeepsPlan'
    BY <2>1 DEF ApplyKeepsThePlan, RefusedKeepsPlan
  <2>6. Progress' /\ ServesTheModel'
    BY <2>1 DEF Progress, ServesTheModel
  <2> QED
    BY <2>3, <2>4, <2>5, <2>6 DEF ApplyInv
<1> QED
  BY <1>1, <1>2

LEMMA PlanDisabledStands ==
  ASSUME OutputInv, ApplyInv, Settles, data = "disable", NEW model, PlanDisabled(model)
  PROVE  ApplyInv'
<1> DEFINE decoded == DecodeDiagnostics(model)
           paths == ResolveLexical(model.source_dir, model.output_path)
           fresh == [id |-> StableID(paths.outputPath), export |-> "disable",
                     source |-> NoDigest, content |-> NoDigest, observed |-> NoDigest]
           computed == IF state = NoState THEN fresh
                       ELSE [state.computed EXCEPT !.export = "disable"]
<1>1. CASE Reply("plan", decoded, FALSE) /\ plan' = NoPlan
  BY <1>1, ReplyStands
<1>2. CASE /\ Reply("plan", {}, TRUE)
           /\ plan' = [model |-> model, seen |-> changes, computed |-> computed]
  <2>1. fresh.export = "disable"
    OBVIOUS
  <2>2. state # NoState => [state.computed EXCEPT !.export = "disable"].export = "disable"
    BY DEF OutputInv, Stored, Managed
  <2>3. computed.export = "disable"
    BY <2>1, <2>2
  <2> HIDE DEF computed
  <2>4. plan'.seen = changes /\ plan'.computed = computed
    BY <1>2
  <2>5. answer'.op = "plan" /\ call' = Idle
    BY <1>2 DEF Reply
  <2>6. PlanStands'
    BY <2>3, <2>4 DEF PlanStands, Settles, ApplyInv, DirectoryInv
  <2>7. DirectoryInv'
    BY DirectoryStays DEF ApplyInv
  <2>8. ApplyKeepsThePlan' /\ RefusedKeepsPlan' /\ Progress' /\ ServesTheModel'
    BY <2>5 DEF ApplyKeepsThePlan, RefusedKeepsPlan, Progress, ServesTheModel
  <2> QED
    BY <2>6, <2>7, <2>8 DEF ApplyInv
<1> QED
  BY <1>1, <1>2, Zenon DEF PlanDisabled

LEMMA PlanStartStands ==
  ASSUME OutputInv, ApplyInv, StartPlan
  PROVE  ApplyInv'
<1> DEFINE model == WithDefaults(config)
           paths == Resolve(model.source_dir, model.output_path)
<1>1. Settles
  BY DEF StartPlan, Settles
<1>2. CASE \E D, failure : Fail("plan", D, failure)
  BY <1>1, <1>2, FailStands
<1>3. CASE data = "disable" /\ PlanDisabled(model)
  BY <1>1, <1>3, PlanDisabledStands
<1>4. CASE data = "enable" /\ Start("plan", model, SpecFromModel(model), paths)
  BY <1>1, <1>4, StartStands
<1> QED
  BY <1>2, <1>3, <1>4, Zenon DEF StartPlan

LEMMA ApplyDisabledStands ==
  ASSUME LearningInv, HonestInv, ApplyInv, Settles, plan # NoPlan,
         NEW model \in Learned(plan.model), ApplyDisabled(model),
         plan.computed.export = "disable"
  PROVE  ApplyInv'
<1>1. DecodeDiagnostics(model) = {}
  BY DEF HonestInv, PlansDecode, LearningInv, LearnsWell, KeepsTheKnown
<1>2. /\ Reply("apply", {}, TRUE) /\ plan' = NoPlan
      /\ state' = [model |-> model, computed |-> plan.computed]
  BY <1>1, Zenon DEF ApplyDisabled
<1>3. answer'.done = TRUE /\ call' = Idle
  BY <1>2 DEF Reply
<1>4. state'.computed.export = "disable"
  BY <1>2
<1>5. PlanStands' /\ DirectoryInv'
  BY <1>2, PlanStays, DirectoryStays DEF ApplyInv
<1>6. ApplyKeepsThePlan' /\ RefusedKeepsPlan' /\ Progress' /\ ServesTheModel'
  BY <1>3, <1>4 DEF ApplyKeepsThePlan, RefusedKeepsPlan, Progress, ServesTheModel
<1> QED
  BY <1>5, <1>6 DEF ApplyInv

LEMMA ApplyStartStands ==
  ASSUME LearningInv, HonestInv, OutputInv, ApplyInv, StartApply
  PROVE  ApplyInv'
<1>1. PICK model \in Learned(plan.model) : Apply(model)
  BY DEF StartApply
<1> DEFINE decoded == DecodeDiagnostics(model)
           paths == Resolve(model.source_dir, model.output_path)
<1>2. Settles /\ plan # NoPlan
  BY DEF StartApply, Settles
<1>3. Managed(model, plan.computed)
  BY <1>1, <1>2, LearnedManaged DEF OutputInv, LearningInv
<1>4. CASE Fail("apply", {}, "Provider is not configured")
  BY <1>2, <1>4, FailStands DEF Excuses
<1>5. CASE /\ plan.computed.export # data
           /\ Fail("apply", decoded, "Provider export mode changed after planning")
  <2>1. ~Repeats
    BY <1>2, <1>5 DEF Repeats, ApplyInv, PlanStands
  <2> QED
    BY <1>2, <1>5, <2>1, FailStands
<1>6. CASE data = "disable" /\ plan.computed.export = data /\ ApplyDisabled(model)
  BY <1>1, <1>2, <1>6, ApplyDisabledStands
<1>7. CASE data = "enable" /\ plan.computed.export = data
  <2>1. ~Refused(model.source_dir, model.output_path) /\ plan.computed.id = StableID(paths.outputPath)
    BY <1>3, <1>7 DEF Managed, Resolved, StableID
  <2>2. CASE Start("apply", model, SpecFromModel(model), paths)
    BY <1>2, <1>7, <2>2, StartStands DEF ApplyInv, PlanStands
  <2>3. CASE Fail("apply", {}, "Provider is not configured")
    BY <1>4, <2>3
  <2>4. data = "enable" => data # "disable"
    OBVIOUS
  <2> QED
    BY <1>1, <1>7, <2>1, <2>2, <2>3, <2>4, Zenon DEF Apply
<1> QED
  BY <1>1, <1>4, <1>5, <1>6, <1>7, Zenon DEF Apply

LEMMA OtherStartsStand ==
  ASSUME ApplyInv, StartItems \/ StartConvert
  PROVE  ApplyInv'
<1>1. Settles
  BY DEF StartItems, StartConvert, Settles
<1>2. \E op \in {"items", "convert"} :
         \/ \E D, failure : Fail(op, D, failure)
         \/ \E D, done : Reply(op, D, done) /\ UNCHANGED <<state, disk, plan>>
         \/ \E model, spec, paths : Start(op, model, spec, paths)
  BY Zenon DEF StartItems, StartConvert
<1> QED
  BY <1>1, <1>2, FailStands, ReplyStands, StartStands

LEMMA StageStays ==
  ASSUME HonestInv, AcceptedInv, OutputInv, ApplyInv, Stage
  PROVE  ApplyInv'
<1>1. call # Idle /\ Settles /\ call.op = call.op
  BY DEF Stage, CheckOptions, ListDirectory, ReadFile, Loaded, MapGraph, Encode, Serving, Settles
<1>2. call.op = "apply" => plan # NoPlan
  BY <1>1 DEF OutputInv, ServesTheOutput
<1>3. StageStands
  BY StagesStand DEF ApplyInv, StageInv
<1>4. CASE Cancelled
  BY <1>1, <1>2, <1>4, FailStands DEF Cancelled, Excuses
<1>5. CASE StageEnds /\ ~(call.op = "apply" /\ Repeats)
  BY <1>1, <1>2, <1>5, FailStands DEF StageEnds
<1>6. CASE StageAdvances
  <2>1. PICK next : Continue(next) /\ SameRequest(next) /\ Advanced(next)
    BY <1>6 DEF StageAdvances
  <2>2. call' = next /\ UNCHANGED <<answer, plan, state, disk>>
    BY <2>1 DEF Continue
  <2>3. Progress'
    BY <1>1, <2>1, <2>2, AdvancedStays DEF Progress, Settles
  <2>4. ServesTheModel'
    BY <1>1, <2>1, <2>2 DEF ServesTheModel, ApplyInv, SameRequest, Settles
  <2>5. PlanStands' /\ DirectoryInv'
    BY <1>1, <2>2, PlanStays, DirectoryStays DEF ApplyInv
  <2>6. ApplyKeepsThePlan' /\ RefusedKeepsPlan'
    BY <1>1, <2>2 DEF ApplyInv, ApplyKeepsThePlan, RefusedKeepsPlan, Settles, At, Codes
  <2> QED
    BY <2>3, <2>4, <2>5, <2>6 DEF ApplyInv
<1>7. CASE ItemsAnswered
  BY <1>1, <1>7, ReplyStands DEF ItemsAnswered
<1> QED
  BY <1>3, <1>4, <1>5, <1>6, <1>7 DEF StageStands

\* The plan that is made stands.
LEMMA FinishPlanStands ==
  ASSUME OutputInv, ApplyInv, FinishPlan
  PROVE  ApplyInv'
<1> DEFINE computed == [id |-> StableID(call.output), export |-> "enable",
                        source |-> SourceDigest(call.files),
                        content |-> call.content, observed |-> call.content]
<1>1. /\ call # Idle /\ call.at = "finish" /\ call.op = "plan" /\ Settles
  BY DEF FinishPlan, Finishing, Serving, Settles
<1>2. CASE \E failure : Fail("plan", Reported, failure)
  BY <1>1, <1>2, FailStands
<1>3. CASE Reply("plan", Reported, FALSE) /\ plan' = NoPlan
  BY <1>1, <1>3, ReplyStands
<1>4. CASE /\ Reply("plan", Reported, TRUE)
           /\ plan' = [model |-> call.model, seen |-> call.seen, computed |-> computed]
  <2> DEFINE spec == SpecFromModel(call.model)
             source == Resolve(call.model.source_dir, call.model.output_path).sourceDir
  <2>1. data = "enable" /\ call.spec = spec /\ call.source = source
    BY <1>1 DEF ApplyInv, ServesTheModel
  <2>2. /\ call.seen \in Nat /\ call.seen <= changes
        /\ OptionDiagnostics(spec) = {} /\ Loadable(call.files) /\ Mappable(spec, call.files)
        /\ Encodable(spec, call.files) /\ call.content = ContentOf(spec, call.files)
        /\ call.seen = changes => call.files = FilesIn(source) /\ ReadableIn(source)
    BY <1>1, <2>1 DEF ApplyInv, Progress, Advanced
  <2>3. computed.export = "enable" /\ computed.source = call.files /\ computed.content = call.content
    BY DEF SourceDigest
  <2> HIDE DEF computed
  <2>4. plan'.model = call.model /\ plan'.seen = call.seen /\ plan'.computed = computed
    BY <1>4
  <2> PICK place, options : place = source /\ options = spec
    OBVIOUS
  <2>5. (FilesIn(place))' = FilesIn(place) /\ ((ReadableIn(place))' <=> ReadableIn(place))
    BY <1>1 DEF FilesIn, ReadableIn, FoundIn, Listing, Entries, Settles
  <2>6. /\ (Resolve(plan.model.source_dir, plan.model.output_path).sourceDir)' = place
        /\ SpecFromModel(plan.model)' = options
    BY <2>4
  <2> HIDE DEF spec, source
  <2>7. PlanStands'
    BY <1>1, <2>1, <2>2, <2>3, <2>4, <2>5, <2>6 DEF PlanStands, Settles
  <2>8. DirectoryInv'
    BY <1>1, DirectoryStays DEF ApplyInv
  <2>9. answer'.op = "plan" /\ call' = Idle
    BY <1>4 DEF Reply
  <2>10. ApplyKeepsThePlan' /\ RefusedKeepsPlan' /\ Progress' /\ ServesTheModel'
    BY <2>9 DEF ApplyKeepsThePlan, RefusedKeepsPlan, Progress, ServesTheModel
  <2> QED
    BY <2>7, <2>8, <2>10 DEF ApplyInv
<1> QED
  BY <1>2, <1>3, <1>4, Zenon DEF FinishPlan

\* What an apply writes shows the model it was called with.
LEMMA AppliedShows ==
  ASSUME LearningInv, HonestInv, OutputInv, ApplyInv,
         call # Idle, call.op = "apply", call.at = "finish"
  PROVE  Shows(call.model, call.files, call.content)
<1>1. /\ plan # NoPlan /\ call.model \in Learned(plan.model)
      /\ plan.computed.export = "enable" /\ Managed(plan.model, plan.computed)
  BY DEF OutputInv, ServesTheOutput
<1>2. Settled(call.model)
  BY <1>1 DEF LearningInv, LearnsWell
<1>3. Known(call.model.frame_id)
  <2>1. Managed(call.model, plan.computed)
    BY <1>1, LearnedManaged DEF LearningInv
  <2>2. "frame_id" \in MustBeKnown
    BY DEF MustBeKnown, SchemaDefaults
  <2> QED
    BY <1>1, <2>1, <2>2 DEF Managed, Resolved
<1>4. DecodeDiagnostics(call.model) = {}
  BY DEF HonestInv, PlansDecode
<1>5. AreSources(call.files) /\ call.content = ContentOf(SpecFromModel(call.model), call.files)
  BY DEF ApplyInv, Progress, Advanced, ServesTheModel
<1> QED
  BY <1>2, <1>3, <1>4, <1>5, ConversionShows DEF ContentOf

LEMMA FinishApplyStands ==
  ASSUME LearningInv, HonestInv, OutputInv, ApplyInv, FinishApply
  PROVE  ApplyInv'
<1> DEFINE failure == "XAL output write failed"
<1>1. /\ call # Idle /\ call.at = "finish" /\ call.op = "apply" /\ Settles
  BY DEF FinishApply, Finishing, Serving, Settles
<1>2. /\ plan # NoPlan /\ plan.computed.export = "enable"
      /\ call.output = plan.computed.id /\ ~Exists(call.output)
  BY <1>1 DEF OutputInv, ServesTheOutput, Managed
<1>3. Repeats => call.files = plan.computed.source /\ call.content = plan.computed.content
  <2> SUFFICES ASSUME Repeats
               PROVE  call.files = plan.computed.source /\ call.content = plan.computed.content
    OBVIOUS
  <2>1. call.seen = changes /\ plan.computed.source = FilesIn(call.source)
        /\ plan.computed.content = ContentOf(call.spec, FilesIn(call.source))
    BY <1>1, ApplyRepeats DEF ApplyInv
  <2> QED
    BY <1>1, <2>1 DEF ApplyInv, Progress, Advanced
<1>4. CASE /\ plan.computed.source # SourceDigest(call.files)
           /\ Fail("apply", Reported, "Terraform source changed after planning")
  BY <1>1, <1>2, <1>3, <1>4, FailStands DEF SourceDigest
<1>5. CASE /\ plan.computed.content # call.content
           /\ Fail("apply", Reported, "Generated XAL changed after planning")
  BY <1>1, <1>2, <1>3, <1>5, FailStands
<1>6. CASE Fail(call.op, Reported, failure)
  BY <1>1, <1>2, <1>6, FailStands DEF Excuses
<1>7. CASE Replace(Shown(call.op, Reported, failure)) /\ UNCHANGED <<state, plan>>
  <2> DEFINE shown == Shown(call.op, Reported, failure)
  <2>1. shown = Reported \cup {Error(failure)}
    BY DEF Shown, ErrConversion
  <2>2. HasErrors(shown) /\ Error(failure) \in shown /\ Error(failure).code \in Excuses
    BY <2>1, ErrorIsError, CodeOfError DEF Excuses
  <2> HIDE DEF shown
  <2>3. answer'.done = FALSE /\ answer'.diagnostics = shown /\ call' = Idle
    BY <1>7, <2>2 DEF Replace, shown
  <2> QED
    BY <1>1, <1>2, <1>7, <2>2, <2>3, RefusalStands
<1>8. ~HasErrors(Reported)
  <2>1. DecodeDiagnostics(call.model) = {}
    BY <1>1 DEF HonestInv, PlansDecode
  <2>2. Reported = Found
    BY <2>1 DEF Reported, Found
  <2> QED
    BY <1>1, <2>2 DEF HonestInv, WarningsJudged
<1>9. CASE /\ plan.computed.source = SourceDigest(call.files)
           /\ plan.computed.content = call.content
           /\ Replace(Reported) /\ plan' = NoPlan
           /\ state' = [model |-> call.model, computed |-> plan.computed]
  <2>1. /\ answer'.done = TRUE /\ call' = Idle
        /\ disk' = [p \in DOMAIN disk \cup {call.output} |->
                    IF p = call.output THEN call.content ELSE disk[p]]
    BY <1>8, <1>9 DEF Replace
  <2>2. state'.model = call.model /\ state'.computed = plan.computed
    BY <1>9
  <2> PICK place, content : place = call.output /\ content = call.content
    OBVIOUS
  <2>3. At(place)' = content
    <3>1. /\ disk' = [p \in DOMAIN disk \cup {place} |-> IF p = place THEN content ELSE disk[p]]
          /\ ~Exists(place)
      BY <1>2, <2>1
    <3>2. place \in DOMAIN disk' /\ disk'[place] = content
      BY <3>1
    <3> QED
      BY <3>1, <3>2 DEF At
  <2>4. Shows(call.model, plan.computed.source, plan.computed.content)
    BY <1>1, <1>9, AppliedShows DEF SourceDigest
  <2>5. /\ state'.computed.id = place /\ state'.computed.content = content
        /\ Shows(state'.model, state'.computed.source, state'.computed.content)
    BY <1>2, <1>9, <2>2, <2>4
  <2>6. ApplyKeepsThePlan' /\ RefusedKeepsPlan'
    BY <2>1, <2>3, <2>5 DEF ApplyKeepsThePlan, RefusedKeepsPlan
  <2>7. PlanStands' /\ DirectoryInv'
    BY <1>1, <1>9, PlanStays, DirectoryStays DEF ApplyInv
  <2>8. Progress' /\ ServesTheModel'
    BY <2>1 DEF Progress, ServesTheModel
  <2> QED
    BY <2>6, <2>7, <2>8 DEF ApplyInv
<1> QED
  BY <1>4, <1>5, <1>6, <1>7, <1>8, <1>9, Zenon DEF FinishApply, Write

LEMMA FinishConvertStands ==
  ASSUME ApplyInv, FinishConvert
  PROVE  ApplyInv'
<1>1. Settles /\ call.op = "convert"
  BY DEF FinishConvert, Finishing, Settles
<1>2. CASE \E D, failure : Fail(call.op, D, failure)
  BY <1>1, <1>2, FailStands
<1>3. ASSUME NEW D, Replace(D), plan' \in {plan, NoPlan}
      PROVE  ApplyInv'
  <2>1. answer'.op = call.op /\ call' = Idle
    BY <1>3 DEF Replace
  <2> QED
    BY <1>1, <1>3, <2>1, EndStands
<1>4. \/ \E D, failure : Fail(call.op, D, failure)
      \/ \E D : Replace(D) /\ (plan' = plan \/ plan' = NoPlan)
  BY Zenon DEF FinishConvert, Write
<1> QED
  BY <1>2, <1>3, <1>4

LEMMA ReadDeleteStand ==
  ASSUME ApplyInv, Read \/ Delete
  PROVE  ApplyInv'
<1>1. Settles /\ call = Idle
  BY DEF Read, Delete, Settles
<1>2. CASE \E op \in {"read", "delete"} : \E D, failure : Fail(op, D, failure)
  BY <1>1, <1>2, FailStands
<1>3. ASSUME NEW observed,
             answer' = [op |-> "read", diagnostics |-> {}, done |-> TRUE, wrote |-> FALSE,
                        value |-> observed],
             UNCHANGED <<call, plan>>
      PROVE  ApplyInv'
  <2>1. answer'.op = "read" /\ call' = Idle /\ plan' \in {plan, NoPlan}
    BY <1>1, <1>3
  <2> QED
    BY <1>1, <2>1, EndStands
<1>4. CASE \E D, done : Reply("delete", D, done) /\ (plan' = NoPlan \/ plan' = plan)
  BY <1>1, <1>4, ReplyStands
<1>5. \/ \E op \in {"read", "delete"} : \E D, failure : Fail(op, D, failure)
      \/ \E observed :
           /\ answer' = [op |-> "read", diagnostics |-> {}, done |-> TRUE, wrote |-> FALSE,
                         value |-> observed]
           /\ UNCHANGED <<call, plan>>
      \/ \E D, done : Reply("delete", D, done) /\ (plan' = NoPlan \/ plan' = plan)
  BY Zenon DEF Read, Delete
<1> QED
  BY <1>2, <1>3, <1>4, <1>5

LEMMA CancelStands ==
  ASSUME HonestInv, ApplyInv, Cancel
  PROVE  ApplyInv'
<1> DEFINE next == [call EXCEPT !.cancelled = TRUE]
<1>1. /\ call # Idle /\ call' = next /\ UNCHANGED <<state, disk, plan, answer>> /\ Settles
  BY DEF Cancel, Settles
<1>2. SameRequest(next) /\ next.at = call.at /\ next.left = call.left
      /\ next.files = call.files /\ next.content = call.content
  BY <1>1 DEF SameRequest, HonestInv, CallShape, Fields
<1> HIDE DEF next
<1>3. Advanced(next)
  BY <1>1, <1>2 DEF ApplyInv, Progress, Advanced, SameRequest
<1>4. Progress'
  BY <1>1, <1>3, AdvancedStays DEF Progress, Settles
<1>5. ServesTheModel'
  BY <1>1, <1>2 DEF ApplyInv, ServesTheModel, SameRequest, Settles
<1>6. PlanStands' /\ DirectoryInv'
  BY <1>1, PlanStays, DirectoryStays DEF ApplyInv
<1>7. ApplyKeepsThePlan' /\ RefusedKeepsPlan'
  BY <1>1 DEF ApplyInv, ApplyKeepsThePlan, RefusedKeepsPlan, Settles, At, Codes
<1> QED
  BY <1>4, <1>5, <1>6, <1>7 DEF ApplyInv

\* Sources that are edited are none of any request or plan any more.
LEMMA EditStands ==
  ASSUME ApplyInv, Edit
  PROVE  ApplyInv'
<1>1. /\ changes' = changes + 1 /\ UNCHANGED <<data, disk, state, plan, call, answer>>
      /\ \E e \in Edits : dir' = [dir EXCEPT ![e.name] = e.entry]
  BY DEF Edit
<1>2. DirectoryInv'
  <2>1. PICK e \in Edits : dir' = [dir EXCEPT ![e.name] = e.entry]
    BY <1>1
  <2>2. e.name \in ToSet(SourceNames) /\ IsSource(e.entry)
    BY RequestsAssumption
  <2> QED
    BY <1>1, <2>1, <2>2 DEF ApplyInv, DirectoryInv
<1>3. changes \in Nat
  BY DEF ApplyInv, DirectoryInv
<1>4. ASSUME NEW next, Advanced(next), call' = next
      PROVE  Advanced(call)'
  <2>1. next.seen \in Nat /\ next.seen <= changes' /\ next.seen # changes'
    BY <1>1, <1>3, <1>4 DEF Advanced
  <2> QED
    BY <1>4, <2>1 DEF Advanced
<1>5. Progress'
  BY <1>1, <1>4 DEF ApplyInv, Progress
<1>6. ServesTheModel'
  BY <1>1 DEF ApplyInv, ServesTheModel
<1>7. plan # NoPlan => plan.seen \in Nat /\ plan.seen <= changes
  BY DEF ApplyInv, PlanStands
<1>8. plan # NoPlan => plan.seen <= changes' /\ plan.seen # changes'
  BY <1>1, <1>3, <1>7
<1>9. PlanStands'
  BY <1>1, <1>7, <1>8 DEF ApplyInv, PlanStands
<1>10. ApplyKeepsThePlan' /\ RefusedKeepsPlan'
  BY <1>1, <1>8 DEF ApplyInv, ApplyKeepsThePlan, RefusedKeepsPlan, At, Codes
<1> QED
  BY <1>2, <1>5, <1>6, <1>9, <1>10 DEF ApplyInv

LEMMA ChangeExportStands ==
  ASSUME ApplyInv, ChangeExport
  PROVE  ApplyInv'
<1>1. /\ call = Idle /\ plan # NoPlan /\ changes' = changes + 1
      /\ UNCHANGED <<dir, disk, state, plan, call, answer>>
  BY DEF ChangeExport
<1>2. changes \in Nat /\ plan.seen \in Nat /\ plan.seen <= changes
  BY <1>1 DEF ApplyInv, DirectoryInv, PlanStands
<1>3. plan.seen <= changes' /\ plan.seen # changes' /\ changes' \in Nat
  BY <1>1, <1>2
<1>4. PlanStands' /\ DirectoryInv'
  BY <1>1, <1>3 DEF ApplyInv, PlanStands, DirectoryInv
<1>5. Progress' /\ ServesTheModel'
  BY <1>1 DEF Progress, ServesTheModel
<1>6. ApplyKeepsThePlan' /\ RefusedKeepsPlan'
  BY <1>1, <1>3 DEF ApplyInv, ApplyKeepsThePlan, RefusedKeepsPlan, At, Codes
<1> QED
  BY <1>4, <1>5, <1>6 DEF ApplyInv

LEMMA OthersStand ==
  ASSUME ApplyInv, Evaluate \/ UNCHANGED vars
  PROVE  ApplyInv'
<1>1. /\ UNCHANGED <<disk, state, plan, call>> /\ Settles
      /\ answer' = NoAnswer \/ UNCHANGED answer
  BY DEF Evaluate, vars, Settles
<1>2. Progress'
  BY <1>1, AdvancedStays DEF ApplyInv, Progress, Settles
<1>3. ServesTheModel'
  BY <1>1 DEF ApplyInv, ServesTheModel, Settles
<1>4. PlanStands' /\ DirectoryInv'
  BY <1>1, PlanStays, DirectoryStays DEF ApplyInv
<1>5. ApplyKeepsThePlan' /\ RefusedKeepsPlan'
  BY <1>1 DEF ApplyInv, ApplyKeepsThePlan, RefusedKeepsPlan, Settles, At, Codes
<1> QED
  BY <1>2, <1>3, <1>4, <1>5 DEF ApplyInv

-----------------------------------------------------------------------------

LEMMA ApplyInit ==
  ASSUME Init
  PROVE  ApplyInv
<1>1. PICK s \in Starts : dir = s.dir /\ changes = s.changes
  BY DEF Init
<1>2. DirectoryInv
  BY <1>1, RequestsAssumption DEF DirectoryInv
<1> QED
  BY <1>2 DEF Init, ApplyInv, ApplyKeepsThePlan, Progress, ServesTheModel, PlanStands,
              RefusedKeepsPlan

LEMMA ApplyNext ==
  ASSUME LearningInv, HonestInv, AcceptedInv, OutputInv, ApplyInv, [Next]_vars
  PROVE  ApplyInv'
<1>1. CASE ValidateProvider \/ ValidateResource \/ Configure
  BY <1>1, ValidationStands
<1>2. CASE StartPlan \/ StartApply \/ StartItems \/ StartConvert
  BY <1>2, PlanStartStands, ApplyStartStands, OtherStartsStand
<1>3. CASE Stage
  BY <1>3, StageStays
<1>4. CASE FinishPlan \/ FinishApply \/ FinishConvert
  BY <1>4, FinishPlanStands, FinishApplyStands, FinishConvertStands
<1>5. CASE Read \/ Delete \/ Cancel
  BY <1>5, ReadDeleteStand, CancelStands
<1>6. CASE Evaluate \/ Edit \/ ChangeExport \/ UNCHANGED vars
  BY <1>6, OthersStand, EditStands, ChangeExportStands
<1> QED
  BY <1>1, <1>2, <1>3, <1>4, <1>5, <1>6, Zenon DEF Next, Stage

\* An apply that succeeds has put on disk the document that was planned, and the
\* document shows the blocks, gaps, titles and addresses as they are known in the
\* end; one fails only where the sources or the export mode changed since the plan,
\* the plan had unknown values, or the request was cancelled, its write failed or
\* the provider was not configured.
THEOREM RequestsApplyKeepsThePlan == Spec => []ApplyKeepsThePlan
<1>1. ApplyInv => ApplyKeepsThePlan
  BY DEF ApplyInv
<1> QED
  BY <1>1, LearningInit, LearningNext, HonestInit, HonestNext, AcceptedInit, AcceptedNext,
     OutputInit, OutputNext, ApplyInit, ApplyNext, PTL DEF Spec
==============================================================================
