------------------------ MODULE DiagramLifecycleProofs ------------------------
(*****************************************************************************)
(* Proofs about the life of xaligo_diagram resources, for any resources,     *)
(* outputs, sources, builds and links and any number of changes.             *)
(*                                                                           *)
(* The properties speak of a step between a plan and the state that it       *)
(* becomes; what has to be remembered in between is said by PlansAreComplete *)
(* (a plan with export enabled promises one content throughout),             *)
(* WritingIsPlanned (bytes on their way are those of the plan) and           *)
(* DigestsAreAuthored (a managed digest was reported as written).            *)
(*****************************************************************************)
EXTENDS DiagramLifecycle, TLAPS

\* What settings, sources, builds and links range over.
WorldOK ==
  /\ source \in Sources
  /\ build \in Builds
  /\ export \in {"enable", "disable"}
  /\ link \in Links
  /\ overwrite \in [Resources -> BOOLEAN]
  /\ wanted \in [Resources -> BOOLEAN]

HasPlan(r, export_) ==
  plan[r] # NoPlan /\ plan[r].kind = "apply" /\ plan[r].want.export = export_

\* A plan with export enabled promises one content, also as the observation.
PlansAreComplete ==
  \A r \in Resources : HasPlan(r, "enable") =>
    plan[r].want.content \in Contents /\ plan[r].want.observed = plan[r].want.content

\* A plan with export disabled keeps the managed digest of the state, which
\* nothing changes as long as the plan is there.
DisabledKeepsDigest ==
  \A r \in Resources : HasPlan(r, "disable") => plan[r].want.content = ManagedDigest(r)

\* An Apply writes the content of its plan to the output of its plan.
WritingIsPlanned ==
  \A r \in Resources : writing[r] # NoWrite =>
    /\ HasPlan(r, "enable")
    /\ plan[r].want.id = writing[r].file
    /\ plan[r].want.source = writing[r].source
    /\ plan[r].want.content = writing[r].content

\* A resource manages nothing but what it has reported as written.
DigestsAreAuthored ==
  \A r \in Resources : ManagedDigest(r) \in {NoDigest, authored[r]}

\* The inductive invariant.
LifecycleInv ==
  /\ LifecycleTypeOK
  /\ WorldOK
  /\ PlansAreComplete
  /\ DisabledKeepsDigest
  /\ WritingIsPlanned
  /\ DigestsAreAuthored

USE LifecycleAssumption, ValuesDistinct

-------------------------------------------------------------------------------

LEMMA LifecycleInit == Init => LifecycleInv
<1> SUFFICES ASSUME Init PROVE LifecycleInv
  OBVIOUS
<1>1. LifecycleTypeOK
  BY DEF Init, LifecycleTypeOK, OutputValues, Digests
<1>2. WorldOK
  BY DEF Init, WorldOK
<1>3. PlansAreComplete /\ DisabledKeepsDigest /\ WritingIsPlanned /\ DigestsAreAuthored
  BY DEF Init, PlansAreComplete, DisabledKeepsDigest, WritingIsPlanned,
         DigestsAreAuthored, HasPlan, ManagedDigest
<1> QED
  BY <1>1, <1>2, <1>3 DEF LifecycleInv

-------------------------------------------------------------------------------
(* What a plan promises.                                                     *)

\* Whatever Planned returns is a value the state can take.  Enabled, it
\* promises a content, disabled the digest that is managed already.
LEMMA PlannedValues ==
  ASSUME LifecycleTypeOK, WorldOK, NEW r \in Resources, NEW want \in Planned(r)
  PROVE  /\ want \in ResourceStates
         /\ want.export = "enable" =>
              /\ want.content \in Contents
              /\ want.observed = want.content
              /\ want.id = Output(r)
         /\ want.export = "disable" => want.content = ManagedDigest(r)
<1>1. CASE export = "disable" /\ state[r] = NoState
  <2>1. want = [id |-> LexicalId, export |-> "disable", source |-> NoDigest,
                content |-> NoDigest, observed |-> NoDigest, overwrite |-> overwrite[r]]
    BY <1>1 DEF Planned, PlannedDisabled
  <2> QED
    BY <1>1, <2>1 DEF ResourceStates, Digests, ManagedDigest, WorldOK
<1>2. CASE export = "disable" /\ state[r] # NoState
  <2>1. want = [state[r] EXCEPT !.export = "disable", !.overwrite = overwrite[r]]
    BY <1>2 DEF Planned, PlannedDisabled
  <2>2. state[r] \in ResourceStates
    BY <1>2 DEF LifecycleTypeOK
  <2> QED
    BY <1>2, <2>1, <2>2 DEF ResourceStates, ManagedDigest, WorldOK
<1>3. CASE export = "enable"
  <2>1. want = PlannedEnabled(r) /\ Converted[build][source] # Invalid
    BY <1>3 DEF Planned
  <2>2. Converted[build][source] \in Contents /\ Output(r) \in Files
    BY <2>1 DEF WorldOK, Output
  <2> QED
    BY <2>1, <2>2 DEF PlannedEnabled, ResourceStates, Digests, WorldOK
<1> QED
  BY <1>1, <1>2, <1>3 DEF WorldOK

-------------------------------------------------------------------------------
(* One lemma per action that touches a resource, one for the rest.           *)

LEMMA ReadInv ==
  ASSUME LifecycleInv, NEW r \in Resources, Read(r)
  PROVE  LifecycleInv'
<1> DEFINE next == [state[r] EXCEPT !.observed = Observed(r)]
<1> USE DEF LifecycleInv
<1>1. /\ state' = [state EXCEPT ![r] = next]
      /\ plan' = [plan EXCEPT ![r] = NoPlan]
      /\ writing[r] = NoWrite
      /\ UNCHANGED <<file, writer, world, writing, authored>>
  BY DEF Read
<1>2. Observed(r) \in Digests
  <2>1. file[OutputAsConfigured(r)] \in OutputValues /\ file[OutputAsConfigured(r)] # Irregular
    BY DEF Read, OutputAsConfigured, LifecycleTypeOK, WorldOK
  <2> QED
    BY <2>1 DEF Observed, OutputValues, Digests
<1>3. state[r] \in ResourceStates /\ state[r] # NoState
  BY DEF Read, LifecycleTypeOK
<1>4. next \in ResourceStates /\ next.content = state[r].content /\ next # NoState
  BY <1>2, <1>3 DEF ResourceStates
<1>5. \A q \in Resources : ManagedDigest(q)' = ManagedDigest(q)
  BY <1>1, <1>3, <1>4 DEF ManagedDigest, LifecycleTypeOK
<1>6. LifecycleTypeOK'
  BY <1>1, <1>4 DEF LifecycleTypeOK
<1>7. WorldOK'
  BY <1>1 DEF WorldOK, world
<1>8. PlansAreComplete' /\ WritingIsPlanned'
  BY <1>1 DEF PlansAreComplete, WritingIsPlanned, HasPlan, LifecycleTypeOK
<1>9. DisabledKeepsDigest'
  BY <1>1, <1>5 DEF DisabledKeepsDigest, HasPlan, LifecycleTypeOK
<1>10. DigestsAreAuthored'
  BY <1>1, <1>5 DEF DigestsAreAuthored
<1> QED
  BY <1>6, <1>7, <1>8, <1>9, <1>10

LEMMA PlanInv ==
  ASSUME LifecycleInv, NEW r \in Resources, Plan(r)
  PROVE  LifecycleInv'
<1> USE DEF LifecycleInv
<1>1. PICK want \in Planned(r) :
        plan' = [plan EXCEPT ![r] = [kind |-> "apply", want |-> want]]
  BY DEF Plan
<1>2. writing[r] = NoWrite /\ UNCHANGED <<file, writer, world, state, writing, authored>>
  BY DEF Plan
<1>3. /\ want \in ResourceStates
      /\ want.export = "enable" => want.content \in Contents /\ want.observed = want.content
      /\ want.export = "disable" => want.content = ManagedDigest(r)
  BY PlannedValues
<1>4. plan'[r] = [kind |-> "apply", want |-> want] /\ plan'[r] \in Plans
  BY <1>1, <1>3 DEF LifecycleTypeOK, Plans
<1>5. \A q \in Resources \ {r} : plan'[q] = plan[q]
  BY <1>1 DEF LifecycleTypeOK
<1>6. LifecycleTypeOK'
  <2>1. plan' \in [Resources -> Plans \cup {NoPlan}]
    BY <1>1, <1>4 DEF LifecycleTypeOK
  <2> QED
    BY <1>2, <1>5, <2>1 DEF LifecycleTypeOK
<1>7. WorldOK'
  BY <1>2 DEF WorldOK, world
<1>8. PlansAreComplete'
  BY <1>3, <1>4, <1>5 DEF PlansAreComplete, HasPlan
<1>9. DisabledKeepsDigest'
  BY <1>2, <1>3, <1>4, <1>5 DEF DisabledKeepsDigest, HasPlan, ManagedDigest
<1>10. WritingIsPlanned'
  BY <1>2, <1>5 DEF WritingIsPlanned, HasPlan
<1>11. DigestsAreAuthored'
  BY <1>2 DEF DigestsAreAuthored, ManagedDigest
<1> QED
  BY <1>6, <1>7, <1>8, <1>9, <1>10, <1>11

\* A plan to destroy, a plan that is thrown away and an Apply that reports an
\* error have one thing in common: only the plan of r changes.
LEMMA PlanEndsInv ==
  ASSUME LifecycleInv, NEW r \in Resources, writing[r] = NoWrite,
         \/ plan' = [plan EXCEPT ![r] = NoPlan]
         \/ plan' = [plan EXCEPT ![r] = [kind |-> "destroy"]],
         UNCHANGED <<file, writer, world, state, writing, authored>>
  PROVE  LifecycleInv'
<1> USE DEF LifecycleInv
<1>1. \A q \in Resources \ {r} : plan'[q] = plan[q]
  BY DEF LifecycleTypeOK
<1>2. plan'[r] = NoPlan \/ plan'[r] = [kind |-> "destroy"]
  BY DEF LifecycleTypeOK
<1>3. plan' \in [Resources -> Plans \cup {NoPlan}]
  <2>1. [kind |-> "destroy"] \in Plans
    BY DEF Plans
  <2> QED
    BY <2>1 DEF LifecycleTypeOK
<1>4. LifecycleTypeOK'
  BY <1>1, <1>3 DEF LifecycleTypeOK
<1>5. WorldOK'
  BY DEF WorldOK, world
<1>6. \A export_ \in {"enable", "disable"} : ~HasPlan(r, export_)'
  BY <1>2 DEF HasPlan
<1>7. PlansAreComplete' /\ DisabledKeepsDigest'
  BY <1>1, <1>6 DEF PlansAreComplete, DisabledKeepsDigest, HasPlan, ManagedDigest
<1>8. WritingIsPlanned' /\ DigestsAreAuthored'
  BY <1>1 DEF WritingIsPlanned, DigestsAreAuthored, HasPlan, ManagedDigest
<1> QED
  BY <1>4, <1>5, <1>7, <1>8

\* The end of an operation of r: its plan is spent, nothing is on its way, and
\* what it manages now is what it managed, what it has just reported, or
\* nothing any more.
LEMMA OperationEndsInv ==
  ASSUME LifecycleInv, NEW r \in Resources,
         file' \in [Files -> OutputValues],
         writer' \in [Files -> Resources \cup {Nobody, Outsider}],
         UNCHANGED world,
         NEW next \in ResourceStates \cup {NoState},
         state' = [state EXCEPT ![r] = next],
         plan' = [plan EXCEPT ![r] = NoPlan],
         writing'[r] = NoWrite,
         writing' = [writing EXCEPT ![r] = NoWrite],
         NEW reported \in Digests,
         authored' = [authored EXCEPT ![r] = reported],
         next = NoState \/ next.content \in {NoDigest, reported}
  PROVE  LifecycleInv'
<1> USE DEF LifecycleInv
<1>1. \A q \in Resources \ {r} : /\ plan'[q] = plan[q]
                                /\ writing'[q] = writing[q]
                                /\ authored'[q] = authored[q]
                                /\ ManagedDigest(q)' = ManagedDigest(q)
  BY DEF LifecycleTypeOK, ManagedDigest
<1>2. /\ state'[r] = next /\ plan'[r] = NoPlan /\ writing'[r] = NoWrite
      /\ authored'[r] = reported
  BY DEF LifecycleTypeOK
<1>3. LifecycleTypeOK'
  <2>1. /\ state' \in [Resources -> ResourceStates \cup {NoState}]
        /\ plan' \in [Resources -> Plans \cup {NoPlan}]
        /\ authored' \in [Resources -> Digests]
    BY DEF LifecycleTypeOK
  <2>2. writing' \in [Resources -> [file : Files, source : Sources, content : Contents]
                                     \cup {NoWrite}]
    BY DEF LifecycleTypeOK
  <2>3. \A q \in Resources : writing'[q] # NoWrite =>
          plan'[q] # NoPlan /\ plan'[q].kind = "apply" /\ plan'[q].want.export = "enable"
    BY <1>1, <1>2 DEF LifecycleTypeOK
  <2> QED
    BY <2>1, <2>2, <2>3 DEF LifecycleTypeOK
<1>4. WorldOK'
  BY DEF WorldOK, world
<1>5. \A export_ : ~HasPlan(r, export_)'
  BY <1>2 DEF HasPlan
<1>6. PlansAreComplete' /\ DisabledKeepsDigest' /\ WritingIsPlanned'
  BY <1>1, <1>2, <1>5 DEF PlansAreComplete, DisabledKeepsDigest, WritingIsPlanned, HasPlan
<1>7. ManagedDigest(r)' \in {NoDigest, authored'[r]}
  BY <1>2 DEF ManagedDigest
<1>8. DigestsAreAuthored'
  BY <1>1, <1>7 DEF DigestsAreAuthored
<1> QED
  BY <1>3, <1>4, <1>6, <1>8

LEMMA ApplyDisabledInv ==
  ASSUME LifecycleInv, NEW r \in Resources, ApplyDisabled(r)
  PROVE  LifecycleInv'
<1> USE DEF LifecycleInv
<1>1. HasPlan(r, "disable") /\ writing[r] = NoWrite
  BY DEF ApplyDisabled, Applying, HasPlan
<1>2. plan[r].want \in ResourceStates
  BY <1>1 DEF LifecycleTypeOK, Plans, HasPlan
<1>3. plan[r].want.content \in {NoDigest, authored[r]}
  BY <1>1 DEF DisabledKeepsDigest, DigestsAreAuthored
<1>4. /\ UNCHANGED <<file, writer, world, writing, authored>>
      /\ state' = [state EXCEPT ![r] = plan[r].want]
      /\ plan' = [plan EXCEPT ![r] = NoPlan]
  BY DEF ApplyDisabled
<1>5. /\ writing' = [writing EXCEPT ![r] = NoWrite] /\ writing'[r] = NoWrite
      /\ authored' = [authored EXCEPT ![r] = authored[r]] /\ authored[r] \in Digests
  BY <1>1, <1>4 DEF LifecycleTypeOK
<1> QED
  BY <1>2, <1>3, <1>4, <1>5, OperationEndsInv DEF LifecycleTypeOK

LEMMA ApplyConvertInv ==
  ASSUME LifecycleInv, NEW r \in Resources, ApplyConvert(r)
  PROVE  LifecycleInv'
<1> DEFINE w == [file |-> Output(r), source |-> source, content |-> Converted[build][source]]
<1> USE DEF LifecycleInv
<1>1. HasPlan(r, "enable") /\ StillAsPlanned(r, plan[r].want)
  BY DEF ApplyConvert, Applying, HasPlan
<1>2. /\ writing' = [writing EXCEPT ![r] = w]
      /\ UNCHANGED <<file, writer, world, state, plan, authored>>
  BY DEF ApplyConvert
<1>3. w \in [file : Files, source : Sources, content : Contents]
  <2>1. Converted[build][source] \in Contents
    BY <1>1 DEF PlansAreComplete, StillAsPlanned
  <2> QED
    BY <2>1 DEF WorldOK, Output
<1>4. writing'[r] = w /\ \A q \in Resources \ {r} : writing'[q] = writing[q]
  BY <1>2 DEF LifecycleTypeOK
<1>5. LifecycleTypeOK'
  <2>1. writing' \in [Resources -> [file : Files, source : Sources, content : Contents]
                                     \cup {NoWrite}]
    BY <1>2, <1>3 DEF LifecycleTypeOK
  <2> QED
    BY <1>1, <1>2, <1>4, <2>1 DEF LifecycleTypeOK, HasPlan
<1>6. WritingIsPlanned'
  BY <1>1, <1>2, <1>4 DEF WritingIsPlanned, HasPlan, StillAsPlanned
<1>7. WorldOK' /\ PlansAreComplete' /\ DisabledKeepsDigest' /\ DigestsAreAuthored'
  BY <1>2 DEF WorldOK, world, PlansAreComplete, DisabledKeepsDigest, DigestsAreAuthored,
              HasPlan, ManagedDigest
<1> QED
  BY <1>5, <1>6, <1>7

\* What ApplyWrite stores is the plan: source, content and observation are
\* overwritten with what they are already.
LEMMA StoredIsPlanned ==
  ASSUME LifecycleInv, NEW r \in Resources, writing[r] # NoWrite
  PROVE  /\ plan[r].want \in ResourceStates
         /\ writing[r] \in [file : Files, source : Sources, content : Contents]
         /\ [plan[r].want EXCEPT !.source = writing[r].source,
                                 !.content = writing[r].content,
                                 !.observed = writing[r].content] = plan[r].want
         /\ plan[r].want.content = writing[r].content
         /\ plan[r].want.observed = writing[r].content
         /\ plan[r].want.id = writing[r].file
         /\ plan[r].want.export = "enable"
         /\ plan[r].kind = "apply"
<1> USE DEF LifecycleInv
<1>1. HasPlan(r, "enable")
  BY DEF WritingIsPlanned
<1>2. plan[r].want \in ResourceStates
  BY <1>1 DEF LifecycleTypeOK, Plans, HasPlan
<1>3. /\ plan[r].want.source = writing[r].source
      /\ plan[r].want.content = writing[r].content
      /\ plan[r].want.observed = writing[r].content
  BY <1>1 DEF WritingIsPlanned, PlansAreComplete
<1>4. [plan[r].want EXCEPT !.source = writing[r].source,
                           !.content = writing[r].content,
                           !.observed = writing[r].content] = plan[r].want
  BY <1>2, <1>3 DEF ResourceStates
<1> QED
  BY <1>1, <1>2, <1>3, <1>4 DEF LifecycleTypeOK, HasPlan, WritingIsPlanned

LEMMA ApplyWriteInv ==
  ASSUME LifecycleInv, NEW r \in Resources, ApplyWrite(r)
  PROVE  LifecycleInv'
<1> DEFINE w == writing[r]
<1> USE DEF LifecycleInv
<1>1. w # NoWrite
  BY DEF ApplyWrite
<1>2. /\ plan[r].want \in ResourceStates
      /\ w \in [file : Files, source : Sources, content : Contents]
      /\ plan[r].want.content = w.content
  BY <1>1, StoredIsPlanned
<1>3. /\ UNCHANGED world
      /\ file' = [file EXCEPT ![w.file] = w.content]
      /\ writer' = [writer EXCEPT ![w.file] = r]
      /\ plan' = [plan EXCEPT ![r] = NoPlan]
      /\ writing' = [writing EXCEPT ![r] = NoWrite] /\ writing'[r] = NoWrite
  BY DEF ApplyWrite, LifecycleTypeOK
<1>4. /\ file' \in [Files -> OutputValues]
      /\ writer' \in [Files -> Resources \cup {Nobody, Outsider}]
  BY <1>2, <1>3 DEF LifecycleTypeOK, OutputValues
<1>5. CASE /\ state' = [state EXCEPT ![r] =
                         [plan[r].want EXCEPT !.source = w.source, !.content = w.content,
                                              !.observed = w.content]]
           /\ authored' = [authored EXCEPT ![r] = w.content]
  <2>1. state' = [state EXCEPT ![r] = plan[r].want]
    BY <1>1, <1>5, StoredIsPlanned
  <2>2. w.content \in Digests
    BY <1>2 DEF Digests
  <2> QED
    BY <1>2, <1>3, <1>4, <1>5, <2>1, <2>2, OperationEndsInv
<1>6. CASE UNCHANGED <<state, authored>>
  <2>1. /\ state' = [state EXCEPT ![r] = state[r]]
        /\ authored' = [authored EXCEPT ![r] = authored[r]] /\ authored[r] \in Digests
        /\ state[r] \in ResourceStates \cup {NoState}
    BY <1>6 DEF LifecycleTypeOK
  <2>2. state[r] = NoState \/ state[r].content \in {NoDigest, authored[r]}
    BY DEF DigestsAreAuthored, ManagedDigest
  <2> QED
    BY <1>3, <1>4, <2>1, <2>2, OperationEndsInv
<1> QED
  BY <1>5, <1>6 DEF ApplyWrite

LEMMA ApplyWriteFailsInv ==
  ASSUME LifecycleInv, NEW r \in Resources, ApplyWriteFails(r)
  PROVE  LifecycleInv'
<1> USE DEF LifecycleInv
<1>1. /\ UNCHANGED <<file, writer, world, state, authored>>
      /\ plan' = [plan EXCEPT ![r] = NoPlan]
      /\ writing' = [writing EXCEPT ![r] = NoWrite] /\ writing'[r] = NoWrite
  BY DEF ApplyWriteFails, LifecycleTypeOK
<1>2. /\ state' = [state EXCEPT ![r] = state[r]]
      /\ authored' = [authored EXCEPT ![r] = authored[r]] /\ authored[r] \in Digests
      /\ state[r] \in ResourceStates \cup {NoState}
  BY <1>1 DEF LifecycleTypeOK
<1>3. state[r] = NoState \/ state[r].content \in {NoDigest, authored[r]}
  BY DEF DigestsAreAuthored, ManagedDigest
<1> QED
  BY <1>1, <1>2, <1>3, OperationEndsInv DEF LifecycleTypeOK

LEMMA DestroyInv ==
  ASSUME LifecycleInv, NEW r \in Resources, DestroyRemoves(r) \/ DestroyPreserves(r)
  PROVE  LifecycleInv'
<1> DEFINE f == OutputAsConfigured(r)
<1> USE DEF LifecycleInv
<1>1. writing[r] = NoWrite
  BY DEF DestroyRemoves, DestroyPreserves, Destroying, LifecycleTypeOK
<1>2. /\ UNCHANGED <<world, writing, authored>>
      /\ plan' = [plan EXCEPT ![r] = NoPlan]
      /\ state' = [state EXCEPT ![r] = NoState] \/ state' = state
  BY DEF DestroyRemoves, DestroyPreserves, StateDropped
<1>3. /\ file' \in [Files -> OutputValues]
      /\ writer' \in [Files -> Resources \cup {Nobody, Outsider}]
  BY DEF DestroyRemoves, DestroyPreserves, LifecycleTypeOK, OutputValues
<1>4. PICK next \in {NoState, state[r]} : state' = [state EXCEPT ![r] = next]
  BY <1>2 DEF LifecycleTypeOK
<1>5. /\ next \in ResourceStates \cup {NoState}
      /\ authored' = [authored EXCEPT ![r] = authored[r]] /\ authored[r] \in Digests
      /\ writing' = [writing EXCEPT ![r] = NoWrite] /\ writing'[r] = NoWrite
  BY <1>1, <1>2 DEF LifecycleTypeOK
<1>6. next = NoState \/ next.content \in {NoDigest, authored[r]}
  BY DEF DigestsAreAuthored, ManagedDigest
<1> QED
  BY <1>2, <1>3, <1>4, <1>5, <1>6, OperationEndsInv

\* Generate, changes of the world and other programs leave everything alone
\* that a resource remembers.
LEMMA OthersInv ==
  ASSUME LifecycleInv,
         \/ \E r \in Resources, force \in BOOLEAN : Generate(r, force)
         \/ WorldChanges
         \/ \E f \in Files, v \in OutputValues : OutsideWrite(f, v)
         \/ UNCHANGED vars
  PROVE  LifecycleInv'
<1> USE DEF LifecycleInv
<1>1. UNCHANGED <<state, plan, writing, authored>>
  BY DEF Generate, WorldChanges, OutsideWrite, vars
<1>2. file' \in [Files -> OutputValues] /\ writer' \in [Files -> Resources \cup {Nobody, Outsider}]
  <2>1. CASE \E r \in Resources, force \in BOOLEAN : Generate(r, force)
    <3>1. PICK r \in Resources : \E force \in BOOLEAN : Generate(r, force)
      BY <2>1
    <3>2. Output(r) \in Files /\ Converted[build][source] \in Contents
      BY <3>1 DEF Generate, WorldOK, Output
    <3> QED
      BY <3>1, <3>2 DEF Generate, LifecycleTypeOK, OutputValues
  <2>2. CASE WorldChanges \/ UNCHANGED vars
    BY <2>2 DEF WorldChanges, vars, LifecycleTypeOK
  <2>3. CASE \E f \in Files, v \in OutputValues : OutsideWrite(f, v)
    BY <2>3 DEF OutsideWrite, LifecycleTypeOK
  <2> QED
    BY <2>1, <2>2, <2>3
<1>3. LifecycleTypeOK'
  BY <1>1, <1>2 DEF LifecycleTypeOK
<1>4. WorldOK'
  BY DEF Generate, WorldChanges, OutsideWrite, vars, WorldOK
<1>5. PlansAreComplete' /\ DisabledKeepsDigest' /\ WritingIsPlanned' /\ DigestsAreAuthored'
  BY <1>1 DEF PlansAreComplete, DisabledKeepsDigest, WritingIsPlanned, DigestsAreAuthored,
              HasPlan, ManagedDigest
<1> QED
  BY <1>3, <1>4, <1>5

LEMMA LifecycleNext == LifecycleInv /\ [Next]_vars => LifecycleInv'
<1> SUFFICES ASSUME LifecycleInv, [Next]_vars PROVE LifecycleInv'
  OBVIOUS
<1>1. CASE \E r \in Resources : Terraform(r)
  <2>1. PICK r \in Resources : Terraform(r)
    BY <1>1
  <2>2. CASE Read(r)
    BY <2>2, ReadInv
  <2>3. CASE Plan(r)
    BY <2>3, PlanInv
  <2>4. CASE PlanDestroy(r) \/ DiscardPlan(r) \/ ApplyRejected(r)
    BY <2>4, PlanEndsInv DEF PlanDestroy, DiscardPlan, ApplyRejected, Applying
  <2>5. CASE ApplyDisabled(r)
    BY <2>5, ApplyDisabledInv
  <2>6. CASE ApplyConvert(r)
    BY <2>6, ApplyConvertInv
  <2>7. CASE ApplyWrite(r)
    BY <2>7, ApplyWriteInv
  <2>8. CASE ApplyWriteFails(r)
    BY <2>8, ApplyWriteFailsInv
  <2>9. CASE DestroyRemoves(r) \/ DestroyPreserves(r)
    BY <2>9, DestroyInv
  <2> QED
    BY <2>1, <2>2, <2>3, <2>4, <2>5, <2>6, <2>7, <2>8, <2>9 DEF Terraform, Apply
<1>2. CASE \/ \E r \in Resources, force \in BOOLEAN : Generate(r, force)
           \/ WorldChanges
           \/ \E f \in Files, v \in OutputValues : OutsideWrite(f, v)
           \/ UNCHANGED vars
  BY <1>2, OthersInv
<1> QED
  BY <1>1, <1>2 DEF Next

\* In every state that can be reached the variables have their values and what
\* is remembered between plan and apply is coherent.
THEOREM LifecycleInvariant == Spec => []LifecycleInv
<1> QED
  BY LifecycleInit, LifecycleNext, PTL DEF Spec

\* The variables keep their types, and an Apply that writes has an enabled plan
\* (diagram_resource.go, what Terraform stores).
THEOREM LifecycleTypes == Spec => []LifecycleTypeOK
<1>1. LifecycleInv => LifecycleTypeOK
  BY DEF LifecycleInv
<1> QED
  BY LifecycleInvariant, <1>1, PTL
-------------------------------------------------------------------------------
(* Who changes an output.                                                    *)

\* A step in which r changes output f is its ApplyWrite to f or its Delete of f.
LEMMA OnlyWritesAndDeletes ==
  ASSUME LifecycleInv, [Next]_vars,
         NEW r \in Resources, NEW f \in Files, ChangedBy(r, f)
  PROVE  \/ ApplyWrite(r) /\ f = writing[r].file /\ file'[f] = writing[r].content
         \/ DestroyRemoves(r) /\ f = OutputAsConfigured(r) /\ file'[f] = Absent
<1> USE DEF LifecycleInv
<1>1. file'[f] # file[f] /\ file' # file
  BY DEF ChangedBy
<1>2. \/ writing[r] # NoWrite /\ writing'[r] = NoWrite
      \/ plan[r] # NoPlan /\ plan'[r] = NoPlan
  BY DEF ChangedBy, Destroying
<1>3. \E q \in Resources : ApplyWrite(q) \/ DestroyRemoves(q)
  <2>1. UNCHANGED <<writing, plan>> => FALSE
    BY <1>2
  <2>2. ~UNCHANGED vars /\ ~WorldChanges
    BY <1>1 DEF vars, WorldChanges
  <2>3. ~\E q \in Resources, force \in BOOLEAN : Generate(q, force)
    BY <2>1 DEF Generate
  <2>4. ~\E g \in Files, v \in OutputValues : OutsideWrite(g, v)
    BY <2>1 DEF OutsideWrite
  <2>5. PICK q \in Resources : Terraform(q)
    BY <2>2, <2>3, <2>4 DEF Next
  <2>6. ~Read(q) /\ ~Plan(q) /\ ~PlanDestroy(q) /\ ~DiscardPlan(q) /\ ~ApplyRejected(q)
    BY <1>1 DEF Read, Plan, PlanDestroy, DiscardPlan, ApplyRejected
  <2>7. ~ApplyDisabled(q) /\ ~ApplyConvert(q) /\ ~ApplyWriteFails(q) /\ ~DestroyPreserves(q)
    BY <1>1 DEF ApplyDisabled, ApplyConvert, ApplyWriteFails, DestroyPreserves
  <2> QED
    BY <2>5, <2>6, <2>7 DEF Terraform, Apply
<1>4. PICK q \in Resources : ApplyWrite(q) \/ DestroyRemoves(q)
  BY <1>3
<1>5. \A p \in Resources \ {q} : writing'[p] = writing[p] /\ plan'[p] = plan[p]
  BY <1>4 DEF ApplyWrite, DestroyRemoves, StateDropped, LifecycleTypeOK
<1>6. q = r
  BY <1>2, <1>5
<1>7. CASE ApplyWrite(r)
  BY <1>1, <1>7 DEF ApplyWrite, LifecycleTypeOK
<1>8. CASE DestroyRemoves(r)
  BY <1>1, <1>8 DEF DestroyRemoves, LifecycleTypeOK
<1> QED
  BY <1>4, <1>6, <1>7, <1>8

\* What was reviewed is what is written: an Apply changes only the output its
\* plan identifies, only to the content its plan shows, and only if the plan was
\* made with export enabled (diagramUsecase.Apply).
THEOREM LifecycleWritesOnlyWhatWasPlanned == Spec => WritesOnlyWhatWasPlanned
<1>1. LifecycleInv /\ [Next]_vars =>
        \A r \in Resources, f \in Files :
          ChangedBy(r, f) /\ file'[f] # Absent =>
            /\ plan[r].want.id = f
            /\ plan[r].want.content = file'[f]
            /\ plan[r].want.export = "enable"
  <2> SUFFICES ASSUME LifecycleInv, [Next]_vars, NEW r \in Resources, NEW f \in Files,
                      ChangedBy(r, f), file'[f] # Absent
               PROVE  /\ plan[r].want.id = f
                      /\ plan[r].want.content = file'[f]
                      /\ plan[r].want.export = "enable"
    OBVIOUS
  <2>1. ApplyWrite(r) /\ f = writing[r].file /\ file'[f] = writing[r].content
    BY OnlyWritesAndDeletes
  <2>2. writing[r] # NoWrite
    BY <2>1 DEF ApplyWrite
  <2> QED
    BY <2>1, <2>2, StoredIsPlanned
<1> QED
  BY <1>1, LifecycleInvariant, PTL DEF Spec, WritesOnlyWhatWasPlanned

\* Without overwrite a resource replaces and removes only bytes it has itself
\* reported as written, whatever refreshes, disabled periods and failed Applies
\* came before (Apply, Delete and the ownership rule of artifactRepository).
THEOREM LifecycleKeepsForeignOutput == Spec => KeepsForeignOutput
<1>1. LifecycleInv /\ [Next]_vars =>
        \A r \in Resources, f \in Files :
          ChangedBy(r, f) =>
            \/ file[f] \in {Absent, authored[r]}
            \/ plan[r].kind = "apply" /\ plan[r].want.overwrite
  <2> SUFFICES ASSUME LifecycleInv, [Next]_vars, NEW r \in Resources, NEW f \in Files,
                      ChangedBy(r, f)
               PROVE  \/ file[f] \in {Absent, authored[r]}
                      \/ plan[r].kind = "apply" /\ plan[r].want.overwrite
    OBVIOUS
  <2>1. file[f] # NoDigest /\ ManagedDigest(r) \in {NoDigest, authored[r]}
    BY DEF LifecycleInv, LifecycleTypeOK, DigestsAreAuthored
  <2>2. CASE ApplyWrite(r) /\ f = writing[r].file
    <3>1. MayReplace(ManagedDigest(r), plan[r].want.overwrite, file[f]) /\ writing[r] # NoWrite
      BY <2>2 DEF ApplyWrite
    <3>2. plan[r].kind = "apply"
      BY <3>1, StoredIsPlanned
    <3> QED
      BY <2>1, <3>1, <3>2 DEF MayReplace
  <2>3. CASE DestroyRemoves(r) /\ f = OutputAsConfigured(r)
    BY <2>1, <2>3 DEF DestroyRemoves, MayRemove
  <2> QED
    BY <2>2, <2>3, OnlyWritesAndDeletes
<1> QED
  BY <1>1, LifecycleInvariant, PTL DEF Spec, KeepsForeignOutput

\* Only ApplyWrite ends a write with a new state.
LEMMA OnlyApplyWriteStores ==
  ASSUME LifecycleInv, [Next]_vars, NEW r \in Resources,
         writing[r] # NoWrite, state'[r] # state[r]
  PROVE  ApplyWrite(r) /\ state' = [state EXCEPT ![r] = plan[r].want] /\ state'[r] = plan[r].want
<1> USE DEF LifecycleInv
<1>1. state' # state
  OBVIOUS
<1>2. PICK q \in Resources : Terraform(q)
  BY <1>1 DEF Next, vars, WorldChanges, Generate, OutsideWrite
<1>3. ~Plan(q) /\ ~PlanDestroy(q) /\ ~DiscardPlan(q) /\ ~ApplyRejected(q) /\ ~ApplyConvert(q)
        /\ ~ApplyWriteFails(q)
  BY <1>1 DEF Plan, PlanDestroy, DiscardPlan, ApplyRejected, ApplyConvert, ApplyWriteFails
<1>4. \/ Read(q) \/ ApplyDisabled(q) \/ ApplyWrite(q)
      \/ DestroyRemoves(q) \/ DestroyPreserves(q)
  BY <1>2, <1>3 DEF Terraform, Apply
<1>5. \A p \in Resources \ {q} : state'[p] = state[p]
  BY <1>4 DEF Read, ApplyDisabled, ApplyWrite, DestroyRemoves, DestroyPreserves, StateDropped,
              LifecycleTypeOK
<1>6. q = r
  BY <1>5
<1>7. plan[r].kind = "apply"
  BY StoredIsPlanned
<1>8. ApplyWrite(r)
  BY <1>4, <1>6, <1>7 DEF Read, ApplyDisabled, Applying, DestroyRemoves, DestroyPreserves, Destroying
<1>9. state' = [state EXCEPT ![r] = plan[r].want]
  <2>1. state' = [state EXCEPT ![r] = [plan[r].want EXCEPT !.source = writing[r].source,
                                                           !.content = writing[r].content,
                                                           !.observed = writing[r].content]]
    BY <1>1, <1>8 DEF ApplyWrite
  <2> QED
    BY <2>1, StoredIsPlanned
<1> QED
  BY <1>8, <1>9 DEF LifecycleTypeOK

\* An Apply that succeeds stores exactly the values its plan showed, so that
\* Terraform finds no inconsistent result (diagramUsecase.Apply and apply of the
\* resource controller).
THEOREM LifecycleStoresWhatWasPlanned == Spec => StoresWhatWasPlanned
<1>1. LifecycleInv /\ [Next]_vars =>
        \A r \in Resources :
          writing[r] # NoWrite /\ state'[r] # state[r] => state'[r] = plan[r].want
  BY OnlyApplyWriteStores
<1> QED
  BY <1>1, LifecycleInvariant, PTL DEF Spec, StoresWhatWasPlanned
-------------------------------------------------------------------------------
(* The state tells the truth about the output.                               *)

\* No link between source_dir and the output: both resolutions agree.
PathsAgree == \A r \in Resources, l \in Links : LexicalFile[r][l] = RealFile[r][l]

\* Moreover nothing that may turn: a resource has one output for good.
OneOutputEach ==
  /\ PathsAgree
  /\ \A r \in Resources, l \in Links, m \in Links : RealFile[r][l] = RealFile[r][m]

\* Where both resolutions of a path agree, a second plan after Apply is empty:
\* a refresh finds no drift, and the next plan is the state (diagramUsecase.Plan
\* and Apply, which compute the same values on different occasions).
THEOREM LifecycleSecondPlanIsEmpty ==
  ASSUME PathsAgree
  PROVE  Spec => SecondPlanIsEmpty
<1>1. LifecycleInv /\ [Next]_vars =>
        \A r \in Resources :
          /\ writing[r] # NoWrite
          /\ state'[r] # state[r]
          /\ export = "enable"
          /\ StillAsPlanned(r, state'[r])
          /\ overwrite[r] = state'[r].overwrite
          => /\ Observed(r)' = state'[r].observed
             /\ Planned(r)' = {state'[r]}
  <2> SUFFICES ASSUME LifecycleInv, [Next]_vars, NEW r \in Resources,
                      writing[r] # NoWrite, state'[r] # state[r], export = "enable",
                      StillAsPlanned(r, state'[r]), overwrite[r] = state'[r].overwrite
               PROVE  Observed(r)' = state'[r].observed /\ Planned(r)' = {state'[r]}
    OBVIOUS
  <2> DEFINE want == state'[r]
  <2>1. ApplyWrite(r) /\ want = plan[r].want
    BY OnlyApplyWriteStores
  <2>2. /\ want \in ResourceStates
        /\ want.id = writing[r].file /\ want.export = "enable"
        /\ want.content = writing[r].content /\ want.observed = writing[r].content
        /\ writing[r].file \in Files /\ writing[r].content \in Contents
    BY <2>1, StoredIsPlanned
  <2>3. UNCHANGED world /\ file' = [file EXCEPT ![writing[r].file] = writing[r].content]
    BY <2>1 DEF ApplyWrite
  <2>4. /\ want.id = Output(r) /\ want.source = source
        /\ want.content = Converted[build][source]
    BY DEF StillAsPlanned
  <2>5. Output(r)' = Output(r) /\ OutputAsConfigured(r)' = Output(r)
    BY <2>3 DEF Output, OutputAsConfigured, world, PathsAgree, LifecycleInv, WorldOK
  <2>6. file'[Output(r)] = want.content
    BY <2>2, <2>3, <2>4 DEF LifecycleInv, LifecycleTypeOK
  <2>7. Observed(r)' = want.observed
    BY <2>2, <2>5, <2>6 DEF Observed
  <2>8. ManagedDigest(r)' = want.content
    BY <2>2 DEF ManagedDigest
  <2>9. ~Foreign(r)'
    BY <2>5, <2>6, <2>8 DEF Foreign
  <2>10. Planned(r)' = {PlannedEnabled(r)'}
    <3>1. Converted[build'][source'] # Invalid
      BY <2>2, <2>3, <2>4 DEF world, StillAsPlanned
    <3> QED
      BY <2>2, <2>3, <2>5, <2>6, <2>9, <3>1 DEF Planned, world
  <2>11. PlannedEnabled(r)' = want
    BY <2>2, <2>3, <2>4, <2>5 DEF PlannedEnabled, world, ResourceStates
  <2> QED
    BY <2>7, <2>10, <2>11
<1> QED
  BY <1>1, LifecycleInvariant, PTL DEF Spec, SecondPlanIsEmpty

\* A plan with export enabled is about the one output of its resource.
PlansIdentifyOutput ==
  \A r \in Resources : HasPlan(r, "enable") => plan[r].want.id = Output(r)

\* What a resource was the last to write is its output, and what it manages.
WrittenIsManaged ==
  \A r \in Resources, f \in Files : writer[f] = r =>
    /\ f = Output(r)
    /\ state[r] # NoState
    /\ state[r].content = file[f]

LEMMA OutputStays ==
  ASSUME OneOutputEach, WorldOK, [Next]_vars, NEW r \in Resources
  PROVE  /\ Output(r)' = Output(r)
         /\ OutputAsConfigured(r) = Output(r)
         /\ Output(r) \in Files
<1>1. link \in Links /\ link' \in Links
  <2>1. link' = link \/ link' \in Links
    BY DEF Next, vars, world, Terraform, Apply, Read, Plan, PlanDestroy, DiscardPlan, ApplyRejected,
           ApplyDisabled, ApplyConvert, ApplyWrite, ApplyWriteFails, DestroyRemoves,
           DestroyPreserves, Generate, WorldChanges, OutsideWrite
  <2> QED
    BY <2>1 DEF WorldOK
<1> QED
  BY <1>1 DEF OneOutputEach, PathsAgree, Output, OutputAsConfigured

LEMMA PlansIdentifyOutputNext ==
  ASSUME OneOutputEach, LifecycleInv, PlansIdentifyOutput, [Next]_vars
  PROVE  PlansIdentifyOutput'
<1> USE DEF LifecycleInv
<1> SUFFICES ASSUME NEW r \in Resources, HasPlan(r, "enable")'
             PROVE  plan'[r].want.id = Output(r)'
  BY DEF PlansIdentifyOutput
<1>1. Output(r)' = Output(r)
  BY OutputStays
<1>2. CASE plan'[r] = plan[r]
  BY <1>1, <1>2 DEF PlansIdentifyOutput, HasPlan
<1>3. CASE Plan(r)
  <2>1. PICK want \in Planned(r) :
          plan' = [plan EXCEPT ![r] = [kind |-> "apply", want |-> want]]
    BY <1>3 DEF Plan
  <2>2. plan'[r] = [kind |-> "apply", want |-> want]
    BY <2>1 DEF LifecycleTypeOK
  <2> QED
    BY <1>1, <2>2, PlannedValues DEF HasPlan
<1>4. plan'[r] # NoPlan /\ plan'[r].kind = "apply"
  BY DEF HasPlan
<1>5. plan'[r] # plan[r] => Plan(r)
  <2> SUFFICES ASSUME plan'[r] # plan[r] PROVE Plan(r)
    OBVIOUS
  <2>1. PICK q \in Resources : Terraform(q)
    BY DEF Next, vars, WorldChanges, Generate, OutsideWrite
  <2>2. \/ Plan(q)
        \/ PlanDestroy(q) /\ plan' = [plan EXCEPT ![q] = [kind |-> "destroy"]]
        \/ plan' = [plan EXCEPT ![q] = NoPlan]
        \/ plan' = plan
    BY <2>1 DEF Terraform, Apply, Read, PlanDestroy, DiscardPlan, ApplyRejected, ApplyDisabled,
                ApplyConvert, ApplyWrite, ApplyWriteFails, DestroyRemoves, DestroyPreserves,
                StateDropped
  <2>3. \A p \in Resources \ {q} : plan'[p] = plan[p]
    BY <2>2 DEF Plan, LifecycleTypeOK
  <2>4. q = r
    BY <2>3
  <2> QED
    BY <1>4, <2>2, <2>4 DEF LifecycleTypeOK
<1> QED
  BY <1>2, <1>3, <1>5

LEMMA WrittenIsManagedNext ==
  ASSUME OneOutputEach, ~Faults, LifecycleInv, PlansIdentifyOutput, WrittenIsManaged, [Next]_vars
  PROVE  WrittenIsManaged'
<1> USE DEF LifecycleInv
<1> SUFFICES ASSUME NEW r \in Resources, NEW f \in Files, writer'[f] = r
             PROVE  /\ f = Output(r)'
                    /\ state'[r] # NoState
                    /\ state'[r].content = file'[f]
  BY DEF WrittenIsManaged
<1>1. Output(r)' = Output(r) /\ OutputAsConfigured(r) = Output(r)
  BY OutputStays
<1>2. r \notin {Nobody, Outsider}
  OBVIOUS
<1>3. ASSUME UNCHANGED <<file, writer, state>>
      PROVE  f = Output(r) /\ state'[r] # NoState /\ state'[r].content = file'[f]
  BY <1>3 DEF WrittenIsManaged
<1>4. ASSUME NEW q \in Resources, file' = file, writer' = writer,
             NEW next, state' = [state EXCEPT ![q] = next],
             q = r /\ writer[f] = r => next # NoState /\ next.content = state[r].content
      PROVE  f = Output(r) /\ state'[r] # NoState /\ state'[r].content = file'[f]
  BY <1>4 DEF WrittenIsManaged, LifecycleTypeOK
<1>5. CASE \E q \in Resources : Terraform(q)
  <2>1. PICK q \in Resources : Terraform(q)
    BY <1>5
  <2>2. CASE Plan(q) \/ PlanDestroy(q) \/ DiscardPlan(q) \/ ApplyRejected(q) \/ ApplyConvert(q)
             \/ ApplyWriteFails(q)
    BY <1>1, <1>3, <2>2 DEF Plan, PlanDestroy, DiscardPlan, ApplyRejected, ApplyConvert,
                            ApplyWriteFails
  <2>3. CASE Read(q)
    <3> DEFINE next == [state[q] EXCEPT !.observed = Observed(q)]
    <3>1. /\ file' = file /\ writer' = writer /\ state' = [state EXCEPT ![q] = next]
          /\ state[q] \in ResourceStates
      BY <2>3 DEF Read, LifecycleTypeOK
    <3>2. next.content = state[q].content
      BY <3>1 DEF ResourceStates
    <3>3. next # NoState
      <4>1. Observed(q) \in Digests
        <5>1. file[OutputAsConfigured(q)] \in OutputValues \ {Irregular}
          BY <2>3 DEF Read, OutputAsConfigured, LifecycleTypeOK, WorldOK
        <5> QED
          BY <5>1 DEF Observed, OutputValues, Digests
      <4> QED
        BY <3>1, <4>1 DEF ResourceStates
    <3>4. PICK n : /\ state' = [state EXCEPT ![q] = n]
                   /\ n # NoState /\ n.content = state[q].content
      BY <3>1, <3>2, <3>3
    <3>5. q = r /\ writer[f] = r => n # NoState /\ n.content = state[r].content
      BY <3>4
    <3>6. f = Output(r) /\ state'[r] # NoState /\ state'[r].content = file'[f]
      BY <1>4, <3>1, <3>4, <3>5
    <3> QED
      BY <1>1, <3>6
  <2>4. CASE ApplyDisabled(q)
    <3>1. /\ file' = file /\ writer' = writer
          /\ state' = [state EXCEPT ![q] = plan[q].want]
          /\ HasPlan(q, "disable")
      BY <2>4 DEF ApplyDisabled, Applying, HasPlan
    <3>2. plan[q].want \in ResourceStates /\ plan[q].want # NoState
      BY <3>1 DEF LifecycleTypeOK, Plans, HasPlan
    <3>3. plan[q].want.content = ManagedDigest(q)
      BY <3>1 DEF DisabledKeepsDigest
    <3>4. q = r /\ writer[f] = r => plan[q].want.content = state[r].content
      BY <3>3 DEF ManagedDigest, WrittenIsManaged
    <3> QED
      BY <1>1, <1>4, <3>1, <3>2, <3>4
  <2>5. CASE ApplyWrite(q)
    <3>1. /\ writing[q] # NoWrite
          /\ file' = [file EXCEPT ![writing[q].file] = writing[q].content]
          /\ writer' = [writer EXCEPT ![writing[q].file] = q]
          /\ state' = [state EXCEPT ![q] =
                         [plan[q].want EXCEPT !.source = writing[q].source,
                                              !.content = writing[q].content,
                                              !.observed = writing[q].content]]
      BY <2>5 DEF ApplyWrite
    <3>2. /\ plan[q].want \in ResourceStates /\ plan[q].want # NoState
          /\ state' = [state EXCEPT ![q] = plan[q].want]
          /\ plan[q].want.content = writing[q].content
          /\ plan[q].want.id = writing[q].file
          /\ writing[q].file \in Files
      BY <3>1, StoredIsPlanned
    <3>3. writing[q].file = Output(q)
      BY <3>1, <3>2 DEF PlansIdentifyOutput, WritingIsPlanned
    <3>4. CASE f = writing[q].file
      BY <1>1, <3>1, <3>2, <3>3, <3>4 DEF LifecycleTypeOK
    <3>5. CASE f # writing[q].file
      <4>1. writer'[f] = writer[f] /\ file'[f] = file[f]
        BY <3>1, <3>5 DEF LifecycleTypeOK
      <4>2. f = Output(r) /\ q # r
        BY <3>3, <3>5, <4>1 DEF WrittenIsManaged
      <4>3. state'[r] = state[r]
        BY <3>2, <4>2 DEF LifecycleTypeOK
      <4> QED
        BY <1>1, <4>1, <4>2, <4>3 DEF WrittenIsManaged
    <3> QED
      BY <3>4, <3>5
  <2>6. CASE DestroyRemoves(q)
    <3>1. /\ file' = [file EXCEPT ![Output(q)] = Absent]
          /\ writer' = [writer EXCEPT ![Output(q)] = Nobody]
          /\ state' = [state EXCEPT ![q] = NoState]
      BY <2>6, OutputStays DEF DestroyRemoves, StateDropped
    <3>2. f # Output(q) /\ writer'[f] = writer[f] /\ file'[f] = file[f]
      BY <1>2, <3>1 DEF LifecycleTypeOK
    <3>3. f = Output(r) /\ q # r
      BY <3>2 DEF WrittenIsManaged
    <3> QED
      BY <1>1, <3>1, <3>2, <3>3 DEF WrittenIsManaged, LifecycleTypeOK
  <2>7. CASE DestroyPreserves(q)
    <3>1. /\ file' = file /\ writer' = writer /\ state' = [state EXCEPT ![q] = NoState]
          /\ ~MayRemove(ManagedDigest(q), file[Output(q)])
      BY <2>7, OutputStays DEF DestroyPreserves, StateDropped
    <3>2. q # r
      <4> SUFFICES ASSUME q = r PROVE FALSE
        OBVIOUS
      <4>1. f = Output(q) /\ state[q] # NoState /\ state[q].content = file[f]
        BY <3>1 DEF WrittenIsManaged
      <4>2. file[f] \in OutputValues /\ state[q].content \in Digests
        BY <4>1 DEF LifecycleTypeOK, ResourceStates
      <4>3. file[f] \in Contents /\ file[f] # NoDigest
        BY <4>1, <4>2 DEF OutputValues, Digests
      <4> QED
        BY <3>1, <4>1, <4>3 DEF MayRemove, ManagedDigest
    <3> QED
      BY <1>1, <1>4, <3>1, <3>2
  <2> QED
    BY <2>1, <2>2, <2>3, <2>4, <2>5, <2>6, <2>7 DEF Terraform, Apply
<1>6. CASE \E q \in Resources, force \in BOOLEAN : Generate(q, force)
  <2>1. PICK q \in Resources, force \in BOOLEAN : Generate(q, force)
    BY <1>6
  <2>2. /\ writer' = [writer EXCEPT ![Output(q)] = Outsider] /\ UNCHANGED state
        /\ file' = [file EXCEPT ![Output(q)] = Converted[build][source]]
    BY <2>1 DEF Generate
  <2>3. writer'[f] = writer[f] /\ file'[f] = file[f]
    BY <1>2, <2>2 DEF LifecycleTypeOK
  <2> QED
    BY <1>1, <2>2, <2>3 DEF WrittenIsManaged
<1>7. CASE \E g \in Files, v \in OutputValues : OutsideWrite(g, v)
  <2>1. PICK g \in Files, v \in OutputValues : OutsideWrite(g, v)
    BY <1>7
  <2>2. writer'[f] = writer[f] /\ file'[f] = file[f] /\ UNCHANGED state
    BY <1>2, <2>1 DEF OutsideWrite, LifecycleTypeOK
  <2> QED
    BY <1>1, <2>2 DEF WrittenIsManaged
<1>8. CASE WorldChanges \/ UNCHANGED vars
  BY <1>1, <1>3, <1>8 DEF WorldChanges, vars
<1> QED
  BY <1>5, <1>6, <1>7, <1>8 DEF Next

\* If operations do not fail half-way and no link turns, a resource remembers the
\* output it was the last to write through every sequence of plans, refreshes,
\* applies, mode changes and destroys of any number of resources (what Plan,
\* Apply and Read return as DiagramComputed).
THEOREM LifecycleStateMatchesOutput ==
  ASSUME OneOutputEach, ~Faults
  PROVE  Spec => []StateMatchesOutput
<1>1. Init => PlansIdentifyOutput /\ WrittenIsManaged
  BY DEF Init, PlansIdentifyOutput, WrittenIsManaged, HasPlan
<1>2. LifecycleInv /\ PlansIdentifyOutput /\ WrittenIsManaged /\ [Next]_vars =>
        PlansIdentifyOutput' /\ WrittenIsManaged'
  BY PlansIdentifyOutputNext, WrittenIsManagedNext
<1>3. WrittenIsManaged => StateMatchesOutput
  BY DEF WrittenIsManaged, StateMatchesOutput
<1> QED
  BY <1>1, <1>2, <1>3, LifecycleInvariant, PTL DEF Spec
===============================================================================
