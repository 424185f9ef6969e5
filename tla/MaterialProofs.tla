---------------------------- MODULE MaterialProofs ----------------------------
(***************************************************************************)
(* Theorems about what an attempt is made from and what is taken from it:  *)
(* the attestation of a server, the inputs from the plan to their          *)
(* delivery, what a campaign hands over, and the evidence; however many    *)
(* edits others make, and between whichever steps.                         *)
(***************************************************************************)
EXTENDS FrozenInputs, EvidenceCapture, CampaignInputs, RuntimeAttestation, TLAPS,
        FiniteSetTheorems

-----------------------------------------------------------------------------
(* The attestation of a server. *)

\* The executable was the authorized one for as long as the call has run.
Untampered == \A w \in was : w.docker = "authorized"

\* What has been learned of the server was true of it at one time, and so on.
Learned ==
    /\ apc \in {"image", "mount", "compare", "probe", "validate", "attested"} =>
         /\ learned.server # NoServer /\ ServerFits(learned.server)
         /\ \E w \in was : w.server = learned.server
    /\ apc \in {"mount", "compare", "probe", "validate", "attested"} =>
         \E w \in was : w.store.listed /\ w.store.image_id = learned.server.image_id
    /\ apc \in {"compare", "probe", "validate", "attested"} =>
         /\ learned.report = Observation(learned.server)
         /\ MountFits(learned.server) /\ PortFits(learned.server)
         /\ learned.server.revision = Expected.revision
         /\ \E w \in was : w.snapshot = "directory"
    /\ apc \in {"probe", "validate", "attested"} => EnvironmentFits(learned.report)
    /\ apc \in {"validate", "attested"} =>
         Serves(learned.names) /\ \E w \in was : w.served = learned.names

AttestationInv == Now \in was /\ (Untampered => Learned)

LEMMA AttestationStep == AttestationInv /\ [AttestationNext]_attestationVars => AttestationInv'
<1> SUFFICES ASSUME AttestationInv, [AttestationNext]_attestationVars
             PROVE  AttestationInv'
  OBVIOUS
<1>1. CASE UNCHANGED attestationVars
  BY <1>1 DEF attestationVars, AttestationInv, Learned, Untampered, Now
<1>2. CASE Deed
  <2>1. was \subseteq was' /\ Now' \in was' /\ apc' = apc /\ learned' = learned
    BY <1>2 DEF Deed
  <2>2. Untampered' => Untampered
    BY <2>1 DEF Untampered
  <2> QED BY <2>1, <2>2 DEF AttestationInv, Learned
\* What the call itself looks at stays as it is in that moment, and is in the history.
<1>3. ASSUME UNCHANGED <<docker, server, store, snapshot, served, was>>, Untampered => Learned'
      PROVE  AttestationInv'
  <2>1. Now' = Now /\ was' = was
    BY <1>3 DEF Now
  <2> QED BY <1>3, <2>1 DEF AttestationInv, Untampered
<1>4. /\ Now \in was /\ Now.docker = docker /\ Now.server = server /\ Now.store = store
      /\ Now.snapshot = snapshot /\ Now.served = served
      /\ Untampered => docker = "authorized" /\ Learned
  BY DEF AttestationInv, Untampered, Now
<1>5. CASE CheckExecutable
  BY <1>3, <1>5 DEF CheckExecutable, Advance, Learned
<1>6. CASE InspectContainer
  <2>1. PICK s \in Printed(server, Servers) :
          /\ apc' = "image" => s # NoServer /\ ServerFits(s)
          /\ apc' \in {"image", "refused"} /\ learned' = [server |-> s]
    BY <1>6 DEF InspectContainer, Advance
  <2>2. Untampered => s = server
    BY <1>4 DEF Printed
  <2>3. learned'.server = s
    BY <2>1
  <2>4. Untampered => Learned'
    BY <1>4, <1>6, <2>1, <2>2, <2>3 DEF Learned, InspectContainer, Advance
  <2> QED BY <1>3, <1>6, <2>4 DEF InspectContainer, Advance
<1>7. CASE InspectImage
  <2>1. PICK i \in Printed(store, Stores) :
          /\ apc = "image" /\ learned' = learned
          /\ apc' = "mount" => ImageFits(learned.server, i)
          /\ apc' \in {"mount", "refused"}
    BY <1>7 DEF InspectImage, Advance
  <2>2. Untampered => i = store
    BY <1>4 DEF Printed
  <2>3. Untampered => Learned'
    BY <1>4, <1>7, <2>1, <2>2 DEF Learned, ImageFits, InspectImage, Advance
  <2> QED BY <1>3, <1>7, <2>3 DEF InspectImage, Advance
<1>8. CASE CheckMount
  <2>1. /\ apc = "mount" /\ apc' \in {"compare", "refused"}
        /\ learned' = [server |-> learned.server, report |-> Observation(learned.server)]
        /\ apc' = "compare" =>
             MountFits(learned.server) /\ SnapshotFits(learned.server) /\ PortFits(learned.server)
    BY <1>8 DEF CheckMount, Advance
  <2>2. learned'.server = learned.server /\ learned'.report = Observation(learned.server)
    BY <2>1
  <2>3. Untampered => Learned'
    BY <1>4, <1>8, <2>1, <2>2 DEF Learned, SnapshotFits, CheckMount, Advance
  <2> QED BY <1>3, <1>8, <2>3 DEF CheckMount, Advance
<1>9. CASE Compare
  <2>1. Untampered => Learned'
    BY <1>4, <1>9 DEF Compare, Advance, Learned
  <2> QED BY <1>3, <1>9, <2>1 DEF Compare, Advance
<1>10. CASE Probe
  <2>1. /\ apc = "probe" /\ apc' \in {"validate", "refused"}
        /\ learned' = [server |-> learned.server, report |-> learned.report, names |-> served]
        /\ apc' = "validate" => Serves(served)
    BY <1>10 DEF Probe, Advance
  <2>2. learned'.server = learned.server /\ learned'.report = learned.report /\ learned'.names = served
    BY <2>1
  <2>3. Untampered => Learned'
    BY <1>4, <1>10, <2>1, <2>2 DEF Learned, Probe, Advance
  <2> QED BY <1>3, <1>10, <2>3 DEF Probe, Advance
<1>11. CASE Validate
  <2>1. Untampered => Learned'
    BY <1>4, <1>11 DEF Validate, Advance, Learned
  <2> QED BY <1>3, <1>11, <2>1 DEF Validate, Advance
<1> QED BY <1>1, <1>2, <1>5, <1>6, <1>7, <1>8, <1>9, <1>10, <1>11 DEF AttestationNext

\* What attest_runtime reports of the server was so at some moment of the call, and what came
\* from one readback at one moment, whoever stops, starts or replaces what in between.
THEOREM AttestationTrueCorrect == AttestationSpec => []AttestationTrue
<1>1. AttestationInit => AttestationInv
  BY DEF AttestationInit, AttestationInv, Learned
<1>2. AttestationInv => AttestationTrue
  <2> SUFFICES ASSUME AttestationInv, apc = "attested", Untampered
               PROVE  AttestationTrue
    BY DEF AttestationTrue, Untampered
  <2>1. Learned
    BY DEF AttestationInv
  <2>2. learned.report.image_id = learned.server.image_id
    BY <2>1 DEF Learned, Observation
  <2>3. Approved(learned.server)
    BY <2>1 DEF Learned, Approved, MountFits, PortFits, EnvironmentFits, Observation
  <2> QED BY <2>1, <2>2, <2>3 DEF Learned, AttestationTrue, Serves
<1> QED BY <1>1, <1>2, AttestationStep, PTL DEF AttestationSpec

-----------------------------------------------------------------------------
(* The inputs of an attempt: the planner. *)

\* The record that the planner keeps, once it has begun.
Begun(b) ==
    b = [caller |-> b.caller, at |-> b.at, revision |-> b.revision, seeds |-> b.seeds,
         todo |-> b.todo, registry |-> b.registry, contract |-> b.contract, got |-> b.got,
         planner |-> b.planner]

BuildInv ==
    /\ build.at # "idle" => Begun(build) /\ build.seeds \in SeedLists
    /\ build.at \in {"planner", "built"} => ~Collides(build.registry, build.got["kit"], build.seeds)

-----------------------------------------------------------------------------
(* The inputs of an attempt: what each gate has made sure of. *)

Vetted(f) == auth.revision = plan.revision /\ auth.code[f] = Committed(plan.revision)[f]

\* The code files are compared one at a time.
CodeInv ==
    \/ unread = <<"planner", "provider_transport", "runtime_contract">>
    \/ unread = <<"provider_transport", "runtime_contract">> /\ Vetted("planner")
    \/ unread = <<"runtime_contract">> /\ Vetted("planner") /\ Vetted("provider_transport")
    \/ unread = <<>> /\ \A f \in CodeFiles : Vetted(f)

\* The plan is what the planner has made of the revision.
Remade(p) ==
    /\ p.task = task
    /\ p.matched = Cardinality(RegisteredIn(p.registry))
    /\ ~Collides(p.registry, p.inputs["kit"], p.seeds)

GatesInv ==
    /\ epc \notin {"idle", "refused"} => plan.seeds \in SeedLists
    /\ epc \notin {"idle", "arguments", "refused"} => PlanFits(plan)
    /\ epc \notin {"idle", "arguments", "profile", "refused"} => auth.plan = plan
    /\ epc = "code" => CodeInv
    /\ epc \notin {"idle", "arguments", "profile", "docker", "code", "refused"} =>
         (\A f \in CodeFiles : Vetted(f)) /\ plan.planner = Committed(plan.revision)["planner"]
    /\ epc \notin {"idle", "arguments", "profile", "docker", "code", "inputs", "refused"} =>
         CommittedInputsFit
    /\ (epc \notin BeforeTheClaim \/ epc = "ready") => Remade(plan)

-----------------------------------------------------------------------------
(* The inputs of an attempt: what is delivered. *)

Kit == Committed(plan.revision)["kit"]

\* What a script's output is made from, while it is still to be looked at and afterwards.
FrozenKit(k) == k # NoKit => k.version = Kit /\ ~k.changed

Staged == {"prompt", "brief", "sandbox", "ask", "before", "script", "after", "ended", "capture",
           "reveal", "completed"}

DeliveryInv ==
    /\ epc \in BeforeTheClaim => texts = <<>> /\ sent = {} /\ captured = {}
    /\ epc \in BeforeTheClaim \cup {"kit", "prompt", "brief", "sandbox"} => output = NoKit
    /\ staged = [version |-> staged.version, changed |-> staged.changed]
    /\ epc \in Staged => staged.version = Kit
    /\ epc \in {"ask", "before", "script", "ended", "capture", "reveal"} => FrozenKit(output)
    /\ epc = "after" => output.version = Kit /\ (output.changed => staged.changed)
    /\ epc = "capture" => output # NoKit
    /\ epc = "reveal" => ChangeTask
    /\ DOMAIN texts \subseteq {"prompt", "driver_brief", "change_request"}

InputsInv == BuildInv /\ GatesInv /\ DeliveryInv /\ DeliveredAsFrozen

LEMMA InputsInit == MaterialInit => InputsInv /\ ClaimJustified
<1> SUFFICES ASSUME MaterialInit
             PROVE  InputsInv /\ ClaimJustified
  OBVIOUS
<1>1. /\ build = NoBuild /\ plan = NoPlan /\ auth = NoAuth /\ epc = "idle" /\ unread = <<>>
      /\ staged = NoKit /\ texts = <<>> /\ output = NoKit /\ sent = {} /\ captured = {}
  BY DEF MaterialInit, PlannerInit
<1>2. BuildInv
  BY <1>1 DEF BuildInv, NoBuild
<1>3. GatesInv /\ ClaimJustified
  BY <1>1 DEF GatesInv, ClaimJustified, BeforeTheClaim
<1>4. DOMAIN texts = {}
  BY <1>1
<1>5. staged = [version |-> staged.version, changed |-> staged.changed]
  BY <1>1 DEF NoKit
<1>6. DeliveryInv
  BY <1>1, <1>4, <1>5 DEF DeliveryInv, BeforeTheClaim, Staged, FrozenKit
<1>7. DeliveredAsFrozen
  BY <1>1, <1>4 DEF DeliveredAsFrozen
<1> QED BY <1>2, <1>3, <1>6, <1>7 DEF InputsInv

LEMMA BuildKept ==
    ASSUME BuildInv, GatesInv, [MaterialNext]_materialVars
    PROVE  BuildInv'
<1> USE DEF BuildInv
<1>1. CASE UNCHANGED build
  BY <1>1
<1>2. CASE Plan \/ Rebuild
  <2>1. \A caller, revision : \A seeds \in SeedLists :
          StartBuild(caller, revision, seeds) => BuildInv'
    BY DEF StartBuild, Begun
  <2>2. CASE Plan
    BY <2>1, <2>2 DEF Plan
  <2>3. CASE Rebuild
    BY <2>1, <2>3 DEF Rebuild, GatesInv
  <2> QED BY <1>2, <2>2, <2>3
<1>3. CASE Approve
  BY <1>3 DEF Approve, NoBuild
<1>4. CASE BuildStep
  <2>1. build.at # "idle" /\ Begun(build) /\ build.seeds \in SeedLists
    BY <1>4 DEF BuildStep, ReadHead, ReadRegistry, ReadContract, ReadInput, CheckExistingRuns,
                ObservePlanner
  <2>2. ASSUME NEW x, build' = [build EXCEPT !.at = x]
        PROVE  /\ Begun(build') /\ build'.at = x /\ build'.seeds = build.seeds
               /\ build'.registry = build.registry /\ build'.got = build.got
    BY <2>1, <2>2 DEF Begun
  <2>3. CASE Reject
    BY <2>1, <2>2, <2>3 DEF Reject
  <2>4. CASE ReadHead
    BY <2>1, <2>2, <2>3, <2>4 DEF ReadHead
  <2>5. CASE ReadRegistry
    <3>1. CASE ~Reject
      <4> DEFINE next == IF task = "L1-ASSEMBLE" THEN "contract" ELSE "inputs"
      <4>1. build' = [build EXCEPT !.registry = tree["registry"], !.at = next, !.todo = FrozenReads]
        BY <2>5, <3>1 DEF ReadRegistry
      <4>2. next \in {"contract", "inputs"}
        OBVIOUS
      <4> HIDE DEF next
      <4>3. Begun(build') /\ build'.at = next /\ build'.seeds = build.seeds
        BY <2>1, <4>1, <4>2 DEF Begun
      <4> QED BY <2>1, <4>2, <4>3
    <3> QED BY <2>3, <3>1
  <2>6. CASE ReadContract
    <3>1. Begun(build') /\ build'.at = "inputs" /\ build'.seeds = build.seeds
      BY <2>1, <2>6 DEF Begun, ReadContract
    <3> QED BY <2>1, <3>1
  <2>7. CASE ReadInput
    <3>1. ASSUME NEW x, NEW y, build' = [build EXCEPT !.todo = x, !.got = y], build.at = "inputs"
          PROVE  Begun(build') /\ build'.at = "inputs" /\ build'.seeds = build.seeds
      BY <2>1, <3>1 DEF Begun
    <3>2. CASE ~Reject
      <4>1. /\ build.at = "inputs"
            /\ build' = [build EXCEPT !.todo = Tail(@),
                           !.got = [i \in DOMAIN @ \cup {Head(build.todo)} |->
                                      IF i = Head(build.todo)
                                      THEN tree[FileOf(task, Head(build.todo))] ELSE @[i]]]
        BY <2>7, <3>2 DEF ReadInput
      <4>2. Begun(build') /\ build'.at = "inputs" /\ build'.seeds = build.seeds
        BY <3>1, <4>1
      <4> QED BY <2>1, <4>2
    <3> QED BY <2>3, <3>2
  <2>8. CASE CheckExistingRuns
    BY <2>1, <2>2, <2>3, <2>8 DEF CheckExistingRuns
  <2>9. CASE ObservePlanner
    <3>1. build.at = "planner" /\ build' = [build EXCEPT !.planner = tree["planner"], !.at = "built"]
      BY <2>9 DEF ObservePlanner
    <3>2. /\ Begun(build') /\ build'.at = "built" /\ build'.seeds = build.seeds
          /\ build'.registry = build.registry /\ build'.got = build.got
      BY <2>1, <3>1 DEF Begun
    <3> QED BY <2>1, <3>1, <3>2
  <2> QED BY <1>4, <2>4, <2>5, <2>6, <2>7, <2>8, <2>9 DEF BuildStep
<1> QED BY <1>1, <1>2, <1>3, <1>4
        DEF MaterialNext, Edit, inputVars, materialVars, plannerVars, Tamper, VerifyPlan,
            VerifyAuthorization, VerifyDocker, VerifyCode, VerifyInputs, VerifyLimits,
            CompareRebuilt, Claim, StageKit, ReadPrompt, ReadBrief, ReadText, StartSandbox, Ask,
            VerifyBefore, RunScript, VerifyAfter, EndPhase, Capture, Reveal

\* Every other step of the executor is one of an attempt that has claimed its slot.
Others == (Edit /\ UNCHANGED inputVars) \/ Tamper \/ (BuildStep /\ UNCHANGED inputVars) \/ Plan
          \/ Rebuild
Attempt == StageKit \/ ReadPrompt \/ ReadBrief \/ StartSandbox \/ Ask \/ VerifyBefore \/ RunScript
           \/ VerifyAfter \/ EndPhase \/ Capture \/ Reveal

LEMMA OthersKeep == Others => UNCHANGED <<task, plan, auth, epc, unread>>
BY DEF Others, Edit, Tamper, BuildStep, ReadHead, ReadRegistry, ReadContract, ReadInput,
       CheckExistingRuns, ObservePlanner, PlannerKeeps, Plan, Rebuild, ExecutorKeeps, inputVars

LEMMA AttemptKeeps ==
    Attempt => /\ epc \notin BeforeTheClaim /\ epc' \notin BeforeTheClaim
               /\ UNCHANGED <<task, plan, auth, unread, build>>
BY DEF Attempt, BeforeTheClaim, StageKit, ReadPrompt, ReadBrief, StartSandbox, Ask, VerifyBefore,
       RunScript, VerifyAfter, EndPhase, Capture, Reveal, ReadText, Step, ExecutorKeeps

LEMMA GatesKept ==
    ASSUME BuildInv, GatesInv, [MaterialNext]_materialVars
    PROVE  GatesInv'
<1> USE DEF GatesInv
<1>1. ASSUME UNCHANGED <<task, plan, auth>>
      PROVE  /\ (\A f \in CodeFiles : Vetted(f)' = Vetted(f))
             /\ CommittedInputsFit' = CommittedInputsFit /\ Remade(plan)' = Remade(plan)
             /\ PlanFits(plan)' = PlanFits(plan)
  BY <1>1 DEF Vetted, CommittedInputsFit, Remade
<1>2. CASE UNCHANGED <<task, plan, auth, epc, unread>>
  <2>1. CodeInv' = CodeInv
    BY <1>2 DEF CodeInv, Vetted
  <2> QED BY <1>1, <1>2, <2>1
<1>3. CASE Approve
  <2> DEFINE q == PlanOf(build)
  <2>1. PICK p \in Documents(q) : plan' = p /\ epc' = "arguments"
    BY <1>3 DEF Approve
  <2>2. q.seeds \in SeedLists
    BY <1>3 DEF Approve, BuildInv, PlanOf
  <2>3. q = [task |-> q.task, revision |-> q.revision, seeds |-> q.seeds, registry |-> q.registry,
             planner |-> q.planner, inputs |-> q.inputs, matched |-> q.matched,
             safety |-> q.safety, cohort |-> q.cohort, paths |-> q.paths, evidence |-> q.evidence]
    BY DEF PlanOf
  <2> HIDE DEF q
  <2>4. p.seeds \in SeedLists
    BY <2>1, <2>2, <2>3 DEF Documents
  <2> QED BY <2>1, <2>4 DEF BeforeTheClaim
<1>4. CASE VerifyPlan
  BY <1>1, <1>4 DEF VerifyPlan, Gate, ExecutorKeeps, BeforeTheClaim
<1>5. CASE VerifyAuthorization
  BY <1>1, <1>5 DEF VerifyAuthorization, Gate, ExecutorKeeps, BeforeTheClaim, AuthorizationFits,
                    EnvelopeFits
<1>6. CASE VerifyDocker
  BY <1>1, <1>6 DEF VerifyDocker, Gate, ExecutorKeeps, BeforeTheClaim, CodeInv
<1>7. CASE VerifyCode
  <2>1. /\ epc = "code" /\ epc' \in {"code", "inputs", "refused"}
        /\ UNCHANGED <<task, plan, auth>>
    BY <1>7 DEF VerifyCode, ExecutorKeeps
  <2>2. CASE unread = <<>>
    <3>1. \A f \in CodeFiles : Vetted(f)
      BY <2>1, <2>2 DEF CodeInv
    <3>2. epc' # "code" /\ (epc' = "inputs" => plan.planner = auth.code["planner"])
      BY <1>7, <2>2 DEF VerifyCode
    <3>3. epc' = "inputs" => plan.planner = Committed(plan.revision)["planner"]
      BY <3>1, <3>2 DEF Vetted, CodeFiles
    <3> QED BY <1>1, <2>1, <3>1, <3>2, <3>3 DEF BeforeTheClaim
  <2>3. CASE unread # <<>>
    <3>1. /\ epc' # "inputs" /\ unread' = Tail(unread)
          /\ epc' = "code" => Vetted(Head(unread))
      BY <1>7, <2>1, <2>3 DEF VerifyCode, Vetted
    <3>2. epc' = "code" => CodeInv'
      <4>1. \A f \in CodeFiles : Vetted(f)' = Vetted(f)
        BY <1>1, <2>1
      <4>2. CASE unread = <<"planner", "provider_transport", "runtime_contract">>
        BY <3>1, <4>1, <4>2 DEF CodeInv, CodeFiles
      <4>3. CASE unread = <<"provider_transport", "runtime_contract">> /\ Vetted("planner")
        BY <3>1, <4>1, <4>3 DEF CodeInv, CodeFiles
      <4>4. CASE /\ unread = <<"runtime_contract">>
                 /\ Vetted("planner") /\ Vetted("provider_transport")
        BY <3>1, <4>1, <4>4 DEF CodeInv, CodeFiles
      <4> QED BY <2>1, <2>3, <4>2, <4>3, <4>4 DEF CodeInv
    <3> QED BY <1>1, <2>1, <3>1, <3>2 DEF BeforeTheClaim
  <2> QED BY <2>2, <2>3
<1>8. CASE VerifyInputs
  BY <1>1, <1>8 DEF VerifyInputs, Gate, ExecutorKeeps, BeforeTheClaim
<1>9. CASE VerifyLimits
  BY <1>1, <1>9 DEF VerifyLimits, Gate, ExecutorKeeps, BeforeTheClaim
<1>10. CASE CompareRebuilt
  <2>1. ASSUME Rebuilt(build)
        PROVE  Remade(plan)
    <3>1. /\ build.at = "built" /\ plan.task = task /\ plan.registry = build.registry
          /\ plan.inputs = build.got /\ plan.seeds = build.seeds
          /\ plan.matched = Cardinality(RegisteredIn(build.registry))
      BY <2>1 DEF Rebuilt, PlanOf
    <3>2. ~Collides(build.registry, build.got["kit"], build.seeds)
      BY <3>1 DEF BuildInv
    <3> QED BY <3>1, <3>2 DEF Remade
  <2> QED BY <1>1, <1>10, <2>1 DEF CompareRebuilt, ExecutorKeeps, BeforeTheClaim
<1>11. CASE Claim
  BY <1>1, <1>11 DEF Claim, ExecutorKeeps, BeforeTheClaim
<1>12. CASE Attempt
  BY <1>1, <1>12, AttemptKeeps DEF BeforeTheClaim
<1>13. UNCHANGED materialVars => UNCHANGED <<task, plan, auth, epc, unread>>
  BY DEF materialVars, plannerVars, inputVars
<1> QED
  BY <1>2, <1>3, <1>4, <1>5, <1>6, <1>7, <1>8, <1>9, <1>10, <1>11, <1>12, <1>13, OthersKeep
  DEF MaterialNext, Others, Attempt

\* What the attempt compares files with is what the plan's commit holds.
LEMMA FrozenIsCommitted ==
    ASSUME GatesInv, epc \notin BeforeTheClaim
    PROVE  /\ plan.task = task /\ DOMAIN plan.inputs = InputsOf(task)
           /\ \A i \in {"kit", "prompt", "driver_brief"} :
                plan.inputs[i] = Committed(plan.revision)[i]
           /\ ChangeTask =>
                plan.inputs["change_request"] = Committed(plan.revision)["change_request"]
<1>1. plan.task = task /\ PlanFits(plan) /\ CommittedInputsFit
  BY DEF GatesInv, BeforeTheClaim, Remade
<1>2. DOMAIN plan.inputs = InputsOf(task)
  BY <1>1 DEF PlanFits, InputsFit
<1>3. \A i \in {"kit", "prompt", "driver_brief", "change_request"} : FileOf(task, i) = i
  BY DEF FileOf
<1>4. {"kit", "prompt", "driver_brief"} \subseteq InputsOf(task)
  BY DEF InputsOf
<1>5. ChangeTask => "change_request" \in InputsOf(task)
  BY DEF InputsOf, ChangeTask
<1>6. \A i \in InputsOf(task) : plan.inputs[i] = Committed(plan.revision)[FileOf(task, i)]
  BY <1>1, <1>2 DEF CommittedInputsFit
<1>7. \A i \in {"kit", "prompt", "driver_brief"} : plan.inputs[i] = Committed(plan.revision)[i]
  BY <1>3, <1>4, <1>6
<1>8. ChangeTask => plan.inputs["change_request"] = Committed(plan.revision)["change_request"]
  BY <1>3, <1>5, <1>6
<1> QED BY <1>1, <1>2, <1>7, <1>8

TextsFrozen == \A t \in DOMAIN texts : texts[t] = Committed(plan.revision)[t]
SentFrozen ==
    \A m \in sent : ~m.changed /\ m.of = Committed(plan.revision)[IF m.what = "output" THEN "kit"
                                                                  ELSE m.what]
CapturedFrozen == \A c \in captured : ~c.changed /\ c.version = Committed(plan.revision)["kit"]

\* A text that is read into the messages.
LEMMA TextRead ==
    ASSUME NEW text, NEW from, NEW to, ReadText(text, from, to), UNCHANGED plan, TextsFrozen,
           plan.inputs[text] = Committed(plan.revision)[text]
    PROVE  /\ TextsFrozen' /\ DOMAIN texts' \subseteq DOMAIN texts \cup {text}
           /\ epc = from /\ epc' \in {to, "failed"}
           /\ UNCHANGED <<task, plan, staged, output, sent, captured>>
<1>1. /\ epc = from /\ epc' = (IF TextFits(text) THEN to ELSE "failed")
      /\ texts' = IF epc' = "failed" THEN texts
                  ELSE [t \in DOMAIN texts \cup {text} |-> IF t = text THEN tree[text] ELSE texts[t]]
      /\ UNCHANGED <<task, plan, staged, output, sent, captured>>
  BY DEF ReadText, Step, ExecutorKeeps
<1>2. CASE epc' = "failed"
  BY <1>1, <1>2 DEF TextsFrozen
<1>3. CASE epc' # "failed"
  <2>1. /\ texts' = [t \in DOMAIN texts \cup {text} |-> IF t = text THEN tree[text] ELSE texts[t]]
        /\ tree[text] = Committed(plan.revision)[text]
    BY <1>1, <1>3 DEF TextFits
  <2> QED BY <1>1, <2>1 DEF TextsFrozen
<1> QED BY <1>2, <1>3

LEMMA FrozenParts == DeliveredAsFrozen <=> TextsFrozen /\ SentFrozen /\ CapturedFrozen
BY DEF DeliveredAsFrozen, TextsFrozen, SentFrozen, CapturedFrozen

LEMMA FrozenPartsNext == DeliveredAsFrozen' <=> TextsFrozen' /\ SentFrozen' /\ CapturedFrozen'
BY DEF DeliveredAsFrozen, TextsFrozen, SentFrozen, CapturedFrozen

\* What an action that leaves a part of the delivery alone leaves true of it.
LEMMA FrozenSame ==
    ASSUME UNCHANGED plan
    PROVE  /\ Kit' = Kit /\ \A k : FrozenKit(k)' = FrozenKit(k)
           /\ UNCHANGED texts => TextsFrozen' = TextsFrozen
           /\ UNCHANGED sent => SentFrozen' = SentFrozen
           /\ UNCHANGED captured => CapturedFrozen' = CapturedFrozen
BY DEF Kit, FrozenKit, TextsFrozen, SentFrozen, CapturedFrozen

Gates == Approve \/ VerifyPlan \/ VerifyAuthorization \/ VerifyDocker \/ VerifyCode \/ VerifyInputs
         \/ VerifyLimits \/ CompareRebuilt \/ Claim

LEMMA GatesKeep ==
    Gates => /\ epc \in BeforeTheClaim /\ epc' \in BeforeTheClaim \cup {"kit"}
             /\ UNCHANGED <<task, staged, texts, output, sent, captured>>
BY DEF Gates, BeforeTheClaim, Approve, VerifyPlan, VerifyAuthorization, VerifyDocker, VerifyCode,
       VerifyInputs, VerifyLimits, CompareRebuilt, Claim, Gate, ExecutorKeeps

LEMMA OthersDeliver ==
    Others /\ ~Tamper => UNCHANGED <<staged, texts, output, sent, captured>>
BY DEF Others, Plan, Rebuild, inputVars

LEMMA DeliveryKept ==
    ASSUME GatesInv, DeliveryInv, DeliveredAsFrozen, [MaterialNext]_materialVars
    PROVE  DeliveryInv' /\ DeliveredAsFrozen'
<1> USE DEF DeliveryInv
<1>1. CASE UNCHANGED <<task, plan, epc, staged, texts, output, sent, captured>>
  <2>1. ChangeTask' = ChangeTask /\ FrozenKit(output)' = FrozenKit(output) /\ Kit' = Kit
    BY <1>1 DEF ChangeTask, FrozenKit, Kit
  <2> QED BY <1>1, <2>1, FrozenSame, FrozenParts, FrozenPartsNext
<1>2. CASE Tamper
  <2>1. /\ UNCHANGED <<task, plan, epc, texts, output, sent, captured>>
        /\ staged' = [staged EXCEPT !.changed = TRUE]
    BY <1>2 DEF Tamper
  <2>2. /\ staged' = [version |-> staged'.version, changed |-> staged'.changed]
        /\ staged'.version = staged.version /\ staged'.changed
    BY <2>1
  <2>3. ChangeTask' = ChangeTask /\ FrozenKit(output)' = FrozenKit(output) /\ Kit' = Kit
    BY <2>1 DEF ChangeTask, FrozenKit, Kit
  <2> HIDE DEF DeliveryInv
  <2>4. DeliveryInv'
    BY <2>1, <2>2, <2>3 DEF DeliveryInv
  <2> QED BY <2>1, <2>4, FrozenSame, FrozenParts, FrozenPartsNext
<1>3. CASE Gates
  <2>1. DOMAIN texts = {} /\ sent = {} /\ captured = {} /\ texts' = texts
    BY <1>3, GatesKeep
  <2>2. DeliveryInv'
    BY <1>3, <2>1, GatesKeep DEF Staged, BeforeTheClaim
  <2>3. DeliveredAsFrozen'
    BY <1>3, <2>1, GatesKeep DEF DeliveredAsFrozen
  <2> QED BY <2>2, <2>3
<1>4. ASSUME Attempt
      PROVE  DeliveryInv' /\ DeliveredAsFrozen'
  <2> USE <1>4
  <2>1. /\ epc \notin BeforeTheClaim /\ epc' \notin BeforeTheClaim /\ UNCHANGED <<task, plan>>
        /\ ChangeTask' = ChangeTask
    BY AttemptKeeps DEF ChangeTask
  <2>2. /\ Kit' = Kit /\ FrozenKit(output)' = FrozenKit(output') /\ FrozenKit(NoKit)
    BY <2>1 DEF Kit, FrozenKit
  <2>3. CASE StageKit
    <3>1. /\ epc' \in {"prompt", "failed"} /\ UNCHANGED <<texts, output, sent, captured>>
          /\ epc' = "failed" => staged' = staged
          /\ epc' = "prompt" =>
               /\ staged' = [version |-> tree["kit"], changed |-> FALSE]
               /\ tree["kit"] = plan.inputs["kit"] /\ epc = "kit"
      BY <2>3 DEF StageKit, Step, KitFits
    <3>2. staged' = [version |-> staged'.version, changed |-> staged'.changed]
      BY <3>1
    <3>3. epc' = "prompt" => staged'.version = Kit' /\ output = NoKit
      BY <2>1, <2>2, <3>1, FrozenIsCommitted DEF Kit
    <3>4. DeliveryInv'
      BY <2>1, <2>2, <3>1, <3>2, <3>3 DEF Staged
    <3> QED BY <2>1, <3>1, <3>4, FrozenSame, FrozenParts, FrozenPartsNext
  <2>4. ASSUME NEW text, NEW from, NEW to, ReadText(text, from, to),
               \/ text = "prompt" /\ from = "prompt" /\ to = "brief"
               \/ text = "driver_brief" /\ from = "brief" /\ to = "sandbox"
               \/ text = "change_request" /\ from = "reveal" /\ to = "ask"
        PROVE  DeliveryInv' /\ DeliveredAsFrozen'
    <3>1. plan.inputs[text] = Committed(plan.revision)[text] \/ epc # from
      BY <2>1, <2>4, FrozenIsCommitted
    <3>2. epc = from
      BY <2>4 DEF ReadText, Step
    <3>3. /\ TextsFrozen' /\ DOMAIN texts' \subseteq DOMAIN texts \cup {text}
          /\ epc' \in {to, "failed"} /\ UNCHANGED <<task, plan, staged, output, sent, captured>>
      BY <2>1, <2>4, <3>1, <3>2, TextRead, FrozenParts
    <3>4. DeliveryInv'
      BY <2>1, <2>2, <2>4, <3>2, <3>3 DEF Staged
    <3> QED BY <2>1, <3>3, <3>4, FrozenSame, FrozenParts, FrozenPartsNext
  <2>5. CASE ReadPrompt \/ ReadBrief \/ Reveal
    BY <2>4, <2>5 DEF ReadPrompt, ReadBrief, Reveal
  <2>6. CASE Ask
    <3>1. /\ epc = "ask" /\ epc' \in {"before", "ended", "failed"} /\ sent' = sent \cup Messages
          /\ UNCHANGED <<staged, texts, output, captured>>
      BY <2>6 DEF Ask
    <3>2. \A m \in Messages :
            ~m.changed /\ m.of = Committed(plan.revision)[IF m.what = "output" THEN "kit" ELSE m.what]
      <4>1. \A t \in DOMAIN texts : texts[t] = Committed(plan.revision)[t] /\ t # "output"
        BY FrozenParts DEF TextsFrozen
      <4>2. output # NoKit => output.version = Committed(plan.revision)["kit"] /\ ~output.changed
        BY <3>1 DEF FrozenKit, Kit
      <4> QED BY <4>1, <4>2 DEF Messages
    <3>3. SentFrozen'
      BY <2>1, <3>1, <3>2, FrozenParts DEF SentFrozen
    <3>4. DeliveryInv'
      BY <2>1, <2>2, <3>1 DEF Staged
    <3> QED BY <2>1, <3>1, <3>3, <3>4, FrozenSame, FrozenParts, FrozenPartsNext
  <2>7. CASE StartSandbox \/ VerifyBefore \/ VerifyAfter \/ EndPhase
    <3>1. /\ UNCHANGED <<staged, texts, output, sent, captured>>
          /\ \/ epc = "sandbox" /\ epc' \in {"ask", "failed"}
             \/ epc = "before" /\ epc' \in {"script", "failed"}
             \/ epc = "after" /\ (epc' # "failed" => epc' = "ask" /\ ~staged.changed)
             \/ epc = "ended" /\ (epc' # "failed" => epc' = "capture" /\ output # NoKit)
      BY <2>7 DEF StartSandbox, VerifyBefore, VerifyAfter, EndPhase, Step, KitIntact
    <3>2. DeliveryInv'
      BY <2>1, <2>2, <3>1 DEF Staged, FrozenKit
    <3> QED BY <2>1, <3>1, <3>2, FrozenSame, FrozenParts, FrozenPartsNext
  <2>8. CASE RunScript
    <3>1. /\ epc = "script" /\ epc' \in {"after", "failed"} /\ output' = staged
          /\ UNCHANGED <<staged, texts, sent, captured>>
      BY <2>8 DEF RunScript
    <3>2. DeliveryInv'
      BY <2>1, <2>2, <3>1 DEF Staged
    <3> QED BY <2>1, <3>1, <3>2, FrozenSame, FrozenParts, FrozenPartsNext
  <2>9. CASE Capture
    <3>1. /\ epc = "capture" /\ captured' = captured \cup {output}
          /\ epc' \in {"reveal", "completed", "failed"} /\ (epc' = "reveal" => ChangeTask)
          /\ UNCHANGED <<staged, texts, output, sent>>
      BY <2>9 DEF Capture, Step
    <3>2. ~output.changed /\ output.version = Kit
      BY <3>1 DEF FrozenKit
    <3>3. CapturedFrozen'
      BY <2>1, <3>1, <3>2, FrozenParts DEF CapturedFrozen, Kit
    <3>4. DeliveryInv'
      BY <2>1, <2>2, <3>1 DEF Staged, FrozenKit
    <3> QED BY <2>1, <3>1, <3>3, <3>4, FrozenSame, FrozenParts, FrozenPartsNext
  <2> QED BY <2>3, <2>5, <2>6, <2>7, <2>8, <2>9 DEF Attempt
<1>5. UNCHANGED materialVars => UNCHANGED <<task, plan, epc, staged, texts, output, sent, captured>>
  BY DEF materialVars, plannerVars, inputVars
<1>6. CASE Others /\ ~Tamper
  BY <1>1, <1>6, OthersKeep, OthersDeliver
<1> HIDE DEF DeliveryInv
<1> QED BY <1>1, <1>2, <1>3, <1>4, <1>5, <1>6 DEF MaterialNext, Others, Gates, Attempt

\* A plan's seeds are as many as its runs: no two of them have one identity.
LEMMA SeedsCounted ==
    ASSUME NEW seeds \in SeedLists, SeedsFit(seeds)
    PROVE  Cardinality({SeedIdentity(seeds[i]) : i \in DOMAIN seeds}) = Len(seeds)
<1> DEFINE Ids == {SeedIdentity(seeds[i]) : i \in DOMAIN seeds}
           identity == [i \in 1..Len(seeds) |-> SeedIdentity(seeds[i])]
<1>1. seeds \in Seq(STRING) /\ Len(seeds) \in Nat /\ DOMAIN seeds = 1..Len(seeds)
  BY SeedListsAssumption
<1>2. identity \in Bijection(1..Len(seeds), Ids)
  BY <1>1 DEF SeedsFit, Bijection, Injection, Surjection, IsInjective
<1>3. IsFiniteSet(1..Len(seeds)) /\ Cardinality(1..Len(seeds)) = Len(seeds)
  BY <1>1, FS_Interval
<1>4. ExistsBijection(1..Len(seeds), Ids)
  BY <1>2 DEF ExistsBijection
<1> QED BY <1>3, <1>4, FS_Bijection

LEMMA ClaimedIsJustified == ASSUME GatesInv PROVE ClaimJustified
<1> SUFFICES ASSUME epc \notin BeforeTheClaim
             PROVE  ClaimJustified
  BY DEF ClaimJustified
<1>1. /\ plan.seeds \in SeedLists /\ PlanFits(plan) /\ auth.plan = plan /\ CommittedInputsFit
      /\ \A f \in CodeFiles : Vetted(f)
      /\ plan.planner = Committed(plan.revision)["planner"] /\ Remade(plan)
  BY DEF GatesInv, BeforeTheClaim
<1>2. /\ auth.revision = plan.revision
      /\ \A f \in CodeFiles : auth.code[f] = Committed(plan.revision)[f]
  BY <1>1 DEF Vetted, CodeFiles
<1>3. /\ plan.registry = Committed(plan.revision)["registry"]
      /\ \A i \in InputsOf(task) : plan.inputs[i] = Committed(plan.revision)[FileOf(task, i)]
  BY <1>1, FrozenIsCommitted DEF CommittedInputsFit
<1>4. /\ plan.safety = "nothing allowed" /\ plan.evidence = "none" /\ SeedsFit(plan.seeds)
      /\ Len(plan.seeds) >= Minimum
  BY <1>1 DEF PlanFits, SafetyFits, RunsFit, SeedsFit
<1>5. Cardinality({SeedIdentity(plan.seeds[i]) : i \in DOMAIN plan.seeds}) = Len(plan.seeds)
  BY <1>1, <1>4, SeedsCounted
<1>6. plan.matched = Cardinality(RegisteredIn(plan.registry))
  BY <1>1 DEF Remade
<1>7. \A r \in RegisteredIn(Committed(plan.revision)["registry"]) :
        /\ r.kit = plan.inputs["kit"]
        /\ SeedIdentity(r.seed) \notin {SeedIdentity(plan.seeds[i]) : i \in DOMAIN plan.seeds}
  BY <1>1, <1>3 DEF Remade, Collides
<1> QED BY <1>1, <1>2, <1>3, <1>4, <1>5, <1>6, <1>7 DEF ClaimJustified

\* InputsInv is inductive: what a step has found is in the commit that it was compared with,
\* and a commit does not change (execute_plan, from the plan to the last delivery).
THEOREM InputsCorrect == MaterialSpec => []InputsInv
<1>1. MaterialInit => InputsInv
  BY InputsInit
<1>2. InputsInv /\ [MaterialNext]_materialVars => InputsInv'
  BY BuildKept, GatesKept, DeliveryKept DEF InputsInv
<1> QED BY <1>1, <1>2, PTL DEF MaterialSpec

\* A slot is claimed only for what one commit holds (executor: the gates of execute_plan),
\* however many edits others make between whichever of its steps, for every list of seeds.
THEOREM ClaimJustifiedCorrect == MaterialSpec => []ClaimJustified
<1>1. InputsInv => ClaimJustified
  BY ClaimedIsJustified DEF InputsInv
<1> QED BY <1>1, InputsCorrect, PTL

\* What the provider is given, and what the evidence is made from, is what the plan's commit
\* holds (executor: the staged kit and the texts), whatever others do to the files meanwhile.
THEOREM DeliveredAsFrozenCorrect == MaterialSpec => []DeliveredAsFrozen
<1>1. InputsInv => DeliveredAsFrozen
  BY DEF InputsInv
<1> QED BY <1>1, InputsCorrect, PTL

-----------------------------------------------------------------------------
(* What the campaign controller hands over. *)

Slots == 1..Len(campaign.slots)

\* A call of the executor: what it was given, and when, in the order of the slots.
Handing(h) ==
    /\ h.slot \in Slots /\ h.slot <= index
    /\ h.plan = campaign.slots[h.slot].plan /\ h.auth = campaign.slots[h.slot].auth
    /\ SlotVerified([plan |-> h.plan, auth |-> h.auth, profile |-> campaign.slots[h.slot].profile],
                    campaign.slots[h.slot], h.turn)
    /\ CampaignCurrent(campaign, h.turn)
    /\ h.at \in Nat /\ h.at <= now /\ h.turn \in Nat
    /\ \A g \in handed : g.slot < h.slot => g.at <= h.turn

\* The executor went on with a call, with the profile of its plan and before its
\* authorization ran out.
Ran(r) ==
    \E h \in handed : h.slot = r.slot /\ r.profile = h.plan.profile /\ r.at < h.auth.expires

CampaignInv ==
    /\ campaign \in Campaigns /\ now \in Nat /\ index \in Nat
    /\ (npc \notin {"begin", "refused"} \/ pass = "turn") => CampaignFits(campaign)
    /\ (pass = "turn" \/ npc = "lock") => mode = "execute"
    /\ pass \in {"first", "turn"} /\ (pass = "first" => handed = {})
    /\ npc \in {"begin", "source", "lock"} => pass = "first" /\ index = 1
    /\ npc \in {"slot", "executing"} => pass = "turn"
    /\ pass = "turn" /\ npc \in {"plan", "authorization", "profile"} =>
         /\ index \in Slots /\ taken = turn /\ turn \in Nat /\ turn <= now
         /\ CampaignCurrent(campaign, turn)
         /\ \A g \in handed : g.slot < index /\ g.at <= turn
    /\ npc = "slot" => index >= 1 /\ \A g \in handed : g.slot < index
    /\ \A h \in handed : Handing(h)
    /\ npc = "executing" =>
         /\ bytes = [plan |-> bytes.plan, auth |-> bytes.auth, profile |-> bytes.profile]
         /\ \E h \in handed : h.slot = index /\ h.plan = bytes.plan /\ h.auth = bytes.auth
    /\ \A r \in ran : Ran(r)

LEMMA HandingKept ==
    ASSUME NEW h, Handing(h), UNCHANGED campaign,
           now \in Nat, now' \in Nat, now <= now', index \in Nat, index' \in Nat, index <= index',
           \A g \in handed' : g \in handed \/ h.slot <= g.slot,
           \A g \in handed' : g.slot \in Nat
    PROVE  Handing(h)'
<1>1. campaign' = campaign
  OBVIOUS
<1>2. /\ h.slot \in Slots /\ h.slot <= index
      /\ h.plan = campaign.slots[h.slot].plan /\ h.auth = campaign.slots[h.slot].auth
      /\ CampaignCurrent(campaign, h.turn)
      /\ h.at \in Nat /\ h.at <= now /\ h.turn \in Nat
      /\ \A g \in handed : g.slot < h.slot => g.at <= h.turn
  BY DEF Handing
<1>3. Slots' = Slots /\ h.slot \in Int
  BY <1>1, <1>2 DEF Slots
<1>4. h.slot <= index' /\ h.at <= now'
  BY <1>2, <1>3
<1>5. \A g \in handed' : g.slot < h.slot => g.at <= h.turn
  BY <1>2, <1>3
<1>6. SlotVerified([plan |-> h.plan, auth |-> h.auth, profile |-> campaign.slots[h.slot].profile],
                   campaign.slots[h.slot], h.turn)'
  <2> DEFINE b == [plan |-> h.plan, auth |-> h.auth, profile |-> campaign.slots[h.slot].profile]
             s == campaign.slots[h.slot]
  <2>1. SlotVerified(b, s, h.turn)
    BY DEF Handing
  <2>2. b' = b /\ s' = s
    BY <1>1
  <2> HIDE DEF b, s
  <2>3. SlotVerified(b, s, h.turn)'
    BY <1>1, <2>1, <2>2 DEF SlotVerified
  <2> QED BY <2>3 DEF b, s
<1> QED BY <1>1, <1>2, <1>3, <1>4, <1>5, <1>6 DEF Handing

LEMMA RanKept ==
    ASSUME NEW r, Ran(r), handed \subseteq handed'
    PROVE  Ran(r)'
BY DEF Ran

LEMMA CampaignBegins == CampaignInit => CampaignInv
<1> SUFFICES ASSUME CampaignInit
             PROVE  CampaignInv
  OBVIOUS
<1>1. /\ campaign \in Campaigns /\ now \in Nat /\ npc = "begin" /\ pass = "first" /\ index = 1
      /\ handed = {} /\ ran = {}
  BY TimesAssumption DEF CampaignInit
<1> QED BY <1>1 DEF CampaignInv

LEMMA CampaignStep ==
    ASSUME CampaignInv, [CampaignNext]_campaignVars
    PROVE  CampaignInv'
<1>1. /\ campaign \in Campaigns /\ now \in Nat /\ index \in Nat
      /\ \A h \in handed : Handing(h) /\ h.slot \in Nat /\ h.slot <= index /\ h.at <= now
      /\ \A r \in ran : Ran(r)
  BY CampaignsAssumption DEF CampaignInv, Handing, Slots
\* Most steps only read, or edit, or let time pass.
<1>2. ASSUME UNCHANGED <<campaign, mode, handed, ran>>, now' \in Nat, now <= now',
             index' \in Nat, index <= index' \/ handed = {}
      PROVE  /\ \A h \in handed' : Handing(h)'
             /\ \A r \in ran' : Ran(r)'
             /\ campaign' \in Campaigns /\ CampaignFits(campaign)' = CampaignFits(campaign)
             /\ Slots' = Slots
  BY <1>1, <1>2, HandingKept, RanKept DEF Slots
<1>3. CASE UNCHANGED campaignVars
  BY <1>2, <1>3, <1>1 DEF campaignVars, CampaignInv, Slots
<1>4. CASE Touch
  BY <1>1, <1>2, <1>4 DEF Touch, CampaignInv
<1>5. CASE Tick
  <2>1. now' \in Nat /\ now < now'
    BY <1>1, <1>5 DEF Tick
  <2> QED BY <1>1, <1>2, <1>5, <2>1 DEF Tick, CampaignInv
<1>6. CASE Begin
  BY <1>1, <1>2, <1>6 DEF Begin, CampaignInv
<1>7. CASE CheckSource
  BY <1>1, <1>2, <1>7 DEF CheckSource, CampaignInv
<1>8. CASE ReadPlan
  BY <1>1, <1>2, <1>8 DEF ReadPlan, CampaignInv
<1>9. CASE ReadAuthorization
  BY <1>1, <1>2, <1>9 DEF ReadAuthorization, CampaignInv
<1>10. CASE ValidateFirst
  <2>1. pass = "first" /\ handed = {} /\ index' \in Nat
    BY <1>1, <1>10 DEF ValidateFirst, CampaignInv
  <2> QED BY <1>1, <1>2, <1>10, <2>1 DEF ValidateFirst, CampaignInv
<1>11. CASE TakeLock
  BY <1>1, <1>2, <1>11 DEF TakeLock, CampaignInv
<1>12. CASE TurnOf
  BY <1>1, <1>2, <1>12, CampaignsAssumption DEF TurnOf, TimeTaken, CampaignInv, Slots
<1>13. CASE HandOver
  <2>1. /\ npc = "profile" /\ pass = "turn" /\ mode = "execute" /\ UNCHANGED <<campaign, mode, pass>>
        /\ UNCHANGED <<now, turn, taken, index, ran>>
        /\ index \in Slots /\ taken = turn /\ turn \in Nat /\ turn <= now
        /\ CampaignCurrent(campaign, turn) /\ CampaignFits(campaign)
        /\ \A g \in handed : g.slot < index /\ g.at <= turn
    BY <1>13 DEF HandOver, CampaignInv
  <2>2. CASE ~Verified(ReadHere, SlotAtHand, taken)
    <3>1. npc' = "review" /\ handed' = handed
      BY <1>13, <2>2 DEF HandOver
    <3> QED BY <1>1, <1>2, <2>1, <3>1 DEF CampaignInv
  <2>3. CASE Verified(ReadHere, SlotAtHand, taken)
    <3> DEFINE s == campaign.slots[index]
    <3>0. PICK new : new = [slot |-> index, plan |-> bytes.plan, auth |-> bytes.auth, at |-> now,
                            turn |-> turn]
      OBVIOUS
    <3>1. npc' = "executing" /\ handed' = handed \cup {new} /\ bytes' = ReadHere
      BY <1>13, <2>3, <3>0 DEF HandOver
    <3>2. SlotVerified(ReadHere, s, turn)
      BY <2>1, <2>3 DEF Verified, SlotAtHand
    <3>3. ReadHere.plan = s.plan /\ ReadHere.auth = s.auth /\ ReadHere.profile = s.profile
      BY <3>2 DEF SlotVerified
    <3>4. /\ bytes.plan = s.plan /\ bytes.auth = s.auth
          /\ ReadHere = [plan |-> s.plan, auth |-> s.auth, profile |-> s.profile]
      BY <3>3 DEF ReadHere
    <3>5. /\ new.slot = index /\ new.plan = s.plan /\ new.auth = s.auth /\ new.at = now
          /\ new.turn = turn
      BY <3>0, <3>4
    <3>6. \A g \in handed : g.slot \in Nat /\ g.slot < index /\ g.at <= turn
      BY <1>1, <2>1
    <3>7. index \in Nat /\ now \in Nat
      BY <1>1
    <3>8. \A g \in handed' : g.slot \in Nat /\ (g \in handed \/ g = new)
      BY <3>1, <3>5, <3>6, <3>7
    <3>9. ASSUME NEW h \in handed
          PROVE  Handing(h)'
      <4>1. \A g \in handed' : g \in handed \/ h.slot <= g.slot
        BY <3>1, <3>5, <3>6, <3>7
      <4> QED BY <1>1, <2>1, <3>8, <4>1, HandingKept
    <3>10. Handing(new)'
      <4>1. \A g \in handed' : g.slot < new.slot => g.at <= new.turn
        BY <3>5, <3>6, <3>7, <3>8
      <4>2. SlotVerified([plan |-> new.plan, auth |-> new.auth, profile |-> s.profile], s, new.turn)
        BY <3>2, <3>4, <3>5
      <4>3. SlotVerified([plan |-> new.plan, auth |-> new.auth,
                          profile |-> campaign.slots[new.slot].profile],
                         campaign.slots[new.slot], new.turn)'
        BY <2>1, <3>5, <4>2 DEF SlotVerified
      <4>4. new.slot \in Slots' /\ new.slot <= index'
        BY <2>1, <3>5, <3>7 DEF Slots
      <4> QED BY <2>1, <3>4, <3>5, <3>7, <4>1, <4>3, <4>4 DEF Handing
    <3>11. \A r \in ran' : Ran(r)'
      BY <1>1, <2>1, <3>1, RanKept
    <3>12. /\ bytes' = [plan |-> bytes'.plan, auth |-> bytes'.auth, profile |-> bytes'.profile]
           /\ new \in handed' /\ new.plan = bytes'.plan /\ new.auth = bytes'.auth
      BY <3>1, <3>4, <3>5
    <3>13. \A h \in handed' : Handing(h)'
      BY <3>8, <3>9, <3>10
    <3> QED BY <1>1, <2>1, <3>1, <3>5, <3>11, <3>12, <3>13 DEF CampaignInv
  <2> QED BY <2>2, <2>3
<1>14. CASE ExecuteSlot
  <2> DEFINE profile == StableRead(SlotAtHand.profile_path)
             s == campaign.slots[index]
  <2>1. /\ npc = "executing" /\ pass = "turn" /\ mode = "execute" /\ CampaignFits(campaign)
        /\ UNCHANGED <<campaign, mode, pass, now, turn, taken, handed>>
        /\ index' = index + 1 /\ npc' \in {"slot", "review", "ended"}
        /\ bytes = [plan |-> bytes.plan, auth |-> bytes.auth, profile |-> bytes.profile]
    BY <1>14 DEF ExecuteSlot, CampaignInv
  <2>2. PICK h \in handed : h.slot = index /\ h.plan = bytes.plan /\ h.auth = bytes.auth
    BY <1>14, <2>1 DEF CampaignInv
  <2>3. index' \in Nat /\ index <= index' /\ index < index'
    BY <1>1, <2>1
  <2>4. \A r \in ran' : Ran(r)'
    <3>1. CASE ran' = ran
      BY <1>1, <2>1, <3>1, RanKept
    <3>2. CASE ran' # ran
      <4>0. PICK went : went = [slot |-> index, profile |-> profile, at |-> now]
        OBVIOUS
      <4>1. /\ ran' = ran \cup {went} /\ profile = s.profile
            /\ SlotVerified([bytes EXCEPT !.profile = profile], s, now)
        BY <1>14, <3>2, <4>0 DEF ExecuteSlot, SlotAtHand
      <4>2. [bytes EXCEPT !.profile = profile] =
              [plan |-> bytes.plan, auth |-> bytes.auth, profile |-> profile]
        BY <2>1
      <4>3. bytes.plan.profile = profile /\ now < bytes.auth.expires
        BY <4>1, <4>2 DEF SlotVerified, ProfileMatches, AuthorizationVerified
      <4>4. went.slot = index /\ went.profile = profile /\ went.at = now
        BY <4>0
      <4> HIDE DEF profile
      <4>5. Ran(went)'
        BY <2>1, <2>2, <4>3, <4>4 DEF Ran
      <4> QED BY <1>1, <2>1, <4>1, <4>5, RanKept
    <3> QED BY <3>1, <3>2
  <2>5. \A g \in handed' : Handing(g)' /\ g.slot < index'
    <3>1. \A g \in handed : g.slot \in Nat /\ g.slot <= index
      BY <1>1
    <3>2. \A g \in handed' : g.slot < index' /\ g.slot \in Nat
      BY <1>1, <2>1, <3>1
    <3> QED BY <1>1, <2>1, <2>3, <3>2, HandingKept
  <2>6. index' >= 1
    BY <1>1, <2>1
  <2> QED BY <1>1, <2>1, <2>3, <2>4, <2>5, <2>6 DEF CampaignInv
<1> QED
  BY <1>3, <1>4, <1>5, <1>6, <1>7, <1>8, <1>9, <1>10, <1>11, <1>12, <1>13, <1>14 DEF CampaignNext

\* Two slots of a campaign that fits have different runs and different authorization files.
LEMMA SlotsDiffer ==
    ASSUME CampaignInv, CampaignFits(campaign), NEW i \in Slots, NEW j \in Slots, i # j
    PROVE  /\ Fold(campaign.slots[i].run) # Fold(campaign.slots[j].run)
           /\ Fold(campaign.slots[i].auth_path) # Fold(campaign.slots[j].auth_path)
<1>1. DOMAIN campaign.slots = Slots /\ Slots = 1..Len(campaign.slots) /\ Len(campaign.slots) \in Nat
  BY CampaignsAssumption DEF CampaignInv, Slots
<1>2. \A k \in Slots : \A l \in 1..(k - 1) :
        PathsFit(campaign.slots[k], campaign.slots[l]) /\ RunIdsFit(campaign.slots[k], campaign.slots[l])
  BY <1>1 DEF CampaignFits
<1>3. \A k, l \in Slots : l < k =>
        /\ Fold(campaign.slots[k].run) # Fold(campaign.slots[l].run)
        /\ Fold(campaign.slots[k].auth_path) # Fold(campaign.slots[l].auth_path)
  <2> SUFFICES ASSUME NEW k \in Slots, NEW l \in Slots, l < k
               PROVE  /\ Fold(campaign.slots[k].run) # Fold(campaign.slots[l].run)
                      /\ Fold(campaign.slots[k].auth_path) # Fold(campaign.slots[l].auth_path)
    OBVIOUS
  <2>1. l \in 1..(k - 1)
    BY <1>1
  <2> QED BY <1>2, <2>1 DEF PathsFit, RunIdsFit
<1>4. i < j \/ j < i
  BY <1>1
<1> QED BY <1>3, <1>4

\* What every call has in common with what its slot and the campaign say.
LEMMA HandedFits ==
    ASSUME NEW h, Handing(h)
    PROVE  LET s == campaign.slots[h.slot]
               p == h.plan.profile
           IN  /\ Occurrences(s.run, h.plan.runs) = 1
               /\ h.plan.revision = campaign.revision
               /\ h.auth.plan = h.plan /\ h.auth.run = s.run /\ h.auth.profile = p
               /\ p.host = "loopback" /\ h.auth.host = "loopback" /\ h.auth.free
               /\ p.name = <<p.revision, p.launch>> /\ Launches[p.launch].revision = p.revision
               /\ h.plan.model = p.name /\ h.auth.model = p.name
               /\ campaign.from <= h.turn /\ h.turn < campaign.until
               /\ h.auth.issued - Slack <= h.turn /\ h.turn < h.auth.expires
<1> DEFINE s == campaign.slots[h.slot]
           p == s.profile
<1>1. PICK b : b = [plan |-> h.plan, auth |-> h.auth, profile |-> p]
  OBVIOUS
<1>2. /\ b.plan = h.plan /\ b.auth = h.auth /\ b.profile = p
      /\ SlotVerified(b, s, h.turn) /\ CampaignCurrent(campaign, h.turn)
      /\ h.plan = s.plan /\ h.auth = s.auth
  BY <1>1 DEF Handing
<1> HIDE DEF s
<1>3. /\ ProfileVerified(p) /\ h.plan.revision = campaign.revision
      /\ Occurrences(s.run, h.plan.runs) = 1 /\ h.plan.model = p.name
      /\ AuthorizationVerified(h.auth, s, p, h.turn) /\ AutomationOnly(h.auth)
      /\ ProfileMatches(p, h.plan, h.auth)
  BY <1>2 DEF SlotVerified
<1>4. h.plan.profile = p /\ h.auth.model = p.name
  BY <1>3 DEF ProfileMatches
<1>5. /\ h.auth.plan = h.plan /\ h.auth.run = s.run /\ h.auth.profile = p
      /\ h.auth.issued - Slack <= h.turn /\ h.turn < h.auth.expires
  BY <1>2, <1>3 DEF AuthorizationVerified
<1>6. h.auth.host = "loopback" /\ h.auth.free
  BY <1>3 DEF AutomationOnly
<1>7. /\ p.host = "loopback" /\ p.name = <<p.revision, p.launch>>
      /\ Launches[p.launch].revision = p.revision
  BY <1>3 DEF ProfileVerified, Endpoint, ProviderIdentified, ServedName, LaunchFits
<1>8. campaign.from <= h.turn /\ h.turn < campaign.until
  BY <1>2 DEF CampaignCurrent
<1> QED BY <1>2, <1>3, <1>4, <1>5, <1>6, <1>7, <1>8 DEF s

\* CampaignInv is inductive: what the slot's turn has read of the slot's documents is what the
\* campaign approved (run_campaign, for any campaign document and any edits).
THEOREM CampaignCorrect == CampaignSpec => []CampaignInv
<1> QED BY CampaignBegins, CampaignStep, PTL DEF CampaignSpec

\* Every call of the executor is for what was approved (nightwatch: run_campaign, from the
\* envelope to execute_plan), whatever campaign was given, whoever edits its documents in
\* between, and however late it is by then.
THEOREM HandedAsApprovedCorrect == CampaignSpec => []HandedAsApproved
<1>1. ASSUME CampaignInv
      PROVE  HandedAsApproved
  <2>1. /\ \A h \in handed : Handing(h)
        /\ \A r \in ran : Ran(r)
        /\ handed # {} => mode = "execute" /\ CampaignFits(campaign)
    BY <1>1 DEF CampaignInv
  <2>2. \A h \in handed : h.slot \in Slots /\ \A g \in handed : g.slot < h.slot => g.at <= h.turn
    BY <2>1 DEF Handing
  <2>3. ASSUME NEW g \in handed, NEW h \in handed, g.slot # h.slot
        PROVE  LET s == campaign.slots[g.slot]
                   t == campaign.slots[h.slot]
               IN  Fold(s.run) # Fold(t.run) /\ Fold(s.auth_path) # Fold(t.auth_path) /\ g.auth # h.auth
    <3>1. g.slot \in Slots /\ h.slot \in Slots /\ CampaignFits(campaign)
      BY <2>1, <2>2
    <3>2. /\ Fold(campaign.slots[g.slot].run) # Fold(campaign.slots[h.slot].run)
          /\ Fold(campaign.slots[g.slot].auth_path) # Fold(campaign.slots[h.slot].auth_path)
      BY <1>1, <2>3, <3>1, SlotsDiffer
    <3>3. g.auth.run = campaign.slots[g.slot].run /\ h.auth.run = campaign.slots[h.slot].run
      BY <2>1, HandedFits
    <3> QED BY <3>2, <3>3
  <2>4. \A r \in ran : \E h \in handed :
          h.slot = r.slot /\ r.profile = h.plan.profile /\ r.at < h.auth.expires
    BY <2>1 DEF Ran
  <2>5. ASSUME NEW h \in handed
        PROVE  LET s == campaign.slots[h.slot]
                   p == h.plan.profile
               IN  /\ Occurrences(s.run, h.plan.runs) = 1
                   /\ h.plan.revision = campaign.revision
                   /\ h.auth.plan = h.plan /\ h.auth.run = s.run /\ h.auth.profile = p
                   /\ p.host = "loopback" /\ h.auth.host = "loopback" /\ h.auth.free
                   /\ p.name = <<p.revision, p.launch>> /\ Launches[p.launch].revision = p.revision
                   /\ h.plan.model = p.name /\ h.auth.model = p.name
                   /\ campaign.from <= h.turn /\ h.turn < campaign.until
                   /\ h.auth.issued - Slack <= h.turn /\ h.turn < h.auth.expires
                   /\ \A g \in handed : g.slot < h.slot => g.at <= h.turn
    BY <2>1, <2>2, HandedFits
  <2> QED BY <2>1, <2>3, <2>4, <2>5 DEF HandedAsApproved
<1> QED BY <1>1, CampaignCorrect, PTL

-----------------------------------------------------------------------------
(* How the evidence is taken. *)

Contents == {"baseline", "change", "final", "secret", "other"}
Whole(pair) == pair # Nothing /\ pair = <<pair[1], pair[1]>>

FilesInv ==
    /\ clock \in Nat /\ phase \in {"baseline", "change", "final"}
    /\ cpc = "conversation" => phase # "final"
    /\ cpc = "reveal" => phase = "baseline"
    /\ files = [f \in Workspace \cup {Baseline} |-> files[f]]
    /\ \A f \in Workspace \cup {Baseline} :
         files[f] = Absent \/ (files[f].id \in 1..clock /\ files[f].content \in Contents)

\* Looking at files in turn.
Turns == {"scrub", "cleanup", "inventory", "members", "again"}
\* The STEP has been found; and, between its search and the next phase, scrubbed files.
Found == {"copy", "inventory", "members", "again", "reveal"}
Scrubbed == Found \cup {"find"}

\* A file that still has the identity it was opened with has the content it was opened with.
ReadInv ==
    /\ todo \in Seq(Workspace)
    /\ cpc \in Found => found.file \in StepNames
    /\ cpc \in {"conversation", "reveal", "ended"} => reading = Nothing
    /\ reading # Nothing =>
         /\ reading.file \in Workspace \cup {Baseline} /\ reading.id \in 1..clock
         /\ reading.chunk \in Contents
         /\ files[reading.file].id = reading.id => files[reading.file].content = reading.chunk
         /\ cpc \in Turns => todo # <<>> /\ reading.file = Head(todo)
         /\ cpc = "find" => reading.file \in StepNames
         /\ cpc = "copy" => reading.file = IF phase = "final" THEN Baseline ELSE found.file

\* Once a baseline STEP has been found, there is no other; and none when the change is made.
NoneOf(content, names) == \A f \in names : files[f].content # content
BaselineInv ==
    /\ phase = "baseline" /\ cpc = "find" /\ reading # Nothing =>
         NoneOf("baseline", StepNames \ {reading.file})
    /\ phase = "baseline" /\ cpc \in Found => NoneOf("baseline", StepNames \ {found.file})
    /\ phase = "change" =>
         /\ NoneOf("baseline", StepNames)
         /\ reading # Nothing /\ reading.file \in StepNames => reading.chunk # "baseline"

\* Where the credential may still be.
CleanInv ==
    /\ files[Baseline].content # "secret"
    /\ Scrubbing => NoneOf("secret", Workspace \ (Range(todo) \cup unsafe))
    /\ cpc \in Scrubbed =>
         NoneOf("secret", Workspace) /\ (reading # Nothing => reading.chunk # "secret")
    /\ cpc # "ended" => guard = "pending"
    /\ guard = "passed" => NoneOf("secret", Workspace)

\* What has been recorded, and what goes into the archive.
RecordInv ==
    /\ \A n \in DOMAIN evidence :
         /\ n[2] = "step" =>
              /\ Whole(evidence[n]) /\ evidence[n][1] # "secret"
              /\ n[1] = "change" => evidence[n][1] # "baseline"
         /\ n[2] # "step" => \A f \in DOMAIN evidence[n] : "secret" \notin Range(evidence[n][f])
    /\ cpc \in {"inventory", "members", "again"} =>
         \A f \in DOMAIN members : "secret" \notin Range(members[f])

\* The first inventory: identities, and the contents that were read.
FirstInv ==
    cpc \in {"inventory", "members", "again"} =>
        /\ dirs \in Seq(SUBSET Workspace) /\ (dirs = Directories \/ Len(dirs) < Len(Directories))
        /\ DOMAIN first \subseteq Workspace
        /\ \A f \in DOMAIN first :
             /\ first[f].id \in 1..clock
             /\ Whole(first[f].content) \/ (cpc = "inventory" /\ f \in Range(todo))
             /\ Whole(first[f].content) /\ files[f].id = first[f].id =>
                  files[f].content = first[f].content[1]
        /\ cpc = "inventory" => again = <<>> /\ members = <<>>
        /\ cpc # "inventory" \/ dirs # Directories => State \in seen

MembersInv ==
    /\ cpc = "members" => again = <<>> /\ DOMAIN members \cup Range(todo) = DOMAIN first \ StepNames
    /\ cpc = "again" => DOMAIN members = DOMAIN first \ StepNames
    /\ cpc \in {"members", "again"} => \A f \in DOMAIN members : members[f] = first[f].content

\* The archive is of the moment at which the second inventory began.
AgainInv ==
    /\ cpc = "again" /\ dirs = Directories => again = <<>> /\ todo = <<>>
    /\ cpc = "again" /\ dirs # Directories =>
         \E s \in seen :
           /\ \A f \in Head(Directories) \ StepNames : f \notin DOMAIN again => s[f] = "none"
           /\ \A f \in DOMAIN first :
                (f \in DOMAIN again /\ again[f] = first[f]) \/ files[f].id = first[f].id =>
                  s[f] = first[f].content[1]

CaptureInv ==
    FilesInv /\ ReadInv /\ BaselineInv /\ CleanInv /\ RecordInv /\ FirstInv /\ MembersInv /\ AgainInv

\* What is known of the layout, and of what is left of it to list.
LEMMA WorkspaceIs ==
    /\ IsFiniteSet(Workspace) /\ Baseline \notin Workspace
    /\ StepNames \subseteq Workspace /\ Head(Directories) \subseteq Workspace
    /\ Directories \in Seq(SUBSET Workspace) /\ Directories # <<>>
BY LayoutAssumption

LEMMA RestOfWalk ==
    ASSUME NEW rest \in Seq(SUBSET Workspace), rest # <<>>,
           rest = Directories \/ Len(rest) < Len(Directories)
    PROVE  /\ Head(rest) \subseteq Workspace /\ Tail(rest) \in Seq(SUBSET Workspace)
           /\ Tail(rest) # Directories /\ Len(Tail(rest)) < Len(Directories)
<1>1. Head(rest) \in SUBSET Workspace /\ Tail(rest) \in Seq(SUBSET Workspace)
  OBVIOUS
<1>2. Len(Tail(rest)) = Len(rest) - 1 /\ Len(rest) \in Nat /\ Len(Directories) \in Nat
  BY WorkspaceIs
<1> QED BY <1>1, <1>2

\* The files of a set, one after the other.
LEMMA InTurn ==
    ASSUME NEW S, S \subseteq Workspace
    PROVE  SetToSeq(S) \in Seq(Workspace) /\ Range(SetToSeq(S)) = S
<1>1. IsFiniteSet(S) /\ Cardinality(S) \in Nat
  BY WorkspaceIs, FS_Subset, FS_CardinalityType
<1>2. ExistsBijection(1..Cardinality(S), S)
  BY <1>1, FS_CardinalityType
<1>3. \E f \in [1..Cardinality(S) -> S] : IsInjective(f)
  BY <1>2 DEF ExistsBijection, Bijection, Injection
<1> DEFINE q == SetToSeq(S)
<1>4. q \in [1..Cardinality(S) -> S] /\ IsInjective(q)
  BY <1>3 DEF SetToSeq
<1>5. q \in Injection(1..Cardinality(S), S)
  BY <1>4 DEF Injection
<1>6. Cardinality(1..Cardinality(S)) = Cardinality(S)
  BY <1>1, FS_Interval
<1>7. q \in Surjection(1..Cardinality(S), S)
  BY <1>1, <1>5, <1>6, FS_Injection
<1> HIDE DEF q
<1>8. q \in Seq(Workspace)
  BY <1>1, <1>4
<1>9. Range(q) = S
  BY <1>4, <1>7 DEF Range, Surjection
<1> QED BY <1>8, <1>9 DEF q

LEMMA NextInTurn ==
    ASSUME NEW q \in Seq(Workspace), q # <<>>
    PROVE  /\ Head(q) \in Workspace /\ Tail(q) \in Seq(Workspace)
           /\ Range(q) = {Head(q)} \cup Range(Tail(q))
<1>1. Head(q) \in Workspace /\ Tail(q) \in Seq(Workspace)
  OBVIOUS
<1>2. /\ DOMAIN q = 1..Len(q) /\ Len(q) \in Nat /\ Len(q) > 0 /\ Head(q) = q[1]
      /\ DOMAIN Tail(q) = 1..(Len(q) - 1)
      /\ \A i \in 1..(Len(q) - 1) : Tail(q)[i] = q[i + 1]
  OBVIOUS
<1>3. Range(q) \subseteq {Head(q)} \cup Range(Tail(q))
  <2> SUFFICES ASSUME NEW i \in 1..Len(q), i # 1
               PROVE  q[i] \in Range(Tail(q))
    BY <1>2 DEF Range
  <2>1. i - 1 \in 1..(Len(q) - 1) /\ Tail(q)[i - 1] = q[i]
    BY <1>2
  <2> QED BY <1>2, <2>1 DEF Range
<1>4. {Head(q)} \cup Range(Tail(q)) \subseteq Range(q)
  <2>1. Head(q) \in Range(q)
    BY <1>2 DEF Range
  <2>2. \A i \in 1..(Len(q) - 1) : q[i + 1] \in Range(q)
    BY <1>2 DEF Range
  <2>3. \A x \in Range(Tail(q)) : \E i \in 1..(Len(q) - 1) : x = q[i + 1]
    BY <1>2 DEF Range
  <2> QED BY <2>1, <2>2, <2>3
<1> QED BY <1>1, <1>3, <1>4

LEMMA NoneInTurn == Range(<<>>) = {}
BY DEF Range

\* A read that fails leaves only the scrub to be done.
LEMMA FailKeeps ==
    ASSUME CaptureInv, Fail, cpc # "ended"
    PROVE  CaptureInv'
<1>1. /\ reading' = Nothing
      /\ UNCHANGED <<change, phase, files, clock, changes, found, evidence, seen, passVars>>
      /\ \/ cpc' = "ended" /\ guard' = "failed" /\ UNCHANGED <<todo, unsafe>>
         \/ /\ cpc' = "cleanup" /\ unsafe' = {} /\ guard' = guard
            /\ todo' = SetToSeq({f \in Workspace : Here(f)})
  BY DEF Fail
<1>2. todo' \in Seq(Workspace) /\ (cpc' = "cleanup" => Range(todo') = {f \in Workspace : Here(f)})
  BY <1>1, InTurn DEF CaptureInv, ReadInv
<1>3. FilesInv'
  BY <1>1 DEF CaptureInv, FilesInv
<1>4. ReadInv'
  BY <1>1, <1>2 DEF CaptureInv, ReadInv, Found
<1>5. BaselineInv'
  BY <1>1 DEF CaptureInv, BaselineInv, Found, NoneOf
<1>6. CleanInv'
  <2>1. \A f \in Workspace : files[f].content = "secret" => Here(f)
    BY DEF Here, Absent
  <2> QED BY <1>1, <1>2, <2>1 DEF CaptureInv, CleanInv, Found, Scrubbed, Scrubbing, NoneOf
<1>7. RecordInv'
  BY <1>1 DEF CaptureInv, RecordInv
<1>8. FirstInv' /\ MembersInv' /\ AgainInv'
  BY <1>1 DEF FirstInv, MembersInv, AgainInv
<1> QED BY <1>3, <1>4, <1>5, <1>6, <1>7, <1>8 DEF CaptureInv

\* A file is opened, or it has gone and the read fails.
LEMMA OpenKeeps ==
    ASSUME CaptureInv, NEW f \in Workspace \cup {Baseline}, Open(f),
           cpc \in Turns \cup {"find", "copy"},
           cpc \in Turns => todo # <<>> /\ f = Head(todo),
           cpc = "find" => f \in StepNames /\ \A g \in StepNames : Here(g) => g = f,
           cpc = "copy" => f = IF phase = "final" THEN Baseline ELSE found.file
    PROVE  CaptureInv'
<1>1. CASE ~Here(f)
  <2>1. Fail
    BY <1>1 DEF Open
  <2> QED BY <2>1, FailKeeps DEF Turns
<1>2. CASE Here(f)
  <2>1. /\ reading' = [file |-> f, id |-> files[f].id, chunk |-> files[f].content]
        /\ UNCHANGED <<change, cpc, phase, files, clock, changes, found, evidence, seen, passVars,
                       scrubVars>>
    BY <1>2 DEF Open
  <2>2. reading'.file = f /\ reading'.id = files[f].id /\ reading'.chunk = files[f].content
    BY <2>1
  <2>3. files[f].id \in 1..clock /\ files[f].content \in Contents
    BY <1>2 DEF Here, CaptureInv, FilesInv
  <2>4. UNCHANGED <<cpc, phase, files, clock, found, evidence, seen, dirs, first, again, members, todo,
                    unsafe, guard>>
    BY <2>1 DEF passVars, scrubVars
  <2>5. FilesInv' /\ RecordInv'
    BY <2>4 DEF CaptureInv, FilesInv, RecordInv
  <2>6. ReadInv'
    BY <2>2, <2>3, <2>4 DEF CaptureInv, ReadInv, Found, Turns
  <2>7. BaselineInv'
    <3>1. \A g \in StepNames : ~Here(g) => files[g].content # "baseline"
      BY DEF Here, Absent
    <3> QED BY <2>2, <2>4, <3>1 DEF CaptureInv, BaselineInv, NoneOf, Found, Turns
  <2>8. CleanInv'
    BY <2>2, <2>4 DEF CaptureInv, CleanInv, NoneOf, Scrubbing, Turns
  <2>9. FirstInv' /\ MembersInv' /\ AgainInv'
    BY <2>4 DEF CaptureInv, FirstInv, MembersInv, AgainInv, State
  <2> QED BY <2>5, <2>6, <2>7, <2>8, <2>9 DEF CaptureInv
<1> QED BY <1>1, <1>2

\* What a stable read has read.
LEMMA StablyRead ==
    ASSUME CaptureInv, reading # Nothing, Stable
    PROVE  /\ files[reading.file].content = reading.chunk /\ Here(reading.file)
           /\ Content = <<reading.chunk, reading.chunk>>
           /\ Whole(Content) /\ Content[1] = reading.chunk
           /\ Range(Content) = {reading.chunk} /\ reading.chunk \in Contents
<1>1. /\ files[reading.file].content = reading.chunk /\ reading.chunk \in Contents
      /\ files[reading.file].id \in 1..clock /\ clock \in Nat
  BY DEF CaptureInv, FilesInv, ReadInv, Stable
<1>2. Here(reading.file)
  BY <1>1 DEF Here, Absent
<1>3. Content = <<reading.chunk, reading.chunk>>
  BY <1>1, <1>2 DEF Content
<1>4. \A c : Range(<<c, c>>) = {c} /\ Whole(<<c, c>>)
  <2> SUFFICES ASSUME NEW c
               PROVE  Range(<<c, c>>) = {c} /\ Whole(<<c, c>>)
    OBVIOUS
  <2>1. DOMAIN <<c, c>> = 1..2 /\ <<c, c>>[1] = c /\ <<c, c>>[2] = c
    OBVIOUS
  <2>2. Whole(<<c, c>>)
    BY DEF Whole, Nothing
  <2>3. \A q : DOMAIN q = 1..2 /\ q[1] = c /\ q[2] = c => Range(q) = {c}
    BY DEF Range
  <2> QED BY <2>1, <2>2, <2>3
<1> QED BY <1>1, <1>2, <1>3, <1>4

LEMMA ScrubKeeps ==
    ASSUME CaptureInv, ScrubOpen \/ ScrubFile \/ EndScrub \/ RemoveUnsafe
    PROVE  CaptureInv'
<1>1. CASE ScrubOpen
  <2>1. Open(Head(todo)) /\ todo # <<>> /\ cpc \in Turns /\ cpc \notin {"find", "copy"}
    BY <1>1 DEF ScrubOpen, Scrubbing, Turns
  <2>2. Head(todo) \in Workspace
    BY <2>1, NextInTurn DEF CaptureInv, ReadInv
  <2> QED BY <2>1, <2>2, OpenKeeps
<1>2. CASE ScrubFile
  <2>1. /\ reading # Nothing /\ reading' = Nothing /\ todo' = Tail(todo) /\ Scrubbing
        /\ unsafe' = (IF Clean THEN unsafe ELSE unsafe \cup {reading.file})
        /\ UNCHANGED <<cpc, phase, files, clock, found, evidence, seen, guard, dirs, first, again,
                       members>>
    BY <1>2 DEF ScrubFile, passVars
  <2>2. /\ todo # <<>> /\ reading.file = Head(todo) /\ todo' \in Seq(Workspace)
        /\ Range(todo) = {reading.file} \cup Range(todo')
    BY <2>1, NextInTurn DEF CaptureInv, ReadInv, Scrubbing, Turns
  <2>3. Clean => files[reading.file].content # "secret"
    BY <2>1, StablyRead DEF Clean
  <2>4. FilesInv' /\ RecordInv'
    BY <2>1 DEF CaptureInv, FilesInv, RecordInv
  <2>5. ReadInv'
    BY <2>1, <2>2 DEF CaptureInv, ReadInv, Found
  <2>6. BaselineInv'
    BY <2>1 DEF CaptureInv, BaselineInv, NoneOf, Found
  <2>7. CleanInv'
    <3>1. \A f \in Workspace : files[f].content = "secret" => f \in Range(todo) \cup unsafe
      BY <2>1 DEF CaptureInv, CleanInv, NoneOf
    <3>2. \A f \in Workspace : files[f].content = "secret" => f \in Range(todo') \cup unsafe'
      BY <2>1, <2>2, <2>3, <3>1
    <3> QED BY <2>1, <3>2 DEF CaptureInv, CleanInv, NoneOf, Scrubbing, Scrubbed, Found
  <2>8. FirstInv' /\ MembersInv' /\ AgainInv'
    BY <2>1 DEF FirstInv, MembersInv, AgainInv, Scrubbing
  <2> QED BY <2>4, <2>5, <2>6, <2>7, <2>8 DEF CaptureInv
<1>3. CASE EndScrub
  <2>1. /\ Scrubbing /\ todo = <<>> /\ unsafe = {}
        /\ \/ cpc = "scrub" /\ cpc' = "find" /\ guard' = guard
           \/ cpc = "cleanup" /\ cpc' = "ended" /\ guard' = "passed"
        /\ UNCHANGED <<phase, files, clock, reading, found, evidence, seen, todo, unsafe, dirs, first,
                       again, members>>
    BY <1>3 DEF EndScrub, passVars, Scrubbing
  <2>2. reading = Nothing
    BY <2>1 DEF CaptureInv, ReadInv, Turns
  <2>3. FilesInv' /\ RecordInv'
    BY <2>1 DEF CaptureInv, FilesInv, RecordInv
  <2>4. ReadInv'
    BY <2>1, <2>2 DEF CaptureInv, ReadInv, Found
  <2>5. BaselineInv'
    BY <2>1, <2>2 DEF CaptureInv, BaselineInv, NoneOf, Found
  <2>6. NoneOf("secret", Workspace)
    BY <2>1, NoneInTurn DEF CaptureInv, CleanInv, NoneOf
  <2>7. CleanInv'
    BY <2>1, <2>2, <2>6 DEF CaptureInv, CleanInv, NoneOf, Scrubbing, Scrubbed, Found
  <2>8. FirstInv' /\ MembersInv' /\ AgainInv'
    BY <2>1 DEF FirstInv, MembersInv, AgainInv, Scrubbing
  <2> QED BY <2>3, <2>4, <2>5, <2>7, <2>8 DEF CaptureInv
<1>4. CASE RemoveUnsafe
  <2>1. /\ Scrubbing /\ todo = <<>> /\ unsafe' = {}
        /\ files' = [f \in DOMAIN files |-> IF f \in unsafe THEN Absent ELSE files[f]]
        /\ \/ /\ cpc = "scrub" /\ cpc' = "cleanup" /\ guard' = guard
              /\ todo' = SetToSeq({f \in Workspace : files'[f] # Absent})
           \/ cpc = "cleanup" /\ cpc' = "ended" /\ guard' = "failed" /\ todo' = todo
        /\ UNCHANGED <<phase, clock, reading, found, evidence, seen, dirs, first, again, members>>
    BY <1>4 DEF RemoveUnsafe, passVars, Scrubbing
  <2>2. reading = Nothing
    BY <2>1 DEF CaptureInv, ReadInv, Turns
  <2>3. /\ DOMAIN files = Workspace \cup {Baseline} /\ DOMAIN files' = DOMAIN files
        /\ \A f \in DOMAIN files : files'[f] = IF f \in unsafe THEN Absent ELSE files[f]
    BY <2>1 DEF CaptureInv, FilesInv
  <2>4. /\ todo' \in Seq(Workspace)
        /\ cpc' = "cleanup" => Range(todo') = {f \in Workspace : files'[f] # Absent}
    BY <2>1, InTurn DEF CaptureInv, ReadInv
  <2>5. \A f \in DOMAIN files : \/ files'[f].content = files[f].content
                               \/ files'[f].content = "none"
    BY <2>3 DEF Absent
  <2>6. FilesInv' /\ RecordInv'
    BY <2>1, <2>3 DEF CaptureInv, FilesInv, RecordInv
  <2>7. ReadInv'
    BY <2>1, <2>2, <2>4 DEF CaptureInv, ReadInv, Found
  <2>8. BaselineInv'
    BY <2>1, <2>2, <2>3, <2>5, WorkspaceIs DEF CaptureInv, BaselineInv, NoneOf, Found
  <2>9. CleanInv'
    <3>1. \A f \in Workspace : files[f].content = "secret" => f \in unsafe
      BY <2>1, NoneInTurn DEF CaptureInv, CleanInv, NoneOf
    <3>2. \A f \in Workspace : files'[f].content # "secret"
      BY <2>3, <3>1 DEF Absent
    <3>3. files'[Baseline].content # "secret"
      BY <2>3, <2>5 DEF CaptureInv, CleanInv
    <3> QED BY <2>1, <2>2, <3>2, <3>3 DEF CaptureInv, CleanInv, NoneOf, Scrubbing, Scrubbed, Found
  <2>10. FirstInv' /\ MembersInv' /\ AgainInv'
    BY <2>1 DEF FirstInv, MembersInv, AgainInv, Scrubbing
  <2> QED BY <2>6, <2>7, <2>8, <2>9, <2>10 DEF CaptureInv
<1> QED BY <1>1, <1>2, <1>3, <1>4

LEMMA StepKeeps ==
    ASSUME CaptureInv, FindStep \/ AcceptStep \/ CopyOpen \/ CopyStep
    PROVE  CaptureInv'
<1>1. CASE FindStep
  <2> DEFINE steps == {f \in StepNames : Here(f)}
  <2>1. cpc = "find" /\ (Cardinality(steps) # 1 => Fail)
    BY <1>1 DEF FindStep
  <2>2. CASE Cardinality(steps) = 1
    <3>1. IsFiniteSet(steps)
      <4>1. steps \subseteq Workspace
        BY WorkspaceIs
      <4> QED BY <4>1, WorkspaceIs, FS_Subset
    <3>2. PICK f : steps = {f}
      BY <2>2, <3>1, FS_Singleton
    <3>3. (CHOOSE g \in steps : TRUE) = f
      BY <3>2
    <3>4. Open(f)
      BY <1>1, <2>2, <3>3 DEF FindStep
    <3>5. f \in StepNames /\ \A g \in StepNames : Here(g) => g = f
      BY <3>2
    <3> HIDE DEF steps
    <3> QED BY <2>1, <3>4, <3>5, OpenKeeps, WorkspaceIs DEF Turns
  <2> QED BY <2>1, <2>2, FailKeeps
<1>2. CASE AcceptStep
  <2>1. CASE ~Stable
    BY <1>2, <2>1, FailKeeps DEF AcceptStep
  <2>2. CASE Stable
    <3>1. /\ cpc = "find" /\ reading # Nothing /\ cpc' = "copy" /\ reading' = Nothing
          /\ found' = [file |-> reading.file, id |-> reading.id, content |-> Content]
          /\ UNCHANGED <<phase, files, clock, evidence, seen, dirs, first, again, members, todo,
                         unsafe, guard>>
      BY <1>2, <2>2 DEF AcceptStep, passVars, scrubVars
    <3>2. found'.file = reading.file /\ reading.file \in StepNames
      BY <3>1 DEF CaptureInv, ReadInv
    <3>3. FilesInv' /\ RecordInv'
      BY <3>1 DEF CaptureInv, FilesInv, RecordInv
    <3>4. ReadInv'
      BY <3>1, <3>2 DEF CaptureInv, ReadInv, Found
    <3>5. BaselineInv'
      BY <3>1, <3>2 DEF CaptureInv, BaselineInv, NoneOf, Found
    <3>6. CleanInv'
      BY <3>1 DEF CaptureInv, CleanInv, NoneOf, Scrubbing, Scrubbed, Found
    <3>7. FirstInv' /\ MembersInv' /\ AgainInv'
      BY <3>1 DEF FirstInv, MembersInv, AgainInv
    <3> QED BY <3>3, <3>4, <3>5, <3>6, <3>7 DEF CaptureInv
  <2> QED BY <2>1, <2>2
<1>3. CASE CopyOpen
  <2> DEFINE f == IF phase = "final" THEN Baseline ELSE found.file
  <2>1. cpc = "copy" /\ Open(f)
    BY <1>3 DEF CopyOpen
  <2>2. f \in Workspace \cup {Baseline}
    BY <2>1, WorkspaceIs DEF CaptureInv, ReadInv, Found
  <2>3. f = IF phase = "final" THEN Baseline ELSE found.file
    OBVIOUS
  <2> HIDE DEF f
  <2> QED BY <2>1, <2>2, <2>3, OpenKeeps DEF Turns
<1>4. CASE CopyStep
  <2>1. CASE ~CopyFits
    BY <1>4, <2>1, FailKeeps DEF CopyStep
  <2>2. CASE CopyFits
    <3>1. /\ cpc = "copy" /\ reading # Nothing /\ Stable
          /\ evidence' = Recorded(<<phase, "step">>, Content)
          /\ \/ /\ phase = "baseline" /\ clock' = clock + 1
                /\ files' = [files EXCEPT ![Baseline] = [id |-> clock + 1, content |-> Content[1]]]
             \/ phase # "baseline" /\ UNCHANGED <<files, clock>>
          /\ cpc' = "inventory" /\ dirs' = Directories /\ todo' = <<>> /\ first' = <<>>
          /\ again' = <<>> /\ members' = <<>> /\ reading' = Nothing
          /\ UNCHANGED <<change, phase, changes, found, seen, unsafe, guard>>
      BY <1>4, <2>2 DEF CopyStep, CopyFits, StartZip, Nothing
    <3>2. /\ Content[1] = reading.chunk /\ Whole(Content) /\ reading.chunk \in Contents
          /\ reading.chunk # "secret"
      BY <3>1, StablyRead DEF CaptureInv, CleanInv, Scrubbed, Found
    <3>3. /\ DOMAIN files = Workspace \cup {Baseline} /\ DOMAIN files' = DOMAIN files
          /\ clock \in Nat /\ clock' \in Nat /\ clock <= clock'
          /\ \A f \in Workspace : files'[f] = files[f]
      <4>1. DOMAIN files = Workspace \cup {Baseline} /\ clock \in Nat
        BY DEF CaptureInv, FilesInv
      <4>2. DOMAIN files' = DOMAIN files /\ \A f \in Workspace : files'[f] = files[f]
        BY <3>1, <4>1, WorkspaceIs
      <4>3. clock' = clock + 1 \/ clock' = clock
        BY <3>1
      <4> QED BY <4>1, <4>2, <4>3
    <3>4. /\ files'[Baseline] = files[Baseline]
             \/ /\ files'[Baseline].id = clock + 1 /\ clock' = clock + 1
                /\ files'[Baseline].content = reading.chunk
      BY <3>1, <3>2, <3>3
    <3>5. FilesInv'
      <4>1. files' = [f \in Workspace \cup {Baseline} |-> files'[f]]
        <5>1. files = [f \in Workspace \cup {Baseline} |-> files[f]]
          BY DEF CaptureInv, FilesInv
        <5> QED BY <3>1, <5>1
      <4>2. \A f \in Workspace \cup {Baseline} :
              files'[f] = Absent \/ (files'[f].id \in 1..clock' /\ files'[f].content \in Contents)
        <5>1. \A f \in Workspace \cup {Baseline} :
                files[f] = Absent \/ (files[f].id \in 1..clock /\ files[f].content \in Contents)
          BY DEF CaptureInv, FilesInv
        <5>2. 1..clock \subseteq 1..clock' /\ (clock' = clock + 1 => clock + 1 \in 1..clock')
          BY <3>3
        <5> HIDE DEF Contents
        <5>3. \A f \in Workspace :
                files'[f] = Absent \/ (files'[f].id \in 1..clock' /\ files'[f].content \in Contents)
          BY <3>3, <5>1, <5>2
        <5>4. \/ files'[Baseline] = Absent
              \/ files'[Baseline].id \in 1..clock' /\ files'[Baseline].content \in Contents
          BY <3>2, <3>4, <5>1, <5>2
        <5> QED BY <5>3, <5>4
      <4> QED BY <3>1, <3>3, <4>1, <4>2 DEF CaptureInv, FilesInv
    <3>6. ReadInv'
      BY <3>1 DEF CaptureInv, ReadInv, Found
    <3>7. BaselineInv'
      BY <3>1, <3>3, WorkspaceIs DEF CaptureInv, BaselineInv, NoneOf, Found
    <3>8. CleanInv'
      BY <3>1, <3>2, <3>3, <3>4 DEF CaptureInv, CleanInv, NoneOf, Scrubbing, Scrubbed, Found
    <3>9. RecordInv'
      <4>1. phase = "change" => reading.chunk # "baseline"
        BY <3>1 DEF CaptureInv, ReadInv, BaselineInv, Found
      <4>2. \A n \in DOMAIN evidence' :
              \/ n = <<phase, "step">> /\ evidence'[n] = Content
              \/ n \in DOMAIN evidence /\ evidence'[n] = evidence[n]
        BY <3>1 DEF Recorded
      <4>3. DOMAIN members' = {}
        BY <3>1
      <4>4. ASSUME NEW n \in DOMAIN evidence'
            PROVE  /\ n[2] = "step" =>
                        /\ Whole(evidence'[n]) /\ evidence'[n][1] # "secret"
                        /\ n[1] = "change" => evidence'[n][1] # "baseline"
                   /\ n[2] # "step" => \A f \in DOMAIN evidence'[n] : "secret" \notin Range(evidence'[n][f])
        <5>1. CASE n = <<phase, "step">> /\ evidence'[n] = Content
          BY <3>2, <4>1, <5>1
        <5>2. CASE n \in DOMAIN evidence /\ evidence'[n] = evidence[n]
          BY <5>2 DEF CaptureInv, RecordInv
        <5> QED BY <4>2, <5>1, <5>2
      <4> QED BY <4>3, <4>4 DEF RecordInv
    <3>10. FirstInv' /\ MembersInv' /\ AgainInv'
      <4>1. DOMAIN first' = {}
        BY <3>1
      <4>2. FirstInv'
        BY <3>1, <4>1, WorkspaceIs DEF FirstInv
      <4>3. MembersInv' /\ AgainInv'
        BY <3>1 DEF MembersInv, AgainInv
      <4> QED BY <4>2, <4>3
    <3> QED BY <3>5, <3>6, <3>7, <3>8, <3>9, <3>10 DEF CaptureInv
  <2> QED BY <2>1, <2>2
<1> QED BY <1>1, <1>2, <1>3, <1>4

LEMMA ListKeeps == ASSUME CaptureInv, ListDirectory PROVE CaptureInv'
<1> DEFINE there == {f \in Head(dirs) : Here(f)}
<1>1. /\ cpc \in {"inventory", "again"} /\ todo = <<>> /\ dirs # <<>>
      /\ todo' = SetToSeq(there) /\ dirs' = Tail(dirs)
      /\ cpc = "inventory" => first' = Listed(first) /\ again' = again
      /\ cpc = "again" => again' = Listed(again) /\ first' = first
      /\ seen' = (IF cpc = "inventory" /\ dirs = Directories THEN {State} ELSE seen)
      /\ UNCHANGED <<cpc, phase, files, clock, reading, found, members, evidence, unsafe, guard>>
  BY DEF ListDirectory
<1>2. reading = Nothing
  BY <1>1 DEF CaptureInv, ReadInv, Turns
<1>3. /\ Head(dirs) \subseteq Workspace /\ dirs' \in Seq(SUBSET Workspace)
      /\ dirs' # Directories /\ Len(dirs') < Len(Directories)
  BY <1>1, RestOfWalk DEF CaptureInv, FirstInv
<1>4. todo' \in Seq(Workspace) /\ Range(todo') = there
  BY <1>1, <1>3, InTurn
<1>5. \A f \in there : files[f].id \in 1..clock /\ f \in Workspace
  BY <1>3 DEF Here, CaptureInv, FilesInv
<1>6. FilesInv' /\ RecordInv'
  BY <1>1 DEF CaptureInv, FilesInv, RecordInv
<1>7. ReadInv'
  BY <1>1, <1>2, <1>4 DEF CaptureInv, ReadInv, Found
<1>8. BaselineInv'
  BY <1>1, <1>2 DEF CaptureInv, BaselineInv, NoneOf, Found
<1>9. CleanInv'
  BY <1>1, <1>2 DEF CaptureInv, CleanInv, NoneOf, Scrubbing, Scrubbed, Found
<1>10. State' = State
  BY <1>1 DEF State
<1>11. CASE cpc = "inventory"
  <2>1. /\ DOMAIN first' = DOMAIN first \cup there
        /\ \A f \in DOMAIN first' :
             \/ f \in there /\ first'[f].id = files[f].id /\ first'[f].content = Nothing
             \/ f \notin there /\ f \in DOMAIN first /\ first'[f] = first[f]
    BY <1>1, <1>11 DEF Listed
  <2>2. State' \in seen'
    BY <1>1, <1>3, <1>10, <1>11 DEF CaptureInv, FirstInv
  <2>3. \A f \in DOMAIN first' :
          /\ first'[f].id \in 1..clock
          /\ Whole(first'[f].content) \/ f \in Range(todo')
          /\ Whole(first'[f].content) /\ files[f].id = first'[f].id =>
               files[f].content = first'[f].content[1]
    <3> SUFFICES ASSUME NEW f \in DOMAIN first'
                 PROVE  /\ first'[f].id \in 1..clock
                        /\ Whole(first'[f].content) \/ f \in Range(todo')
                        /\ Whole(first'[f].content) /\ files[f].id = first'[f].id =>
                             files[f].content = first'[f].content[1]
      OBVIOUS
    <3>1. CASE f \in there
      <4>1. ~Whole(Nothing)
        BY DEF Whole
      <4> QED BY <1>4, <1>5, <2>1, <3>1, <4>1
    <3>2. CASE f \notin there
      <4>1. f \in DOMAIN first /\ first'[f] = first[f]
        BY <2>1, <3>2
      <4> QED BY <1>1, <1>11, <4>1, NoneInTurn DEF CaptureInv, FirstInv
    <3> QED BY <3>1, <3>2
  <2>4. FirstInv'
    BY <1>1, <1>3, <1>5, <1>11, <2>1, <2>2, <2>3 DEF CaptureInv, FirstInv
  <2>5. MembersInv' /\ AgainInv'
    BY <1>1, <1>11 DEF MembersInv, AgainInv
  <2> QED BY <1>6, <1>7, <1>8, <1>9, <2>4, <2>5 DEF CaptureInv
<1>12. CASE cpc = "again"
  <2>1. /\ DOMAIN again' = DOMAIN again \cup there /\ first' = first /\ seen' = seen
        /\ \A f \in DOMAIN again' :
             \/ f \in there /\ again'[f].content = Nothing
             \/ f \notin there /\ f \in DOMAIN again /\ again'[f] = again[f]
    BY <1>1, <1>12 DEF Listed
  <2>2. FirstInv'
    BY <1>1, <1>3, <1>10, <1>12, <2>1 DEF CaptureInv, FirstInv
  <2>3. MembersInv'
    BY <1>1, <1>12, <2>1 DEF CaptureInv, MembersInv
  <2>4. \A f \in DOMAIN first : Whole(first[f].content) /\ first[f].content # Nothing
    BY <1>12 DEF CaptureInv, FirstInv, Whole
  <2>5. \A f \in there : f \in DOMAIN again' => again'[f] # first[f] \/ f \notin DOMAIN first
    BY <2>1, <2>4
  <2>6. AgainInv'
    <3>1. CASE dirs = Directories
      <4>1. again = <<>> /\ DOMAIN again' = there
        BY <1>12, <2>1, <3>1 DEF CaptureInv, AgainInv
      <4>2. \A f \in Head(Directories) \ StepNames : f \notin DOMAIN again' => State[f] = "none"
        BY <1>3, <3>1, <4>1 DEF Here, Absent, State
      <4>3. \A f \in DOMAIN first : f \in Workspace
        BY <1>12 DEF CaptureInv, FirstInv
      <4>4. \A f \in DOMAIN first :
              (f \in DOMAIN again' /\ again'[f] = first[f]) \/ files[f].id = first[f].id =>
                State[f] = first[f].content[1]
        BY <1>12, <2>4, <2>5, <4>1, <4>3 DEF CaptureInv, FirstInv, State
      <4>5. State \in seen
        BY <1>12 DEF CaptureInv, FirstInv
      <4> QED BY <1>1, <1>3, <2>1, <4>2, <4>4, <4>5 DEF AgainInv
    <3>2. CASE dirs # Directories
      <4>1. PICK s \in seen :
              /\ \A f \in Head(Directories) \ StepNames : f \notin DOMAIN again => s[f] = "none"
              /\ \A f \in DOMAIN first :
                   (f \in DOMAIN again /\ again[f] = first[f]) \/ files[f].id = first[f].id =>
                     s[f] = first[f].content[1]
        BY <1>12, <3>2 DEF CaptureInv, AgainInv
      <4>2. \A f \in DOMAIN first : f \in DOMAIN again' /\ again'[f] = first[f] =>
              f \in DOMAIN again /\ again[f] = first[f]
        BY <2>1, <2>5
      <4> QED BY <1>1, <1>3, <2>1, <4>1, <4>2 DEF AgainInv
    <3> QED BY <3>1, <3>2
  <2> QED BY <1>6, <1>7, <1>8, <1>9, <2>2, <2>3, <2>6 DEF CaptureInv
<1> QED BY <1>1, <1>11, <1>12

LEMMA InventoryKeeps == ASSUME CaptureInv, InventoryFile PROVE CaptureInv'
<1> DEFINE inventory == IF cpc = "inventory" THEN first ELSE again
<1>1. CASE ~InventoryFits(inventory)
  BY <1>1, FailKeeps DEF InventoryFile
<1>2. CASE InventoryFits(inventory)
  <2>0. PICK item : item = [id |-> reading.id, content |-> Content]
    OBVIOUS
  <2>1. /\ cpc \in {"inventory", "again"} /\ reading # Nothing /\ Stable
        /\ reading.id = inventory[reading.file].id
        /\ cpc = "inventory" => first' = With(first, reading.file, item) /\ again' = again
        /\ cpc = "again" => again' = With(again, reading.file, item) /\ first' = first
        /\ todo' = Tail(todo) /\ reading' = Nothing
        /\ UNCHANGED <<cpc, phase, files, clock, dirs, found, members, evidence, seen, unsafe, guard>>
    BY <1>2, <2>0 DEF InventoryFile, InventoryFits
  <2>2. /\ todo # <<>> /\ reading.file = Head(todo) /\ todo' \in Seq(Workspace)
        /\ Range(todo) = {reading.file} \cup Range(todo') /\ reading.file \in Workspace
    BY <2>1, NextInTurn DEF CaptureInv, ReadInv, Turns
  <2>3. /\ item.id = reading.id /\ item.content = Content /\ Whole(item.content)
        /\ item.content[1] = files[reading.file].content /\ files[reading.file].id = item.id
        /\ item.id \in 1..clock
    BY <2>0, <2>1, StablyRead DEF Stable, CaptureInv, ReadInv
  <2>4. FilesInv' /\ RecordInv'
    BY <2>1 DEF CaptureInv, FilesInv, RecordInv
  <2>5. ReadInv'
    BY <2>1, <2>2 DEF CaptureInv, ReadInv, Found
  <2>6. BaselineInv'
    BY <2>1 DEF CaptureInv, BaselineInv, NoneOf, Found
  <2>7. CleanInv'
    BY <2>1 DEF CaptureInv, CleanInv, NoneOf, Scrubbing, Scrubbed, Found
  <2>8. State' = State
    BY <2>1 DEF State
  <2>9. CASE cpc = "inventory"
    <3>1. /\ DOMAIN first' = DOMAIN first \cup {reading.file}
          /\ \A f \in DOMAIN first' :
               \/ f = reading.file /\ first'[f] = item
               \/ f # reading.file /\ f \in DOMAIN first /\ first'[f] = first[f]
      BY <2>1, <2>9 DEF With
    <3>2. \A f \in DOMAIN first' :
            /\ first'[f].id \in 1..clock
            /\ Whole(first'[f].content) \/ f \in Range(todo')
            /\ Whole(first'[f].content) /\ files[f].id = first'[f].id =>
                 files[f].content = first'[f].content[1]
      <4> SUFFICES ASSUME NEW f \in DOMAIN first'
                   PROVE  /\ first'[f].id \in 1..clock
                          /\ Whole(first'[f].content) \/ f \in Range(todo')
                          /\ Whole(first'[f].content) /\ files[f].id = first'[f].id =>
                               files[f].content = first'[f].content[1]
        OBVIOUS
      <4>1. CASE f = reading.file
        BY <2>3, <3>1, <4>1
      <4>2. CASE f # reading.file
        BY <2>2, <2>9, <3>1, <4>2 DEF CaptureInv, FirstInv
      <4> QED BY <4>1, <4>2
    <3>3. FirstInv'
      BY <2>1, <2>2, <2>8, <2>9, <3>1, <3>2 DEF CaptureInv, FirstInv
    <3>4. MembersInv' /\ AgainInv'
      BY <2>1, <2>9 DEF MembersInv, AgainInv
    <3> QED BY <2>4, <2>5, <2>6, <2>7, <3>3, <3>4 DEF CaptureInv
  <2>10. CASE cpc = "again"
    <3>1. /\ DOMAIN again' = DOMAIN again \cup {reading.file} /\ first' = first
          /\ \A f \in DOMAIN again' :
               \/ f = reading.file /\ again'[f] = item
               \/ f # reading.file /\ f \in DOMAIN again /\ again'[f] = again[f]
      BY <2>1, <2>10 DEF With
    <3>2. FirstInv'
      BY <2>1, <2>8, <2>10, <3>1 DEF CaptureInv, FirstInv
    <3>3. MembersInv'
      BY <2>1, <2>10, <3>1 DEF CaptureInv, MembersInv
    <3>4. dirs # Directories
      BY <2>2, <2>10 DEF CaptureInv, AgainInv
    <3>5. PICK s \in seen :
            /\ \A f \in Head(Directories) \ StepNames : f \notin DOMAIN again => s[f] = "none"
            /\ \A f \in DOMAIN first :
                 (f \in DOMAIN again /\ again[f] = first[f]) \/ files[f].id = first[f].id =>
                   s[f] = first[f].content[1]
      BY <2>10, <3>4 DEF CaptureInv, AgainInv
    <3>6. \A f \in DOMAIN first :
            (f \in DOMAIN again' /\ again'[f] = first[f]) \/ files[f].id = first[f].id =>
              s[f] = first[f].content[1]
      BY <2>3, <3>1, <3>5
    <3>7. AgainInv'
      BY <2>1, <2>10, <3>1, <3>4, <3>5, <3>6 DEF AgainInv
    <3> QED BY <2>4, <2>5, <2>6, <2>7, <3>2, <3>3, <3>7 DEF CaptureInv
  <2> QED BY <2>1, <2>9, <2>10
<1> QED BY <1>1, <1>2

LEMMA PassKeeps ==
    ASSUME CaptureInv, PassOpen \/ EndInventory \/ MemberFile \/ EndMembers
    PROVE  CaptureInv'
<1>1. CASE PassOpen
  <2>1. Open(Head(todo)) /\ todo # <<>> /\ cpc \in Turns /\ cpc \notin {"find", "copy"}
    BY <1>1 DEF PassOpen, Turns
  <2>2. Head(todo) \in Workspace
    BY <2>1, NextInTurn DEF CaptureInv, ReadInv
  <2> QED BY <2>1, <2>2, OpenKeeps
<1>2. CASE EndInventory
  <2>1. /\ cpc = "inventory" /\ todo = <<>> /\ dirs = <<>> /\ cpc' = "members"
        /\ todo' = SetToSeq(DOMAIN first \ StepNames)
        /\ UNCHANGED <<phase, files, clock, dirs, reading, found, first, again, members, evidence,
                       seen, unsafe, guard>>
    BY <1>2 DEF EndInventory
  <2>2. reading = Nothing
    BY <2>1 DEF CaptureInv, ReadInv, Turns
  <2>3. todo' \in Seq(Workspace) /\ Range(todo') = DOMAIN first \ StepNames
    BY <2>1, InTurn DEF CaptureInv, FirstInv
  <2>4. FilesInv' /\ RecordInv'
    BY <2>1 DEF CaptureInv, FilesInv, RecordInv
  <2>5. ReadInv'
    BY <2>1, <2>2, <2>3 DEF CaptureInv, ReadInv, Found
  <2>6. BaselineInv'
    BY <2>1, <2>2 DEF CaptureInv, BaselineInv, NoneOf, Found
  <2>7. CleanInv'
    BY <2>1, <2>2 DEF CaptureInv, CleanInv, NoneOf, Scrubbing, Scrubbed, Found
  <2>8. State' = State
    BY <2>1 DEF State
  <2>9. FirstInv'
    BY <2>1, <2>8, NoneInTurn, WorkspaceIs DEF CaptureInv, FirstInv
  <2>10. MembersInv' /\ AgainInv'
    <3>1. members' = <<>> /\ again' = <<>> /\ DOMAIN members' = {}
      BY <2>1 DEF CaptureInv, FirstInv
    <3> QED BY <2>1, <2>3, <3>1 DEF MembersInv, AgainInv
  <2> QED BY <2>4, <2>5, <2>6, <2>7, <2>9, <2>10 DEF CaptureInv
<1>3. CASE MemberFile
  <2>1. CASE ~MemberFits
    BY <1>3, <2>1, FailKeeps DEF MemberFile
  <2>2. CASE MemberFits
    <3>1. /\ cpc = "members" /\ reading # Nothing
          /\ Content = first[reading.file].content /\ "secret" \notin Range(Content)
          /\ members' = With(members, reading.file, Content)
          /\ todo' = Tail(todo) /\ reading' = Nothing
          /\ UNCHANGED <<cpc, phase, files, clock, dirs, found, first, again, evidence, seen, unsafe,
                         guard>>
      BY <1>3, <2>2 DEF MemberFile, MemberFits
    <3>2. /\ todo # <<>> /\ reading.file = Head(todo) /\ todo' \in Seq(Workspace)
          /\ Range(todo) = {reading.file} \cup Range(todo')
      BY <3>1, NextInTurn DEF CaptureInv, ReadInv, Turns
    <3>3. /\ DOMAIN members' = DOMAIN members \cup {reading.file}
          /\ \A f \in DOMAIN members' :
               \/ f = reading.file /\ members'[f] = Content
               \/ f # reading.file /\ f \in DOMAIN members /\ members'[f] = members[f]
      BY <3>1 DEF With
    <3>4. FilesInv'
      BY <3>1 DEF CaptureInv, FilesInv
    <3>5. ReadInv'
      BY <3>1, <3>2 DEF CaptureInv, ReadInv, Found
    <3>6. BaselineInv'
      BY <3>1 DEF CaptureInv, BaselineInv, NoneOf, Found
    <3>7. CleanInv'
      BY <3>1 DEF CaptureInv, CleanInv, NoneOf, Scrubbing, Scrubbed, Found
    <3>8. RecordInv'
      <4>1. \A f \in DOMAIN members' : "secret" \notin Range(members'[f])
        <5>1. \A f \in DOMAIN members : "secret" \notin Range(members[f])
          BY <3>1 DEF CaptureInv, RecordInv
        <5> QED BY <3>1, <3>3, <5>1
      <4> QED BY <3>1, <4>1 DEF CaptureInv, RecordInv
    <3>9. State' = State
      BY <3>1 DEF State
    <3>10. FirstInv'
      BY <3>1, <3>9 DEF CaptureInv, FirstInv
    <3>11. MembersInv' /\ AgainInv'
      BY <3>1, <3>2, <3>3 DEF CaptureInv, MembersInv, AgainInv
    <3> QED BY <3>4, <3>5, <3>6, <3>7, <3>8, <3>10, <3>11 DEF CaptureInv
  <2> QED BY <2>1, <2>2
<1>4. CASE EndMembers
  <2>1. /\ cpc = "members" /\ todo = <<>> /\ cpc' = "again" /\ dirs' = Directories
        /\ UNCHANGED <<phase, files, clock, todo, reading, found, first, again, members, evidence,
                       seen, unsafe, guard>>
    BY <1>4 DEF EndMembers
  <2>2. reading = Nothing
    BY <2>1 DEF CaptureInv, ReadInv, Turns
  <2>3. FilesInv' /\ RecordInv'
    BY <2>1 DEF CaptureInv, FilesInv, RecordInv
  <2>4. ReadInv'
    BY <2>1, <2>2 DEF CaptureInv, ReadInv, Found
  <2>5. BaselineInv'
    BY <2>1, <2>2 DEF CaptureInv, BaselineInv, NoneOf, Found
  <2>6. CleanInv'
    BY <2>1, <2>2 DEF CaptureInv, CleanInv, NoneOf, Scrubbing, Scrubbed, Found
  <2>7. State' = State
    BY <2>1 DEF State
  <2>8. FirstInv'
    BY <2>1, <2>7, WorkspaceIs DEF CaptureInv, FirstInv
  <2>9. MembersInv' /\ AgainInv'
    BY <2>1, NoneInTurn DEF CaptureInv, MembersInv, AgainInv
  <2> QED BY <2>3, <2>4, <2>5, <2>6, <2>8, <2>9 DEF CaptureInv
<1> QED BY <1>1, <1>2, <1>3, <1>4

LEMMA PublishKeeps ==
    ASSUME CaptureInv, Publish
    PROVE  CaptureInv'
<1>1. CASE Fail
  BY <1>1, FailKeeps DEF Publish
<1>2. CASE ~Fail
  <2>1. /\ cpc = "again" /\ todo = <<>> /\ dirs = <<>>
        /\ evidence' = Recorded(<<phase, "source">>, members)
        /\ \/ /\ phase = "baseline" /\ cpc' = "reveal" /\ phase' = phase /\ todo' = todo
           \/ /\ phase = "baseline" /\ cpc' = "copy" /\ phase' = "final" /\ todo' = todo
           \/ /\ phase # "baseline" /\ cpc' = "cleanup" /\ phase' = phase
              /\ todo' = SetToSeq({f \in Workspace : Here(f)})
        /\ UNCHANGED <<files, clock, reading, found, unsafe, guard>>
    <3>1. CASE change
      BY <1>2, <3>1 DEF Publish
    <3>2. CASE ~change
      BY <1>2, <3>2 DEF Publish
    <3> QED BY <3>1, <3>2
  <2>2. reading = Nothing
    BY <2>1 DEF CaptureInv, ReadInv, Turns
  <2>3. /\ todo' \in Seq(Workspace)
        /\ cpc' = "cleanup" => Range(todo') = {f \in Workspace : Here(f)}
    BY <2>1, InTurn DEF CaptureInv, ReadInv
  <2>4. FilesInv'
    BY <2>1 DEF CaptureInv, FilesInv
  <2>5. ReadInv'
    BY <2>1, <2>2, <2>3 DEF CaptureInv, ReadInv, Found
  <2>6. BaselineInv'
    BY <2>1, <2>2 DEF CaptureInv, BaselineInv, NoneOf, Found
  <2>7. CleanInv'
    BY <2>1, <2>2 DEF CaptureInv, CleanInv, NoneOf, Scrubbing, Scrubbed, Found
  <2>8. RecordInv'
    <3>1. \A n \in DOMAIN evidence' :
            \/ n = <<phase, "source">> /\ evidence'[n] = members
            \/ n \in DOMAIN evidence /\ evidence'[n] = evidence[n]
      BY <2>1 DEF Recorded
    <3>2. \A f \in DOMAIN members : "secret" \notin Range(members[f])
      BY <2>1 DEF CaptureInv, RecordInv
    <3>3. ASSUME NEW n \in DOMAIN evidence'
          PROVE  /\ n[2] = "step" =>
                      /\ Whole(evidence'[n]) /\ evidence'[n][1] # "secret"
                      /\ n[1] = "change" => evidence'[n][1] # "baseline"
                 /\ n[2] # "step" => \A f \in DOMAIN evidence'[n] : "secret" \notin Range(evidence'[n][f])
      <4>1. CASE n = <<phase, "source">> /\ evidence'[n] = members
        BY <3>2, <4>1
      <4>2. CASE n \in DOMAIN evidence /\ evidence'[n] = evidence[n]
        BY <4>2 DEF CaptureInv, RecordInv
      <4> QED BY <3>1, <4>1, <4>2
    <3> QED BY <2>1, <3>3 DEF RecordInv
  <2>9. FirstInv' /\ MembersInv' /\ AgainInv'
    BY <2>1 DEF FirstInv, MembersInv, AgainInv
  <2> QED BY <2>4, <2>5, <2>6, <2>7, <2>8, <2>9 DEF CaptureInv
<1> QED BY <1>1, <1>2

LEMMA RevealKeeps == ASSUME CaptureInv, RevealChange PROVE CaptureInv'
<1>1. CASE ~Here(found.file)
  BY <1>1, FailKeeps DEF RevealChange
<1>2. CASE Here(found.file)
  <2>1. /\ cpc = "reveal" /\ phase' = "change" /\ cpc' = "conversation"
        /\ files' = [files EXCEPT ![found.file] = Absent]
        /\ UNCHANGED <<clock, reading, evidence, seen, todo, unsafe, guard>>
    BY <1>2 DEF RevealChange, scrubVars
  <2>2. reading = Nothing /\ found.file \in StepNames
    BY <2>1 DEF CaptureInv, ReadInv, Found
  <2>3. /\ DOMAIN files = Workspace \cup {Baseline}
        /\ files' = [f \in Workspace \cup {Baseline} |-> files'[f]]
        /\ \A f \in Workspace \cup {Baseline} :
             files'[f] = IF f = found.file THEN Absent ELSE files[f]
    BY <2>1 DEF CaptureInv, FilesInv
  <2>4. FilesInv'
    BY <2>1, <2>3 DEF CaptureInv, FilesInv
  <2>5. ReadInv'
    BY <2>1, <2>2 DEF CaptureInv, ReadInv, Found
  <2>6. BaselineInv'
    <3>1. NoneOf("baseline", StepNames \ {found.file})
      BY <2>1 DEF CaptureInv, BaselineInv, FilesInv, Found
    <3>2. \A f \in StepNames : files'[f].content # "baseline"
      BY <2>3, <3>1, WorkspaceIs DEF NoneOf, Absent
    <3> QED BY <2>1, <2>2, <3>2 DEF BaselineInv, NoneOf
  <2>7. CleanInv'
    <3>1. files'[Baseline] = files[Baseline]
      BY <2>2, <2>3, WorkspaceIs
    <3>2. guard = "pending"
      BY <2>1 DEF CaptureInv, CleanInv
    <3> QED BY <2>1, <3>1, <3>2 DEF CaptureInv, CleanInv, Scrubbing, Scrubbed, Found
  <2>8. RecordInv'
    BY <2>1 DEF CaptureInv, RecordInv
  <2>9. FirstInv' /\ MembersInv' /\ AgainInv'
    BY <2>1 DEF FirstInv, MembersInv, AgainInv
  <2> QED BY <2>4, <2>5, <2>6, <2>7, <2>8, <2>9 DEF CaptureInv
<1> QED BY <1>1, <1>2

LEMMA ConversationKeeps == ASSUME CaptureInv, Conversation PROVE CaptureInv'
<1>1. PICK made \in SUBSET Workspace :
        \E leak \in made \cup {"no file"} :
          files' = [f \in DOMAIN files |->
                      IF f \in made
                      THEN [id |-> clock + 1, content |-> IF f = leak THEN "secret" ELSE phase]
                      ELSE files[f]]
  BY DEF Conversation
<1>2. /\ cpc = "conversation" /\ cpc' \in {"scrub", "cleanup"} /\ clock' = clock + 1
      /\ todo' = SetToSeq({f \in Workspace : files'[f] # Absent}) /\ unsafe' = {}
      /\ UNCHANGED <<phase, reading, found, evidence, seen, guard>>
  BY DEF Conversation
<1>3. reading = Nothing /\ phase \in {"baseline", "change"} /\ guard = "pending" /\ clock \in Nat
  BY <1>2 DEF CaptureInv, ReadInv, FilesInv, CleanInv
<1>4. /\ DOMAIN files = Workspace \cup {Baseline}
      /\ files' = [f \in Workspace \cup {Baseline} |-> files'[f]]
      /\ \A f \in Workspace \cup {Baseline} :
           \/ f \notin made /\ files'[f] = files[f]
           \/ /\ f \in made /\ files'[f].id = clock + 1
              /\ files'[f].content \in {"secret", phase}
  <2>1. PICK leak :
          files' = [f \in DOMAIN files |->
                      IF f \in made
                      THEN [id |-> clock + 1, content |-> IF f = leak THEN "secret" ELSE phase]
                      ELSE files[f]]
    BY <1>1
  <2>2. DOMAIN files = Workspace \cup {Baseline}
    BY DEF CaptureInv, FilesInv
  <2>3. files' = [f \in Workspace \cup {Baseline} |-> files'[f]]
    BY <2>1, <2>2
  <2>4. ASSUME NEW f \in Workspace \cup {Baseline}
        PROVE  \/ f \notin made /\ files'[f] = files[f]
               \/ /\ f \in made /\ files'[f].id = clock + 1
                  /\ files'[f].content \in {"secret", phase}
    <3>1. files'[f] = IF f \in made
                      THEN [id |-> clock + 1, content |-> IF f = leak THEN "secret" ELSE phase]
                      ELSE files[f]
      BY <2>1, <2>2
    <3> QED BY <3>1
  <2> QED BY <2>2, <2>3, <2>4
<1>5. todo' \in Seq(Workspace) /\ Range(todo') = {f \in Workspace : files'[f] # Absent}
  BY <1>2, InTurn
<1>6. FilesInv'
  <2>1. \A f \in Workspace \cup {Baseline} :
          files'[f] = Absent \/ (files'[f].id \in 1..clock' /\ files'[f].content \in Contents)
    <3>1. \A f \in Workspace \cup {Baseline} :
            files[f] = Absent \/ (files[f].id \in 1..clock /\ files[f].content \in Contents)
      BY DEF CaptureInv, FilesInv
    <3>2. 1..clock \subseteq 1..clock' /\ clock + 1 \in 1..clock'
      BY <1>2, <1>3
    <3>3. {"secret", "other", "baseline", "change"} \subseteq Contents
      BY DEF Contents
    <3> QED BY <1>3, <1>4, <3>1, <3>2, <3>3
  <2> QED BY <1>2, <1>3, <1>4, <2>1 DEF CaptureInv, FilesInv
<1>7. ReadInv'
  BY <1>2, <1>3, <1>5 DEF ReadInv, Found
<1>8. BaselineInv'
  BY <1>2, <1>3, <1>4, WorkspaceIs DEF CaptureInv, BaselineInv, NoneOf, Found
<1>9. CleanInv'
  <2>1. files'[Baseline].content # "secret"
    BY <1>4, WorkspaceIs DEF CaptureInv, CleanInv
  <2>2. \A f \in Workspace : files'[f].content = "secret" => f \in Range(todo')
    BY <1>5 DEF Absent
  <2> QED BY <1>2, <1>3, <2>1, <2>2 DEF CleanInv, NoneOf, Scrubbing, Scrubbed, Found
<1>10. RecordInv'
  BY <1>2 DEF CaptureInv, RecordInv
<1>11. FirstInv' /\ MembersInv' /\ AgainInv'
  BY <1>2 DEF FirstInv, MembersInv, AgainInv
<1> QED BY <1>6, <1>7, <1>8, <1>9, <1>10, <1>11 DEF CaptureInv

LEMMA DisturbKeeps == ASSUME CaptureInv, Disturb PROVE CaptureInv'
<1>1. PICK d \in DOMAIN files :
        \/ files' = [files EXCEPT ![d] = [id |-> clock + 1, content |-> "other"]]
        \/ files' = [files EXCEPT ![d] = Absent]
  BY DEF Disturb
<1>2. /\ cpc \notin {"conversation", "ended"} /\ clock' = clock + 1
      /\ seen' = (IF seen = {} THEN seen ELSE seen \cup {[f \in Workspace |-> files'[f].content]})
      /\ UNCHANGED <<cpc, phase, reading, found, evidence, dirs, first, again, members, todo, unsafe,
                     guard>>
  BY DEF Disturb, passVars, scrubVars
<1>3. clock \in Nat /\ clock' \in Nat /\ clock < clock'
  BY <1>2 DEF CaptureInv, FilesInv
<1>4. /\ DOMAIN files = Workspace \cup {Baseline}
      /\ files' = [f \in Workspace \cup {Baseline} |-> files'[f]]
      /\ \A f \in Workspace \cup {Baseline} :
           \/ files'[f] = files[f]
           \/ files'[f].id = clock + 1 /\ files'[f].content = "other"
           \/ files'[f] = Absent
  <2>1. DOMAIN files = Workspace \cup {Baseline}
    BY DEF CaptureInv, FilesInv
  <2>2. files = [f \in Workspace \cup {Baseline} |-> files[f]]
    BY DEF CaptureInv, FilesInv
  <2>3. files' = [f \in Workspace \cup {Baseline} |-> files'[f]]
    BY <1>1, <2>2
  <2>4. \A f \in Workspace \cup {Baseline} :
          \/ f # d /\ files'[f] = files[f]
          \/ f = d /\ files'[f] \in {[id |-> clock + 1, content |-> "other"], Absent}
    BY <1>1, <2>1
  <2>5. \A x \in {[id |-> clock + 1, content |-> "other"], Absent} :
          x = Absent \/ (x.id = clock + 1 /\ x.content = "other")
    OBVIOUS
  <2> QED BY <2>1, <2>3, <2>4, <2>5
<1>5. /\ \A f \in Workspace \cup {Baseline} : \A i \in 1..clock :
           files'[f].id = i => files'[f] = files[f]
      /\ \A f \in Workspace \cup {Baseline} : \A c \in {"baseline", "secret"} :
           files'[f].content = c => files[f].content = c
  BY <1>3, <1>4 DEF Absent
<1>6. FilesInv'
  <2>1. \A f \in Workspace \cup {Baseline} :
          files'[f] = Absent \/ (files'[f].id \in 1..clock' /\ files'[f].content \in Contents)
    <3>1. \A f \in Workspace \cup {Baseline} :
            files[f] = Absent \/ (files[f].id \in 1..clock /\ files[f].content \in Contents)
      BY DEF CaptureInv, FilesInv
    <3>2. 1..clock \subseteq 1..clock' /\ clock + 1 \in 1..clock'
      BY <1>2, <1>3
    <3>3. {"secret", "other", "baseline", "change"} \subseteq Contents
      BY DEF Contents
    <3> QED BY <1>3, <1>4, <3>1, <3>2, <3>3
  <2> QED BY <1>2, <1>3, <1>4, <2>1 DEF CaptureInv, FilesInv
<1>7. ReadInv'
  BY <1>2, <1>3, <1>5 DEF CaptureInv, ReadInv, Found, Turns
<1>8. BaselineInv'
  BY <1>2, <1>5, WorkspaceIs DEF CaptureInv, BaselineInv, NoneOf, Found
<1>9. CleanInv'
  BY <1>2, <1>5 DEF CaptureInv, CleanInv, NoneOf, Scrubbing, Scrubbed, Found
<1>10. RecordInv'
  BY <1>2 DEF CaptureInv, RecordInv
<1>11. FirstInv'
  <2>1. State' = [f \in Workspace |-> files'[f].content]
    BY DEF State
  <2>2. State \in seen => State' \in seen'
    BY <1>2, <2>1
  <2>3. cpc \in {"inventory", "members", "again"} => \A f \in DOMAIN first :
          Whole(first[f].content) /\ files'[f].id = first[f].id =>
            files'[f].content = first[f].content[1]
    BY <1>5 DEF CaptureInv, FirstInv
  <2> QED BY <1>2, <1>3, <2>2, <2>3 DEF CaptureInv, FirstInv
<1>12. MembersInv'
  BY <1>2 DEF CaptureInv, MembersInv
<1>13. AgainInv'
  <2>1. CASE cpc = "again" /\ dirs # Directories
    <3>1. PICK s \in seen :
            /\ \A f \in Head(Directories) \ StepNames : f \notin DOMAIN again => s[f] = "none"
            /\ \A f \in DOMAIN first :
                 (f \in DOMAIN again /\ again[f] = first[f]) \/ files[f].id = first[f].id =>
                   s[f] = first[f].content[1]
      BY <2>1 DEF CaptureInv, AgainInv
    <3>2. \A f \in DOMAIN first : files'[f].id = first[f].id => files[f].id = first[f].id
      BY <1>5, <2>1 DEF CaptureInv, FirstInv
    <3>3. s \in seen'
      BY <1>2
    <3> QED BY <1>2, <2>1, <3>1, <3>2, <3>3 DEF AgainInv
  <2>2. CASE ~(cpc = "again" /\ dirs # Directories)
    BY <1>2, <2>2 DEF CaptureInv, AgainInv
  <2> QED BY <2>1, <2>2
<1> QED BY <1>6, <1>7, <1>8, <1>9, <1>10, <1>11, <1>12, <1>13 DEF CaptureInv

LEMMA CaptureBegins == ASSUME CaptureInit PROVE CaptureInv
<1>1. /\ cpc = "conversation" /\ phase = "baseline"
      /\ files = [f \in Workspace \cup {Baseline} |-> Absent]
      /\ clock = 0 /\ dirs = <<>> /\ todo = <<>> /\ reading = <<>> /\ found = <<>>
      /\ first = <<>> /\ again = <<>> /\ members = <<>> /\ evidence = <<>> /\ seen = {}
      /\ unsafe = {} /\ guard = "pending"
  BY DEF CaptureInit, Nothing
<1>2. \A f \in Workspace \cup {Baseline} : files[f] = Absent
  BY <1>1
<1>3. DOMAIN evidence = {} /\ DOMAIN members = {} /\ DOMAIN first = {}
  BY <1>1
<1>4. FilesInv
  <2>1. files = [f \in Workspace \cup {Baseline} |-> files[f]]
    BY <1>1
  <2> QED BY <1>1, <1>2, <2>1 DEF FilesInv
<1>5. ReadInv
  <2>1. todo \in Seq(Workspace)
    BY <1>1
  <2>2. reading = Nothing /\ cpc \notin Found
    BY <1>1 DEF Nothing, Found
  <2> QED BY <2>1, <2>2 DEF ReadInv
<1>6. BaselineInv
  <2>1. cpc # "find" /\ cpc \notin Found /\ phase # "change"
    BY <1>1 DEF Found
  <2> QED BY <2>1 DEF BaselineInv
<1>7. CleanInv
  <2>1. Absent.content # "secret"
    BY DEF Absent
  <2>2. Baseline \in Workspace \cup {Baseline} /\ Workspace \subseteq Workspace \cup {Baseline}
    OBVIOUS
  <2>3. \A f \in Workspace \cup {Baseline} : files[f].content # "secret"
    BY <1>2, <2>1
  <2> QED BY <1>1, <2>2, <2>3 DEF CleanInv, NoneOf, Scrubbing, Scrubbed, Found
<1>8. RecordInv
  BY <1>1, <1>3 DEF RecordInv
<1>9. FirstInv /\ MembersInv /\ AgainInv
  BY <1>1 DEF FirstInv, MembersInv, AgainInv
<1> QED BY <1>4, <1>5, <1>6, <1>7, <1>8, <1>9 DEF CaptureInv

LEMMA CaptureStep == ASSUME CaptureInv, [CaptureNext]_captureVars PROVE CaptureInv'
<1>1. CASE UNCHANGED captureVars
  <2>1. /\ UNCHANGED <<cpc, phase, files, clock, reading, found, evidence, seen>>
        /\ UNCHANGED <<dirs, first, again, members, todo, unsafe, guard>>
    BY <1>1 DEF captureVars, passVars, scrubVars
  <2>2. FilesInv' /\ ReadInv' /\ BaselineInv'
    BY <2>1 DEF CaptureInv, FilesInv, ReadInv, BaselineInv, NoneOf, Found, Turns
  <2>3. CleanInv' /\ RecordInv'
    BY <2>1 DEF CaptureInv, CleanInv, RecordInv, NoneOf, Scrubbing, Scrubbed, Found
  <2>4. FirstInv' /\ MembersInv' /\ AgainInv'
    BY <2>1 DEF CaptureInv, FirstInv, MembersInv, AgainInv, State
  <2> QED BY <2>2, <2>3, <2>4 DEF CaptureInv
<1>2. CASE CaptureNext
  <2>1. CASE Conversation \/ Disturb
    BY <2>1, ConversationKeeps, DisturbKeeps
  <2>2. CASE ScrubOpen \/ ScrubFile \/ EndScrub \/ RemoveUnsafe
    BY <2>2, ScrubKeeps
  <2>3. CASE FindStep \/ AcceptStep \/ CopyOpen \/ CopyStep
    BY <2>3, StepKeeps
  <2>4. CASE ListDirectory \/ InventoryFile
    BY <2>4, ListKeeps, InventoryKeeps
  <2>5. CASE PassOpen \/ EndInventory \/ MemberFile \/ EndMembers
    BY <2>5, PassKeeps
  <2>6. CASE Publish \/ RevealChange
    BY <2>6, PublishKeeps, RevealKeeps
  <2> QED BY <1>2, <2>1, <2>2, <2>3, <2>4, <2>5, <2>6 DEF CaptureNext
<1> QED BY <1>1, <1>2

\* CaptureInv is inductive: whatever is recorded was checked against the one moment of its
\* recording, however others write and remove files between any two steps of the capture.
THEOREM CaptureCorrect == CaptureSpec => []CaptureInv
<1>1. CaptureInit => CaptureInv
  BY CaptureBegins
<1>2. CaptureInv /\ [CaptureNext]_captureVars => CaptureInv'
  BY CaptureStep
<1> QED BY <1>1, <1>2, PTL DEF CaptureSpec

\* A recorded STEP is one whole content and the changed one is not the baseline's; nothing
\* recorded holds the credential, nor does the workspace when the guard says passed: for any
\* number of writes and removals by others.
THEOREM EvidenceSoundCorrect == CaptureSpec => []EvidenceSound
<1>1. CaptureInv => EvidenceSound
  <2> SUFFICES ASSUME CaptureInv PROVE EvidenceSound
    OBVIOUS
  <2>1. StepWhole
    <3> SUFFICES ASSUME NEW n \in DOMAIN evidence, n[2] = "step"
                 PROVE  /\ evidence[n][1] = evidence[n][2]
                        /\ n[1] = "change" => evidence[n][1] # "baseline"
      BY DEF StepWhole
    <3>1. Whole(evidence[n]) /\ (n[1] = "change" => evidence[n][1] # "baseline")
      BY DEF CaptureInv, RecordInv
    <3>2. evidence[n] = <<evidence[n][1], evidence[n][1]>>
      BY <3>1 DEF Whole
    <3>3. \A x : <<x, x>>[2] = x
      OBVIOUS
    <3> QED BY <3>1, <3>2, <3>3
  <2>2. ASSUME NEW n \in DOMAIN evidence, n[2] = "step"
        PROVE  "secret" \notin Range(evidence[n])
    <3>1. evidence[n] = <<evidence[n][1], evidence[n][1]>> /\ evidence[n][1] # "secret"
      BY <2>2 DEF CaptureInv, RecordInv, Whole
    <3>2. \A x : Range(<<x, x>>) = {x}
      <4> TAKE x
      <4>1. DOMAIN <<x, x>> = {1, 2} /\ <<x, x>>[1] = x /\ <<x, x>>[2] = x
        OBVIOUS
      <4> QED BY <4>1 DEF Range
    <3> QED BY <3>1, <3>2
  <2>3. ASSUME NEW n \in DOMAIN evidence, n[2] # "step"
        PROVE  "secret" \notin UNION {Range(evidence[n][f]) : f \in DOMAIN evidence[n]}
    BY <2>3 DEF CaptureInv, RecordInv
  <2>4. guard = "passed" => \A f \in Workspace : files[f].content # "secret"
    BY DEF CaptureInv, CleanInv, NoneOf
  <2>5. PassedIsClean
    BY <2>2, <2>3, <2>4 DEF PassedIsClean
  <2> QED BY <2>1, <2>5 DEF EvidenceSound
<1> QED BY <1>1, CaptureCorrect, PTL


\* The archive is of one moment since the capture began: the one at which the second
\* inventory began, when each of its members was there with the content that it has in it
\* and no other source was in the first directory.
LEMMA PublishedIsOneState ==
    ASSUME CaptureInv, Publish, ~Fail, NEW n \in DOMAIN evidence' \ DOMAIN evidence
    PROVE  \E s \in seen :
             /\ \A f \in DOMAIN evidence'[n] : evidence'[n][f] = <<s[f], s[f]>>
             /\ \A f \in Head(Directories) \ (StepNames \cup DOMAIN evidence'[n]) : s[f] = "none"
<1>1. /\ cpc = "again" /\ dirs = <<>> /\ again = first
      /\ evidence' = Recorded(<<phase, "source">>, members)
  BY DEF Publish, SameAgain
<1>2. evidence'[n] = members
  <2>1. DOMAIN evidence' = DOMAIN evidence \cup {<<phase, "source">>}
        /\ evidence'[<<phase, "source">>] = members
    BY <1>1 DEF Recorded
  <2> QED BY <2>1
<1>3. /\ DOMAIN members = DOMAIN first \ StepNames
      /\ \A f \in DOMAIN members : members[f] = first[f].content
  BY <1>1 DEF CaptureInv, MembersInv
<1>4. \A f \in DOMAIN first : Whole(first[f].content)
  BY <1>1 DEF CaptureInv, FirstInv
<1>5. PICK s \in seen :
        /\ \A f \in Head(Directories) \ StepNames : f \notin DOMAIN again => s[f] = "none"
        /\ \A f \in DOMAIN first :
             (f \in DOMAIN again /\ again[f] = first[f]) \/ files[f].id = first[f].id =>
               s[f] = first[f].content[1]
  BY <1>1, WorkspaceIs DEF CaptureInv, AgainInv
<1>6. ASSUME NEW f \in DOMAIN members
      PROVE  members[f] = <<s[f], s[f]>>
  <2>1. f \in DOMAIN first /\ members[f] = first[f].content
    BY <1>3
  <2>2. s[f] = first[f].content[1]
    BY <1>1, <1>5, <2>1
  <2>3. first[f].content = <<first[f].content[1], first[f].content[1]>>
    BY <1>4, <2>1 DEF Whole
  <2> QED BY <2>1, <2>2, <2>3
<1>7. \A f \in Head(Directories) \ (StepNames \cup DOMAIN members) : s[f] = "none"
  BY <1>1, <1>3, <1>5
<1> QED BY <1>2, <1>6, <1>7

\* No other step records sources.
LEMMA OnlyPublishRecordsSources ==
    ASSUME CaptureInv, [CaptureNext]_captureVars,
           NEW n \in DOMAIN evidence' \ DOMAIN evidence, n[2] = "source"
    PROVE  Publish /\ ~Fail
<1>1. CASE UNCHANGED evidence
  BY <1>1
<1>2. Fail => UNCHANGED evidence
  BY DEF Fail
<1>3. \A f : Open(f) => UNCHANGED evidence
  BY <1>2 DEF Open
<1>4. CASE Conversation \/ Disturb \/ ScrubOpen \/ ScrubFile \/ EndScrub \/ RemoveUnsafe
  BY <1>1, <1>3, <1>4
     DEF Conversation, Disturb, ScrubOpen, ScrubFile, EndScrub, RemoveUnsafe
<1>5. CASE FindStep \/ AcceptStep \/ CopyOpen
  BY <1>1, <1>2, <1>3, <1>5 DEF FindStep, AcceptStep, CopyOpen
<1>6. CASE CopyStep
  <2>1. CASE ~CopyFits
    BY <1>1, <1>2, <1>6, <2>1 DEF CopyStep
  <2>2. CASE CopyFits
    <3>1. evidence' = Recorded(<<phase, "step">>, Content)
      BY <1>6, <2>2 DEF CopyStep
    <3>2. n = <<phase, "step">>
      BY <3>1 DEF Recorded
    <3>3. <<phase, "step">>[2] = "step"
      OBVIOUS
    <3> QED BY <3>2, <3>3
  <2> QED BY <2>1, <2>2
<1>7. CASE ListDirectory \/ PassOpen \/ InventoryFile \/ EndInventory \/ MemberFile \/ EndMembers
  BY <1>1, <1>2, <1>3, <1>7
     DEF ListDirectory, PassOpen, InventoryFile, EndInventory, MemberFile, EndMembers
<1>8. CASE RevealChange
  BY <1>1, <1>2, <1>8 DEF RevealChange
<1>9. CASE Publish
  BY <1>1, <1>2, <1>9
<1>10. CASE UNCHANGED captureVars
  BY <1>1, <1>10 DEF captureVars
<1> QED BY <1>4, <1>5, <1>6, <1>7, <1>8, <1>9, <1>10 DEF CaptureNext

\* The members of every archive were in the workspace together at one moment since the capture
\* began, and no other source was beside them in its own directory: for every layout of the
\* workspace and any number of writes and removals by others.
THEOREM SourceTogetherCorrect == CaptureSpec => SourceTogether
<1>1. CaptureInv /\ [CaptureNext]_captureVars =>
        [\A n \in DOMAIN evidence' \ DOMAIN evidence : n[2] = "source" =>
           \E s \in seen :
             /\ \A f \in DOMAIN evidence'[n] : evidence'[n][f] = <<s[f], s[f]>>
             /\ \A f \in Head(Directories) \ (StepNames \cup DOMAIN evidence'[n]) : s[f] = "none"
        ]_captureVars
  <2> SUFFICES ASSUME CaptureInv, [CaptureNext]_captureVars,
                      NEW n \in DOMAIN evidence' \ DOMAIN evidence, n[2] = "source"
               PROVE  \E s \in seen :
                        /\ \A f \in DOMAIN evidence'[n] : evidence'[n][f] = <<s[f], s[f]>>
                        /\ \A f \in Head(Directories) \ (StepNames \cup DOMAIN evidence'[n]) :
                             s[f] = "none"
    OBVIOUS
  <2>1. Publish /\ ~Fail
    BY OnlyPublishRecordsSources
  <2> QED BY <2>1, PublishedIsOneState
<1> QED BY <1>1, CaptureCorrect, PTL DEF CaptureSpec, SourceTogether

-----------------------------------------------------------------------------
(* What an inspection says of a campaign that nobody edits. *)

\* What is on disk for slot i.
OnDisk(i) ==
    [plan |-> disk[campaign.slots[i].plan_path], auth |-> disk[campaign.slots[i].auth_path],
     profile |-> disk[campaign.slots[i].profile_path]]

\* An execution would take slot i at this time; an inspection takes it.
Takes(i, time) == SlotVerified(OnDisk(i), campaign.slots[i], time)
Passes(i) == MidpointFits(OnDisk(i).auth) /\ Takes(i, Midpoint(OnDisk(i).auth))

\* As long as nothing is edited an inspection has read what is on disk, of every slot before
\* the one at hand it has found that it passes, and it refuses for what is there.
InspectInv ==
    /\ campaign \in Campaigns /\ touches \in Nat /\ mode \in {"execute", "status"}
    /\ mode = "status" =>
         /\ npc \in {"begin", "source", "plan", "authorization", "profile", "inspected", "refused"}
         /\ pass = "first"
    /\ mode = "status" /\ touches = 0 =>
         /\ npc \in {"begin", "source"} => index = 1
         /\ npc \in {"source", "plan", "authorization", "profile"} =>
              index \in Slots /\ \A i \in Slots : i < index => Passes(i)
         /\ npc \in {"authorization", "profile"} => bytes.plan = OnDisk(index).plan
         /\ npc = "profile" => bytes.auth = OnDisk(index).auth
         /\ npc = "inspected" => \A i \in Slots : Passes(i)
         /\ npc = "refused" => ~ /\ CampaignFits(campaign) /\ campaign.controller = source
                                 /\ \A i \in Slots : Passes(i)

LEMMA InspectBegins == CampaignInit => InspectInv
BY DEF CampaignInit, InspectInv

\* What is there stays as it is when neither the campaign nor its documents change.
LEMMA PassesKept ==
    ASSUME UNCHANGED <<campaign, disk>>
    PROVE  /\ Slots' = Slots
           /\ \A i : OnDisk(i)' = OnDisk(i)
           /\ \A i : Passes(i) <=> Passes(i)'
<1>1. Slots' = Slots
  BY DEF Slots
<1>2. ASSUME NEW i
      PROVE  OnDisk(i)' = OnDisk(i)
  BY DEF OnDisk
<1>3. ASSUME NEW i
      PROVE  Passes(i) <=> Passes(i)'
  <2> DEFINE b == OnDisk(i)
             s == campaign.slots[i]
  <2>1. b' = b /\ s' = s /\ campaign' = campaign
    BY <1>2
  <2>2. Passes(i) <=> MidpointFits(b.auth) /\ SlotVerified(b, s, Midpoint(b.auth))
    BY DEF Passes, Takes
  <2>3. Passes(i)' <=> MidpointFits(b'.auth) /\ SlotVerified(b, s, Midpoint(b.auth))'
    BY DEF Passes, Takes
  <2> HIDE DEF b, s
  <2> QED BY <2>1, <2>2, <2>3 DEF SlotVerified
<1> QED BY <1>1, <1>2, <1>3

LEMMA InspectStep ==
    ASSUME InspectInv, [CampaignNext]_campaignVars
    PROVE  InspectInv'
<1> DEFINE Still == UNCHANGED <<campaign, disk, source, touches, mode, pass>>
<1>1. /\ DOMAIN campaign.slots = Slots /\ Slots = 1..Len(campaign.slots) /\ Len(campaign.slots) \in Nat
  BY CampaignsAssumption DEF InspectInv, Slots
<1>2. ASSUME Still
      PROVE  /\ Slots' = Slots /\ CampaignFits(campaign)' = CampaignFits(campaign)
             /\ \A i : OnDisk(i)' = OnDisk(i)
             /\ \A i : Passes(i) <=> Passes(i)'
  BY <1>2, PassesKept
<1>3. CASE UNCHANGED campaignVars
  <2>1. Still /\ UNCHANGED <<npc, index, bytes>>
    BY <1>3 DEF campaignVars
  <2> QED BY <1>2, <2>1 DEF InspectInv
<1>4. CASE Touch
  BY <1>4 DEF Touch, InspectInv
<1>5. CASE Tick
  <2>1. Still /\ UNCHANGED <<npc, index, bytes>>
    BY <1>5 DEF Tick
  <2> QED BY <1>2, <2>1 DEF InspectInv
<1>6. CASE Begin
  <2>1. Still /\ UNCHANGED <<index, bytes>> /\ npc = "begin" /\ npc' \in {"source", "refused"}
    BY <1>6 DEF Begin
  <2>2. CASE mode = "status"
    <3>1. npc' = "source" <=> CampaignFits(campaign)
      BY <1>6, <2>2 DEF Begin
    <3>2. CampaignFits(campaign) => 1 \in Slots
      <4>1. CampaignFits(campaign) => LimitsFit(campaign)
        BY DEF CampaignFits
      <4> QED BY <1>1, <4>1 DEF LimitsFit
    <3>3. CASE npc' = "source"
      <4>1. touches = 0 => index \in Slots /\ \A i \in Slots : i < index => Passes(i)
        BY <1>1, <2>1, <2>2, <3>1, <3>2, <3>3 DEF InspectInv
      <4> QED BY <1>2, <2>1, <2>2, <3>3, <4>1 DEF InspectInv
    <3>4. CASE npc' = "refused"
      BY <1>2, <2>1, <2>2, <3>1, <3>4 DEF InspectInv
    <3> QED BY <2>1, <3>3, <3>4
  <2> QED BY <2>1, <2>2 DEF InspectInv
<1>7. CASE CheckSource
  <2>1. Still /\ UNCHANGED <<index, bytes>> /\ npc = "source"
        /\ npc' = IF source = campaign.controller THEN "plan" ELSE "refused"
    BY <1>7 DEF CheckSource, Identity
  <2> QED BY <1>2, <2>1 DEF InspectInv
<1>8. CASE ReadPlan
  <2>1. Still /\ UNCHANGED index /\ npc = "plan" /\ npc' = "authorization"
        /\ bytes' = [plan |-> OnDisk(index).plan]
    BY <1>8 DEF ReadPlan, StableRead, SlotAtHand, OnDisk
  <2>2. bytes'.plan = OnDisk(index).plan
    BY <2>1
  <2>3. OnDisk(index)' = OnDisk(index)
    BY <2>1 DEF OnDisk
  <2> QED BY <1>2, <2>1, <2>2, <2>3 DEF InspectInv
<1>9. CASE ReadAuthorization
  <2>1. Still /\ UNCHANGED index /\ npc = "authorization" /\ npc' = "profile"
        /\ bytes' = [plan |-> bytes.plan, auth |-> OnDisk(index).auth]
    BY <1>9 DEF ReadAuthorization, StableRead, SlotAtHand, OnDisk
  <2>2. bytes'.plan = bytes.plan /\ bytes'.auth = OnDisk(index).auth
    BY <2>1
  <2>3. OnDisk(index)' = OnDisk(index)
    BY <2>1 DEF OnDisk
  <2> QED BY <1>2, <2>1, <2>2, <2>3 DEF InspectInv
<1>10. CASE ValidateFirst
  <2>1. Still /\ npc = "profile"
    BY <1>10 DEF ValidateFirst
  <2>2. ASSUME mode = "status"
        PROVE  /\ npc' \in {"plan", "inspected", "refused"}
               /\ npc' = "plan" => index < Len(campaign.slots) /\ index' = index + 1
               /\ npc' = "inspected" => ~(index < Len(campaign.slots))
    BY <1>10, <2>2 DEF ValidateFirst
  <2>3. ASSUME mode = "status", touches = 0
        PROVE  npc' \in {"plan", "inspected"} <=> Passes(index)
    <3>1. bytes.plan = OnDisk(index).plan /\ bytes.auth = OnDisk(index).auth
      BY <2>1, <2>3 DEF InspectInv
    <3>2. ReadHere = OnDisk(index)
      BY <3>1 DEF ReadHere, StableRead, SlotAtHand, OnDisk
    <3>3. Verified(ReadHere, SlotAtHand, taken) <=> Passes(index)
      BY <2>3, <3>2 DEF Verified, Passes, Takes, SlotAtHand
    <3> QED BY <1>10, <2>3, <3>3 DEF ValidateFirst
  <2>4. CASE mode = "status" /\ touches = 0
    <3>1. index \in Slots /\ \A i \in Slots : i < index => Passes(i)
      BY <2>1, <2>4 DEF InspectInv
    <3>2. CASE npc' = "plan"
      <4>1. index' = index + 1 /\ index' \in Slots
        BY <1>1, <2>2, <2>4, <3>1, <3>2
      <4>2. \A i \in Slots : i < index' => Passes(i)
        BY <1>1, <2>3, <2>4, <3>1, <3>2, <4>1
      <4> QED BY <1>2, <2>1, <2>4, <3>2, <4>1, <4>2 DEF InspectInv
    <3>3. CASE npc' = "inspected"
      <4>1. \A i \in Slots : Passes(i)
        BY <1>1, <2>2, <2>3, <2>4, <3>1, <3>3
      <4> QED BY <1>2, <2>1, <2>4, <3>3, <4>1 DEF InspectInv
    <3>4. CASE npc' = "refused"
      <4>1. ~Passes(index)
        BY <2>3, <2>4, <3>4
      <4> QED BY <1>2, <2>1, <2>4, <3>1, <3>4, <4>1 DEF InspectInv
    <3> QED BY <2>2, <2>4, <3>2, <3>3, <3>4
  <2> QED BY <2>1, <2>2, <2>4 DEF InspectInv
<1>11. CASE TakeLock \/ TurnOf \/ HandOver \/ ExecuteSlot
  <2>1. npc \in {"lock", "slot", "executing"} \/ pass = "turn"
    BY <1>11 DEF TakeLock, TurnOf, HandOver, ExecuteSlot
  <2>2. UNCHANGED <<campaign, touches, mode>>
    BY <1>11 DEF TakeLock, TurnOf, HandOver, ExecuteSlot
  <2>3. mode = "execute"
    BY <2>1 DEF InspectInv
  <2> QED BY <2>2, <2>3 DEF InspectInv
<1> QED BY <1>3, <1>4, <1>5, <1>6, <1>7, <1>8, <1>9, <1>10, <1>11 DEF CampaignNext

\* The midpoint of an authorization's period is a moment of it.
LEMMA MidpointWithin ==
    ASSUME InspectInv, NEW i \in Slots, OnDisk(i).auth = campaign.slots[i].auth,
           MidpointFits(OnDisk(i).auth)
    PROVE  LET a == OnDisk(i).auth
           IN  /\ Midpoint(a) \in Times
               /\ a.issued - Slack <= Midpoint(a) /\ Midpoint(a) < a.expires
<1> DEFINE a == OnDisk(i).auth
<1>1. a = campaign.slots[i].auth /\ campaign \in Campaigns /\ i \in DOMAIN campaign.slots
  BY CampaignsAssumption DEF InspectInv, Slots
<1>2. a.kind = "authorization" /\ a.issued < a.expires
  BY DEF MidpointFits
<1>3. /\ a.issued \in Nat /\ a.expires \in Nat
      /\ a.issued..(a.expires - 1) \subseteq Times
  BY <1>1, <1>2, PeriodsAssumption
<1>4. PICK from, to : from = a.issued /\ to = a.expires
  OBVIOUS
<1>5. from \in Nat /\ to \in Nat /\ from < to /\ from..(to - 1) \subseteq Times
  BY <1>2, <1>3, <1>4
<1>6. from + ((to - from) \div 2) \in from..(to - 1)
  BY <1>5
<1>7. Midpoint(a) = from + ((to - from) \div 2)
  BY <1>4 DEF Midpoint
<1>8. Midpoint(a) \in Times /\ Midpoint(a) \in from..(to - 1)
  BY <1>5, <1>6, <1>7
<1>9. from - Slack <= Midpoint(a) /\ Midpoint(a) < to
  BY <1>5, <1>8 DEF Slack
<1> QED BY <1>4, <1>8, <1>9

\* An inspection takes a slot exactly if there is a time when an execution would.
LEMMA PassesIfTaken ==
    ASSUME InspectInv, NEW i \in Slots
    PROVE  Passes(i) <=> \E t \in Times : Takes(i, t)
<1> DEFINE b == OnDisk(i)
           s == campaign.slots[i]
<1>1. ASSUME Passes(i)
      PROVE  \E t \in Times : Takes(i, t)
  <2>1. MidpointFits(b.auth) /\ Takes(i, Midpoint(b.auth)) /\ b.auth = s.auth
    BY <1>1 DEF Passes, Takes, SlotVerified
  <2>2. Midpoint(b.auth) \in Times
    BY <2>1, MidpointWithin
  <2> QED BY <2>1, <2>2
<1>2. ASSUME NEW t \in Times, Takes(i, t)
      PROVE  Passes(i)
  <2>1. /\ b.profile = s.profile /\ ProfileVerified(b.profile)
        /\ b.plan = s.plan /\ b.plan.revision = campaign.revision
        /\ Occurrences(s.run, b.plan.runs) = 1
        /\ b.auth = s.auth /\ b.plan.model = b.profile.name
        /\ AuthorizationVerified(b.auth, s, b.profile, t)
        /\ AutomationOnly(b.auth)
        /\ ProfileMatches(b.profile, b.plan, b.auth)
    BY <1>2 DEF Takes, SlotVerified
  <2>2. MidpointFits(b.auth)
    BY <2>1 DEF AuthorizationVerified, MidpointFits
  <2>3. /\ b.auth.issued - Slack <= Midpoint(b.auth) /\ Midpoint(b.auth) < b.auth.expires
    BY <2>1, <2>2, MidpointWithin
  <2>4. AuthorizationVerified(b.auth, s, b.profile, Midpoint(b.auth))
    BY <2>1, <2>3 DEF AuthorizationVerified
  <2> HIDE DEF b, s
  <2>5. SlotVerified(b, s, Midpoint(b.auth))
    BY <2>1, <2>4 DEF SlotVerified
  <2> QED BY <2>2, <2>5 DEF Passes, Takes, b, s
<1> QED BY <1>1, <1>2

\* What an inspection says (nightwatch: run_campaign without execute, which takes the midpoint
\* of each authorization for the time): as long as nobody edits anything it refuses no campaign
\* that an execution would take at some time, and every slot of one that it accepts has a time
\* when an execution would take it.
THEOREM InspectionPredictsCorrect == CampaignSpec => []InspectionPredicts
<1>1. ASSUME InspectInv
      PROVE  InspectionPredicts
  <2>1. DOMAIN campaign.slots = Slots
    BY <1>1, CampaignsAssumption DEF InspectInv, Slots
  <2>2. ASSUME mode = "status", touches = 0, npc = "refused", CampaignFits(campaign),
               campaign.controller = source,
               NEW t \in Times, \A i \in DOMAIN campaign.slots : Takes(i, t)
        PROVE  FALSE
    <3>1. \A i \in Slots : Passes(i)
      BY <1>1, <2>1, <2>2, PassesIfTaken
    <3> QED BY <1>1, <2>2, <3>1 DEF InspectInv
  <2>3. ASSUME mode = "status", touches = 0, npc = "inspected"
        PROVE  \A i \in DOMAIN campaign.slots : \E t \in Times : Takes(i, t)
    <3>1. \A i \in Slots : Passes(i)
      BY <1>1, <2>3 DEF InspectInv
    <3> QED BY <1>1, <2>1, <3>1, PassesIfTaken
  <2> QED BY <2>2, <2>3 DEF InspectionPredicts, Takes, OnDisk
<1> QED BY <1>1, InspectBegins, InspectStep, PTL DEF CampaignSpec
=============================================================================
