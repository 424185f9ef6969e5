----------------------------- MODULE FrozenInputs -----------------------------
(***************************************************************************)
(* What cohort_executor.execute_plan makes an attempt from: the plan, the  *)
(* authorization, the committed code and inputs, the staged kit, the texts *)
(* and the sandbox.  Every one of them is looked at at its own moment,     *)
(* before and after the slot is claimed, while others may edit the         *)
(* repository and change the staged files.  What the files of the attempt  *)
(* go through afterwards is in H2bExecutor, how a slot is claimed in       *)
(* SlotRun.                                                                *)
(***************************************************************************)
EXTENDS CohortPlan

VARIABLES
    plan,    \* the plan handed to the executor
    auth,    \* the authorization
    epc,
    unread,  \* code files still to be compared with their commit
    staged,  \* the kit under inputs/: its version, and whether others changed it there
    texts,   \* the version of each text read for the conversation
    output,  \* the staged kit that the last script, and what it left, are made from
    sent,    \* what the provider has been given
    captured \* the staged kits that the evidence is made from

inputVars == <<plan, auth, epc, unread, staged, texts, output, sent, captured>>
materialVars == <<plannerVars, inputVars>>

NoPlan == [task |-> "none"]
NoAuth == [plan |-> NoPlan]
NoKit  == [version |-> -1, changed |-> FALSE]

MaterialInit ==
    /\ PlannerInit
    /\ plan = NoPlan /\ auth = NoAuth /\ epc = "idle" /\ unread = <<>>
    /\ staged = NoKit /\ texts = <<>> /\ output = NoKit /\ sent = {} /\ captured = {}

ChangeTask == task # "L1-ASSEMBLE"

ExecutorKeeps == UNCHANGED <<task, head, tree, edits>>

-----------------------------------------------------------------------------
(* Before the executor: the operator plans, and approves.                    *)

Plan ==
    /\ epc = "idle" /\ build.at = "idle"
    /\ \E revision \in Revisions, seeds \in SeedLists : StartBuild("operator", revision, seeds)
    /\ ExecutorKeeps /\ UNCHANGED inputVars

\* The document the executor gets is the planner's, or differs from it in one place: the
\* digest that is approved is that of the document, whoever wrote it.
Documents(p) ==
    {p}
    \cup {[p EXCEPT !.safety = "execution allowed"], [p EXCEPT !.cohort = "contradictory"],
          [p EXCEPT !.paths = "elsewhere"], [p EXCEPT !.evidence = "fabricated"],
          [p EXCEPT !.matched = 5]}
    \cup {[p EXCEPT !.seeds = s] : s \in SeedLists}
    \cup {[p EXCEPT !.registry = r] : r \in Revisions}
    \cup {[p EXCEPT !.inputs[i] = 1 - @] : i \in {"kit", "driver_brief"}}

\* The authorization that fits a plan and a turn limit, and those that differ from it in
\* one place.
Fitting(p) ==
    [plan |-> p, slot |-> "planned", digest |-> "approved", current |-> TRUE, granted |-> TRUE,
     profile |-> 0, provider |-> "profile's", turns |-> 4, seed |-> "planned",
     runtime |-> "frozen", docker |-> 0, limiter |-> "one",
     revision |-> p.revision, code |-> [f \in CodeFiles |-> 0], billing |-> "no charge"]

Authorizations(p) ==
    LET a == Fitting(p)
    IN  {a, [a EXCEPT !.plan = NoPlan], [a EXCEPT !.slot = "other"], [a EXCEPT !.digest = "other"],
         [a EXCEPT !.current = FALSE], [a EXCEPT !.granted = FALSE], [a EXCEPT !.profile = 1],
         [a EXCEPT !.provider = "other"], [a EXCEPT !.turns = 0], [a EXCEPT !.turns = 3],
         [a EXCEPT !.seed = "other"], [a EXCEPT !.runtime = "other"], [a EXCEPT !.docker = 1],
         [a EXCEPT !.limiter = "two"], [a EXCEPT !.billing = "metered"]}
        \cup {[a EXCEPT !.revision = r] : r \in Revisions}
        \cup {[a EXCEPT !.code[f] = 1] : f \in CodeFiles}

Approve ==
    /\ epc = "idle" /\ build.caller = "operator" /\ build.at = "built"
    /\ \E p \in Documents(PlanOf(build)) :
         /\ plan' = p
         /\ auth' \in (IF p = PlanOf(build) THEN Authorizations(p) ELSE {Fitting(p)})
    /\ epc' = "arguments" /\ build' = NoBuild
    /\ ExecutorKeeps /\ UNCHANGED <<unread, staged, texts, output, sent, captured>>

-----------------------------------------------------------------------------
(* verify_authorization, in the order of the code. *)

\* The executor has the digest of the runtime contract it was calibrated for.
ContractFits == tree["runtime_contract"] = 0

EnvelopeFits(a) ==
    /\ a.digest = "approved" /\ a.current
    /\ a.plan = plan /\ a.slot = "planned"
    /\ a.granted

ProviderFits(a) == a.profile = 0 /\ a.provider = "profile's"

SettingsFit(a) == a.turns \in 1..64

ContainerFits(a) == a.runtime = "frozen"

ImplementationFits(a) == a.limiter = "one"

SpendFits(a) == a.billing = "no charge"

AuthorizationFits(a) ==
    /\ EnvelopeFits(a) /\ ProviderFits(a) /\ SettingsFit(a) /\ ContainerFits(a)
    /\ ImplementationFits(a) /\ SpendFits(a)

-----------------------------------------------------------------------------
(* execute_plan up to the claim.  A call that is refused here has written    *)
(* nothing.                                                                  *)

\* One gate: on to the next one, or the call is refused.
Gate(from, fits, to) ==
    /\ epc = from
    /\ epc' = IF fits THEN to ELSE "refused"

VerifyPlan ==
    /\ Gate("arguments", PlanFits(plan), "profile")
    /\ ExecutorKeeps /\ UNCHANGED <<build, plan, auth, unread, staged, texts, output, sent, captured>>

\* The profile is read from the repository; the rest of this step looks at arguments. The
\* plan names the profile with release 0's digest.
VerifyAuthorization ==
    /\ Gate("profile", tree["model_profile"] = 0 /\ ContractFits /\ AuthorizationFits(auth), "docker")
    /\ ExecutorKeeps /\ UNCHANGED <<build, plan, auth, unread, staged, texts, output, sent, captured>>

VerifyDocker ==
    /\ Gate("docker", tree["docker"] = auth.docker, "code")
    /\ unread' = <<"planner", "provider_transport", "runtime_contract">>
    /\ ExecutorKeeps /\ UNCHANGED <<build, plan, auth, staged, texts, output, sent, captured>>

\* _verify_committed_implementation, a file at a time: approved, on disk, in the commit.
VerifyCode ==
    /\ epc = "code"
    /\ IF unread = <<>>
       THEN /\ epc' = IF plan.planner = auth.code["planner"] THEN "inputs" ELSE "refused"
            /\ unread' = unread
       ELSE LET f == Head(unread)
                fits == /\ auth.revision = plan.revision
                        /\ tree[f] = auth.code[f]
                        /\ Committed(plan.revision)[f] = auth.code[f]
            IN  /\ epc' = IF fits THEN epc ELSE "refused"
                /\ unread' = Tail(unread)
    /\ ExecutorKeeps /\ UNCHANGED <<build, plan, auth, staged, texts, output, sent, captured>>

\* Fault: the planner has compared the inputs with the registry already.
CommittedInputsFitRegistry == plan.registry = Committed(plan.revision)["registry"]

\* _verify_committed_plan_inputs: the plan's registry and inputs are those of its commit.
CommittedInputsFit ==
    LET blobs == Committed(plan.revision)
    IN  /\ plan.registry = blobs["registry"]
        /\ \A i \in DOMAIN plan.inputs : plan.inputs[i] = blobs[FileOf(task, i)]

VerifyInputs ==
    /\ Gate("inputs", CommittedInputsFit, "limits")
    /\ ExecutorKeeps /\ UNCHANGED <<build, plan, auth, unread, staged, texts, output, sent, captured>>

VerifyLimits ==
    /\ Gate("limits", (ChangeTask => auth.turns >= 4) /\ auth.seed = "planned", "rebuild")
    /\ ExecutorKeeps /\ UNCHANGED <<build, plan, auth, unread, staged, texts, output, sent, captured>>

\* _rebuild_plan: the planner runs again, in the executor, and has to come to the same.
Rebuild ==
    /\ epc = "rebuild" /\ build.at = "idle"
    /\ StartBuild("executor", plan.revision, plan.seeds)
    /\ ExecutorKeeps /\ UNCHANGED inputVars

\* Fault: it is enough that the planner does not refuse.
RebuiltAtAll(b) == b.at = "built"

Rebuilt(b) == b.at = "built" /\ PlanOf(b) = plan

CompareRebuilt ==
    /\ epc = "rebuild" /\ build.at \in {"built", "rejected"}
    /\ epc' = IF Rebuilt(build) THEN "ready" ELSE "refused"
    /\ ExecutorKeeps /\ UNCHANGED <<build, plan, auth, unread, staged, texts, output, sent, captured>>

\* _assert_execution_ready, the runs directory, the credential, and the claim.
Claim ==
    /\ epc = "ready"
    /\ epc' \in {"refused", "kit"}
    /\ ExecutorKeeps /\ UNCHANGED <<build, plan, auth, unread, staged, texts, output, sent, captured>>

-----------------------------------------------------------------------------
(* The attempt.  Whatever fails from here on ends it, with a journal.        *)

\* One step of the attempt: on to the next, or the attempt has failed.
Step(from, fits, to) ==
    /\ epc = from
    /\ epc' = IF fits THEN to ELSE "failed"

\* Fault: the archive is taken to be the one the planner saw.
KitFitsSince == TRUE

KitFits == tree["kit"] = plan.inputs["kit"]

\* _stage_kit: the archive is read once, compared and unpacked; the manifest is of what was
\* unpacked.
StageKit ==
    /\ Step("kit", KitFits, "prompt")
    /\ staged' = IF epc' = "failed" THEN staged ELSE [version |-> tree["kit"], changed |-> FALSE]
    /\ ExecutorKeeps /\ UNCHANGED <<build, plan, auth, unread, texts, output, sent, captured>>

\* The staged files are read-only, which does not keep the account they belong to from
\* changing them. A change is not undone.
Tamper ==
    /\ staged # NoKit /\ ~staged.changed /\ edits < MaxEdits
    /\ staged' = [staged EXCEPT !.changed = TRUE] /\ edits' = edits + 1
    /\ UNCHANGED <<task, head, tree, build, plan, auth, epc, unread, texts, output, sent, captured>>

\* Fault: the text was compared when the plan was.
TextFitsSince(text) == TRUE

\* _public_text: the text goes into the messages only with its frozen digest.
TextFits(text) == tree[text] = plan.inputs[text]

ReadText(text, from, to) ==
    /\ Step(from, TextFits(text), to)
    /\ texts' = IF epc' = "failed" THEN texts
                ELSE [t \in DOMAIN texts \cup {text} |-> IF t = text THEN tree[text] ELSE texts[t]]
    /\ ExecutorKeeps /\ UNCHANGED <<build, plan, auth, unread, staged, output, sent, captured>>

ReadPrompt == ReadText("prompt", "prompt", "brief")
ReadBrief  == ReadText("driver_brief", "brief", "sandbox")

\* Fault: read-only files are taken not to change.
KitIntactReadOnly == TRUE

\* _verify_staged_kit: the staged files are still those of the manifest.
KitIntact == ~staged.changed

\* What the sandbox says of itself: the image and Docker that were authorized under the
\* whole policy, others, or less than the policy asks for.
Attestations == {"authorized", "other image", "no policy"}

AttestationFits(said) == said # "no policy"
AttestedAsAuthorized(said) == said = "authorized"

\* start, then the staged kit once more, then the comparison with the authorization.
StartSandbox ==
    /\ epc = "sandbox"
    /\ \E said \in Attestations :
         epc' = IF /\ tree["docker"] = auth.docker
                   /\ AttestationFits(said)
                   /\ KitIntact
                   /\ AttestedAsAuthorized(said)
                THEN "ask" ELSE "failed"
    /\ ExecutorKeeps /\ UNCHANGED <<build, plan, auth, unread, staged, texts, output, sent, captured>>

\* The provider gets the messages there are; it asks for a script, or ends the phase.
Messages == {[what |-> t, of |-> texts[t], changed |-> FALSE] : t \in DOMAIN texts \ {"prompt"}}
            \cup (IF output = NoKit THEN {}
                  ELSE {[what |-> "output", of |-> output.version, changed |-> output.changed]})

Ask ==
    /\ epc = "ask"
    /\ sent' = sent \cup Messages
    /\ epc' \in {"before", "ended", "failed"}
    /\ ExecutorKeeps /\ UNCHANGED <<build, plan, auth, unread, staged, texts, output, captured>>

VerifyBefore ==
    /\ Step("before", KitIntact, "script")
    /\ ExecutorKeeps /\ UNCHANGED <<build, plan, auth, unread, staged, texts, output, sent, captured>>

\* The script sees the staged files as they are while it runs.
RunScript ==
    /\ epc = "script" /\ epc' \in {"after", "failed"}
    /\ output' = staged
    /\ ExecutorKeeps /\ UNCHANGED <<build, plan, auth, unread, staged, texts, sent, captured>>

\* Its output stays in the messages only if nobody was at the staged files meanwhile.
VerifyAfter ==
    /\ Step("after", KitIntact, "ask")
    /\ ExecutorKeeps /\ UNCHANGED <<build, plan, auth, unread, staged, texts, output, sent, captured>>

\* The end of a phase: the staged kit once more, then the STEP and the sources.
EndPhase ==
    /\ Step("ended", KitIntact /\ output # NoKit, "capture")
    /\ ExecutorKeeps /\ UNCHANGED <<build, plan, auth, unread, staged, texts, output, sent, captured>>

Capture ==
    /\ Step("capture", TRUE,
            IF ChangeTask /\ "change_request" \notin DOMAIN texts THEN "reveal" ELSE "completed")
    /\ captured' = captured \cup {output}
    /\ ExecutorKeeps /\ UNCHANGED <<build, plan, auth, unread, staged, texts, output, sent>>

\* The baseline STEP is removed, and the change revealed.
Reveal ==
    /\ ReadText("change_request", "reveal", "ask")

MaterialNext ==
    \/ (Edit /\ UNCHANGED inputVars) \/ Tamper
    \/ (BuildStep /\ UNCHANGED inputVars)
    \/ Plan \/ Approve
    \/ VerifyPlan \/ VerifyAuthorization \/ VerifyDocker \/ VerifyCode \/ VerifyInputs
    \/ VerifyLimits \/ Rebuild \/ CompareRebuilt \/ Claim
    \/ StageKit \/ ReadPrompt \/ ReadBrief \/ StartSandbox \/ Ask \/ VerifyBefore \/ RunScript
    \/ VerifyAfter \/ EndPhase \/ Capture \/ Reveal

MaterialSpec == MaterialInit /\ [][MaterialNext]_materialVars

-----------------------------------------------------------------------------
(* Properties. *)

BeforeTheClaim == {"idle", "arguments", "profile", "docker", "code", "inputs", "limits", "rebuild",
                   "ready", "refused"}

\* A slot is claimed only for what one commit holds: the plan, its inputs, its registry and
\* the code that was approved are all of the revision it names, the document is what the
\* planner makes of that revision, and none of its seeds is registered there, under any
\* spelling, although every part was looked at in another step and others were editing.
ClaimJustified ==
    epc \notin BeforeTheClaim =>
        LET blobs == Committed(plan.revision)
            Planned == {SeedIdentity(plan.seeds[i]) : i \in DOMAIN plan.seeds}
        IN  /\ auth.plan = plan /\ auth.revision = plan.revision
            /\ \A f \in CodeFiles : auth.code[f] = blobs[f]
            /\ plan.registry = blobs["registry"] /\ plan.planner = blobs["planner"]
            /\ \A i \in InputsOf(task) : plan.inputs[i] = blobs[FileOf(task, i)]
            /\ plan.matched = Cardinality(RegisteredIn(plan.registry))
            /\ plan.safety = "nothing allowed" /\ plan.evidence = "none"
            /\ Cardinality(Planned) = Len(plan.seeds) /\ Len(plan.seeds) >= Minimum
            /\ \A r \in RegisteredIn(blobs["registry"]) :
                   r.kit = plan.inputs["kit"] /\ SeedIdentity(r.seed) \notin Planned

\* What the provider is given, and what the evidence is made from, is what the plan's commit
\* holds: every text, and every script's output, which is of the frozen kit and of no file
\* that somebody changed on the way.
DeliveredAsFrozen ==
    LET blobs == Committed(plan.revision)
    IN  /\ \A t \in DOMAIN texts : texts[t] = blobs[t]
        /\ \A m \in sent : ~m.changed /\ m.of = blobs[IF m.what = "output" THEN "kit" ELSE m.what]
        /\ \A c \in captured : ~c.changed /\ c.version = blobs["kit"]
=============================================================================
