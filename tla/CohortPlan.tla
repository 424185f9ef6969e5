------------------------------ MODULE CohortPlan ------------------------------
(***************************************************************************)
(* The cohort planner: cohort_runner.build_plan, from the first read of    *)
(* the repository to the plan.  It reads one file after the other, while   *)
(* others may edit files and move HEAD, and it runs twice in the life of a *)
(* plan: once for the operator, who has the plan approved, and once inside *)
(* execute_plan (FrozenInputs), which accepts the plan only if the planner *)
(* still comes to the same.                                                *)
(*                                                                         *)
(* A file's content is a version.  Version 0 is the first release; the     *)
(* kit, and what names its digest, have a second.  Every other version of  *)
(* a file is an edit nobody froze.  A file is read whole or refused as     *)
(* changing (_stable_read), so a read is a step.                           *)
(***************************************************************************)
EXTENDS Integers, Sequences, FiniteSets

CONSTANTS
    Tasks,      \* the tasks, of "L1-ASSEMBLE", "L2-RESOLVE", "L4-ECO"
    SeedLists,  \* what --seed may be given as
    MaxEdits    \* edits by others in a behaviour

ASSUME TasksAssumption == Tasks \subseteq {"L1-ASSEMBLE", "L2-RESOLVE", "L4-ECO"}
ASSUME SeedListsAssumption == SeedLists \subseteq Seq(STRING)
ASSUME EditsAssumption == MaxEdits \in Nat

Minimum == 3   \* frontier_min_distinct_runs

\* What a revision's registry says: 0 is the first release, 1 has a new kit; in 2 and 4 a run
\* of the cell with another seed is registered, made with the first kit, and in 3 one with a
\* seed of the cohort.
Revisions == 0..4
KitNamedBy(registry) == IF registry \in {1, 4} THEN 1 ELSE 0
RegisteredIn(registry) ==
    CASE registry \in {2, 4} -> {[seed |-> "9", kit |-> 0]}
      [] registry = 3 -> {[seed |-> "01", kit |-> 0]}
      [] OTHER -> {}

\* "01" and "1" are one seed: decimal seeds are compared as numbers.
SeedIdentity(seed) == IF seed = "01" THEN "1" ELSE seed

\* The inputs a plan of the task freezes.
InputsOf(task) ==
    {"task_definition", "kit", "prompt", "driver_brief"}
    \cup (IF task = "L1-ASSEMBLE" THEN {} ELSE {"change_request"})
    \cup (IF task = "L4-ECO" THEN {"connector_metadata", "added_source"} ELSE {})

\* The file an input is read from: the L1 definition is the public contract, the part that
\* L4 adds is a member of the kit.
FileOf(task, input) ==
    CASE input = "task_definition" /\ task = "L1-ASSEMBLE" -> "contract"
      [] input = "added_source" -> "kit"
      [] OTHER -> input

\* "planner" and "provider_transport" stand for the modules the executor runs.
CodeFiles == {"planner", "provider_transport", "runtime_contract"}
HostFiles == {"docker", "model_profile"}
InputFiles(task) == {"registry"} \cup {FileOf(task, i) : i \in InputsOf(task)}
Files == CodeFiles \cup HostFiles \cup UNION {InputFiles(t) : t \in Tasks}
Versions(file) == IF file = "registry" THEN Revisions ELSE {0, 1}

Committed(revision) ==
    [f \in Files |-> CASE f = "registry" -> revision
                       [] f \in {"kit", "contract"} -> KitNamedBy(revision)
                       [] OTHER -> 0]

VARIABLES
    task,   \* the task of the cohort
    head,   \* the commit checked out
    tree,   \* the working tree: the version of every file
    edits,  \* edits made so far
    build   \* the planner: who called it, where it is and what it has read

plannerVars == <<task, head, tree, edits, build>>

NoBuild == [caller |-> "nobody", at |-> "idle"]

PlannerInit ==
    /\ task \in Tasks
    /\ head \in Revisions
    /\ tree = Committed(head)
    /\ edits = 0
    /\ build = NoBuild

\* Others work in the repository at any time: they edit a file, or move HEAD.
Edit ==
    /\ edits < MaxEdits
    /\ edits' = edits + 1
    /\ \/ /\ \E f \in InputFiles(task) \cup CodeFiles \cup HostFiles :
               \E v \in Versions(f) \ {tree[f]} : tree' = [tree EXCEPT ![f] = v]
          /\ head' = head
       \/ /\ head' \in Revisions \ {head}
          /\ tree' = tree
    /\ UNCHANGED <<task, build>>

-----------------------------------------------------------------------------
(* What the planner looks at. *)

\* At least the published minimum, and no seed twice under another spelling.
SeedsFit(seeds) ==
    /\ Len(seeds) >= Minimum
    /\ \A i, j \in DOMAIN seeds : SeedIdentity(seeds[i]) = SeedIdentity(seeds[j]) => i = j

\* The digests that the registry, or for L1 the contract, freezes the inputs by.
FrozenBy(registry, contract) ==
    [i \in InputsOf(task) |->
        CASE task = "L1-ASSEMBLE" /\ i \in {"kit", "task_definition"} -> contract
          [] i \in {"kit", "added_source"} -> KitNamedBy(registry)
          [] OTHER -> 0]

\* The order in which _read_l1_execution_contract and _frozen_inputs look at files.
ContractReads == <<"prompt", "kit", "driver_brief">>
FrozenReads ==
    <<"task_definition", "kit", "prompt", "driver_brief">>
    \o (CASE task = "L1-ASSEMBLE" -> <<"task_definition">>
          [] task = "L2-RESOLVE"  -> <<"change_request">>
          [] task = "L4-ECO"      -> <<"change_request", "connector_metadata", "added_source">>)

\* Fault: seeds are compared as they are spelled.
CollidesSpelled(registry, kit, seeds) ==
    \E r \in RegisteredIn(registry) :
        r.kit # kit \/ \E i \in DOMAIN seeds : seeds[i] = r.seed

\* A run of the cell that was made with other inputs, or a planned seed that has been run.
Collides(registry, kit, seeds) ==
    \E r \in RegisteredIn(registry) :
        \/ r.kit # kit
        \/ \E i \in DOMAIN seeds : SeedIdentity(seeds[i]) = SeedIdentity(r.seed)

\* A plan: runs, each with its seed, and what they are made from; with a word on the parts of the document nothing else here depends on.
PlanOf(b) ==
    [task |-> task, revision |-> b.revision, seeds |-> b.seeds, registry |-> b.registry,
     planner |-> b.planner, inputs |-> b.got, matched |-> Cardinality(RegisteredIn(b.registry)),
     safety |-> "nothing allowed", cohort |-> "consistent", paths |-> "canonical",
     evidence |-> "none"]

-----------------------------------------------------------------------------
(* build_plan. *)

StartBuild(caller, revision, seeds) ==
    build' = [caller |-> caller, at |-> "head", revision |-> revision, seeds |-> seeds,
              todo |-> <<>>, registry |-> 0, contract |-> 0, got |-> <<>>, planner |-> 0]

Reject == build' = [build EXCEPT !.at = "rejected"]

PlannerKeeps == UNCHANGED <<task, head, tree, edits>>

ReadHead ==
    /\ build.at = "head"
    /\ IF head = build.revision THEN build' = [build EXCEPT !.at = "registry"] ELSE Reject
    /\ PlannerKeeps

\* The registry is read once; everything it says later comes from this read.
ReadRegistry ==
    /\ build.at = "registry"
    /\ IF ~SeedsFit(build.seeds) THEN Reject
       ELSE build' = [build EXCEPT !.registry = tree["registry"],
                                   !.at = IF task = "L1-ASSEMBLE" THEN "contract" ELSE "inputs",
                                   !.todo = FrozenReads]
    /\ PlannerKeeps

ReadContract ==
    /\ build.at = "contract"
    /\ build' = [build EXCEPT !.contract = tree["contract"], !.at = "inputs",
                              !.todo = ContractReads \o FrozenReads]
    /\ PlannerKeeps

\* _digest_public_input, _observed_public_input and _validate_archive_member: the content
\* has to be the frozen one.
ReadInput ==
    /\ build.at = "inputs" /\ build.todo # <<>>
    /\ LET input == Head(build.todo)
           found == tree[FileOf(task, input)]
       IN  IF found # FrozenBy(build.registry, build.contract)[input] THEN Reject
           ELSE build' = [build EXCEPT !.todo = Tail(@),
                                       !.got = [i \in DOMAIN @ \cup {input} |->
                                                    IF i = input THEN found ELSE @[i]]]
    /\ PlannerKeeps

CheckExistingRuns ==
    /\ build.at = "inputs" /\ build.todo = <<>>
    /\ IF Collides(build.registry, build.got["kit"], build.seeds) THEN Reject
       ELSE build' = [build EXCEPT !.at = "planner"]
    /\ PlannerKeeps

ObservePlanner ==
    /\ build.at = "planner"
    /\ build' = [build EXCEPT !.planner = tree["planner"], !.at = "built"]
    /\ PlannerKeeps

BuildStep ==
    \/ ReadHead \/ ReadRegistry \/ ReadContract \/ ReadInput \/ CheckExistingRuns
    \/ ObservePlanner

-----------------------------------------------------------------------------
(* verify_plan_envelope: what a plan can be refused for without looking at   *)
(* the repository.                                                           *)

SafetyFits(plan) == plan.safety = "nothing allowed"

CohortFits(plan) == plan.cohort = "consistent"

InputsFit(plan) == plan.paths = "canonical" /\ DOMAIN plan.inputs = InputsOf(plan.task)

RunsFit(plan) == plan.evidence = "none" /\ SeedsFit(plan.seeds)

PlanFits(plan) == SafetyFits(plan) /\ CohortFits(plan) /\ InputsFit(plan) /\ RunsFit(plan)
=============================================================================
