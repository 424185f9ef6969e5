# MARB in TLA+

MARB is a benchmark for language models that design mechanical parts in
CadQuery. Most of the repository is straight-line Python (graders, validators,
page builders). What is hard to get right is the machinery that *runs* models:
a serial campaign controller (Nightwatch) that hands approved slots to an
executor (H2b), which claims a slot for good, talks to a model server, runs the
model's code in a container and seals what happened. That machinery is
concurrent with other processes, dies in the middle of things, reads files that
others may edit meanwhile, and must never run a slot twice, spend more than was
authorized or report a result nothing proves. This directory specifies, checks
and proves it.

## Inventory

| part | where | state it keeps | operations | what makes it correct | here |
|---|---|---|---|---|---|
| Nightwatch controller | `harness/nightwatch.py` | `writer.lock`, `ledger.json`, `events.jsonl`, the ledger in memory | `run_campaign` (status / inspect / execute), reconcile, replay, record | no slot dispatched twice; one dispatch at a time; results only from sealed evidence; journal always loadable; the failure threshold bounds the spending; what is handed over is what was approved and is current | `Nightwatch`, `NightwatchStatus`, `CampaignInputs` |
| H2b executor, from outside | `harness/cohort_executor.py` | `.slot-claims/*.json`, attempt directory, `run_log.json`, `run_log.sha256` | `execute_plan` | one claim per slot, for good; only the call that sealed an attempt may take it back, before it returns | `SlotRun` |
| H2b executor, files | same | run log, event journal, inventory, sequence number | staging, checkpoint, finalization, `_seal_run_journal` | a sealed log matches its journal; a failure anywhere still leaves a record | `H2bExecutor` |
| frozen inputs | same | the plan, the commit, the staged kit | preflight, `_stage_kit`, delivery | only what one commit holds is claimed, delivered and run | `FrozenInputs` |
| evidence capture | same | scrub results, STEP, source archive | `_scrub_workspace_secrets`, `_copy_discovered_step`, `_deterministic_source_zip` | what is recorded is whole, was there together, and is without the credential | `EvidenceCapture` |
| provider conversation | same, `_phase_loop` | messages, calls, budget counters | turns, tool calls | no budget is exceeded; what was spent is recorded | `PhaseLoop` |
| process supervision | `cohort_executor.py`, `provider_transport.py` | child processes, pipes, threads | spawn, read, terminate | every child is gone after the call; an answer is used whole or not at all | `ProviderTransport`, `GitBlobReader` |
| Docker sandbox | `harness/isolated_container.py` | containers, temporary workspace | `execute`, `probe_policy_readback` | only attested code runs; the workspace is never lost; a call tells the truth | `IsolatedDocker`, `ContainerPolicy` |
| run limiter | `harness/container/run_limited.py` | process group in the container | copy, run, take stock, kill, export | the export is one state within the limits, and nothing is left to change it | `RunLimiter` |
| smoke runner | `harness/runtime_smoke_runner.py`, `container_policy_probe.py` | manifests, evidence file | `run_smoke`, `main` | a pass means that it happened | `SmokeRunner` |
| planner | `harness/cohort_runner.py` | none | `build_plan`, checks against the registry | the plan is of one commit and repeats no run | `CohortPlan` |
| model adapter | `harness/local_model_adapter.py` | none | profile validation, `attest_runtime`, cache inventory | identity shown without a model call | `RuntimeAttestation`, `CampaignInputs` |
| graders | `grader/` | none | geometry, FEA, matching, verdicts | | no |
| scripts, site, kits, results | `scripts/`, `publishing/`, ... | files | validators, page builders | | no |

The parts interact through files (`runs/`, the repository, the attempt's
workspace), through one OS lock (`writer.lock`), and by calls: Nightwatch calls
`execute_plan`, which calls the planner, the git reader, the provider session
and the sandbox. The hard behaviours are accordingly the interleavings of *file
reads, creations and renames* of several processes, *deaths between two of
them*, *commands that are carried out after their client gave up*, and *time
that passes between a check and a use*. Every hazard is listed with its line and
its properties in `PROJECT.json`.

## Modules

| module | models | kind |
|---|---|---|
| `SlotRun` | `execute_plan` as its callers and their rivals see it | component |
| `Nightwatch` | `run_campaign` with `execute=True`, extends `SlotRun` (the controller *is* a caller of the executor) | component, composition |
| `NightwatchStatus` | the status command beside the controllers, extends `Nightwatch` | component, composition |
| `CampaignPromise` | what a campaign promises, as a state machine over the published ledger | abstract specification |
| `H2bExecutor` | the files of an attempt; refines `SlotRun` | component, refinement |
| `PhaseLoop` | the conversation and its budgets | component |
| `ProviderTransport`, `GitBlobReader` | the two supervised subprocesses of the executor | components |
| `RunLimiter` | PID 1 of the container, and the kernel's processes | component |
| `ContainerPolicy` | the policy asked for, read back and needed | pure definitions |
| `IsolatedDocker` | the sandbox against an external Docker daemon, uses `ContainerPolicy` | component |
| `SmokeRunner` | the qualification of an image and the policy probe's command | component |
| `CohortPlan` | the planner, reading a repository that others edit | component |
| `FrozenInputs` | preflight, staging and delivery of an attempt, extends `CohortPlan` (the planner runs again inside) | component, composition |
| `EvidenceCapture` | scrub, STEP and sources | component |
| `CampaignInputs` | what the controller reads, validates and hands over | component |
| `CampaignDocuments` | campaigns, plans, authorizations and profiles, good and with one deviation, for TLC | instance |
| `RuntimeAttestation` | the attestation of a model server | component |
| `HelpersMC`, `MaterialMC` | four components each that share nothing, one per behaviour | instances |
| `NightwatchMC`, `NightwatchStatusMC`, `H2bExecutorMC` | symmetry, a bound, a view | instances |
| `NightwatchInv` | the inductive invariant of `Nightwatch` | invariant |
| `SlotRunProofs`, `NightwatchProofs`, `NightwatchResults`, `H2bExecutorProofs`, `PhaseLoopProofs`, `IsolatedDockerProofs`, `MaterialProofs`, `HelpersProofs` | see *Proofs* | proofs |

### SlotRun

`evidence[s]` is what `runs/` holds for slot `s`, as a reader of claim,
directory, log and digest can classify it; `call[r]` is the `execute_plan` call
of runner `r`. A call goes `preflight -> claim -> mkdir -> setup -> work -> seal
-> sidecar -> sync` and ends in one of four ways a caller can tell apart: it returns,
raises `RunExecutionError`, lets another exception through, or lets an interrupt
through. Each file operation that another process can see between two others is
a step of its own: opening the claim with mode `xb` (`OpenClaim`), writing it
(`WriteClaim`), making the directory (`MakeAttemptDir`), replacing the run log by
its sealed version (`WriteSealedLog`), creating and flushing the digest
(`WriteSidecar`). From then on readers find a sealed attempt, but the call has
still to synchronize the digest and to return (`Return`): until it has, a failing
`fsync` or an interrupt makes it rewrite the log as `failed_closed` (`SealFails`),
so an attempt that was sealed for a moment becomes `spoiled`. `EvidencePermanent`
says that nobody else, and nothing later, does that.
What happens while the model works is one step, `EndWork`.

Abstracted: the content of claims and logs (only whether they name this
campaign's plan, profile and authorization, `bound`, and carry a passing runtime
attestation, `attested`); directories of foreign attempts (`StrayDirs`).
The shipped executor always writes `runtime_attestation: None`, so
`Attestations = {FALSE}` is the code as it is, in which no completed slot is ever
imported. The runs about the controller use `TRUE`, what the reader is written
for, `restarts` both.

### H2bExecutor

`disk[s]` is the slot's claim, directory, `run_log.json`, event journal, captured
artifacts, inventory and digest; the digest is represented by the log it was
computed from. Per call: `pc` (program point), `step` (index in `Script`, the
guarded region's fixed order of work), `log` (the `run_log` dictionary), `seq`
(`sequence`), `late` (the deadline has passed) and `box` (the sandbox).

| code | actions |
|---|---|
| preflight, `_allocate_run_dir` | `CheckCollision`, `OpenClaim`, `ClaimRefused`, `WriteClaim`, `MakeAttemptDir` |
| setup, `fail_setup` | `StartAttempt`, `WriteFirstLog`, `AppendCreated`, `FinishSetup`, `SetupFails` |
| guarded region, `_phase_loop` | `Stage`, `Connect`, `Ask`, `Answer`, `Capture`, `Freeze`, `Reveal`, `Complete`, `WorkFails` |
| `checkpoint` | `Save`, then `AppendEvent` |
| `finally` | `Scrub`, `CloseSandbox`, `Tally` |
| `_seal_run_journal` | `AppendFinal`, `Inventory`, `WriteSealedLog`, `WriteDigest`, `Return`; `SealFails`, `FailClosed`, `FailDigest` |

A write that raises may have done nothing, half of its work or all of it
(`AppendAttempts`, `ReplaceAttempts`, `Debris`, `SealDebris`). `Expire` lets
time pass at every point where somebody looks at the clock afterwards.

Abstracted: the preflight before the claim is one step that may fail (it is
taken apart in `FrozenInputs`); the failure categories are folded to those
properties tell apart; budgets are free choices here (a turn may be refused,
repeated or end the phase; they are the subject of `PhaseLoop`). A second Ctrl-C
during the three lines of the `except` clause is left out. `fail_setup` may
raise another category than the one the log records when its own sealing fails;
callers of `SlotRun` cannot see the category. What a killed process leaves at
the Docker daemon is in `IsolatedDocker`.

`ImplementsSlotRun` is `SlotRun!RunSpec` under the mapping at the end of the
module, with `Attestations <- {FALSE}`. Sealing may fail or be interrupted at
each of its steps up to the return, after the digest can be read included.

### PhaseLoop

`_phase_loop`, called once for the baseline and once for the change on one
`ExecutionBudget`. `budget` is that object, `calls` is
`run_log["provider"]["calls"]`, `saved` the same list as the log on disk has it,
`todo` what is left of the last answer's tool calls; `did` is a history of what
really happened outside. The order of the loop is kept: deadline and cost are
looked at before a turn is counted (`Refuse`, `CountTurn`), a turn is spent even
if its request is too long (`RequestTooLong`), the attempt is on disk before the
provider hears of it (`RecordAttempt`, `BeginCall`), cost is charged before it is
compared, tools are charged when the whole answer is accepted (`Answered`), and
the clock is read after each tool (`Settle`). Sizes are counted in messages. The
metered billing mode is modelled because the loop has it, although
`verify_authorization` refuses it today.

### ProviderTransport, GitBlobReader, RunLimiter

Three supervisors with the processes and threads they supervise. In
`ProviderTransport` a writer and a reader thread, the helper and the calling
thread take their steps in any order; the helper has no timeout of its own. In
`GitBlobReader` the executable may be replaced by others unless the open handles
keep them from writing (`Sharing`, Windows; the run has it, and
`SpawnedAuthorized` is claimed only there), and git may
leave a process behind that holds the pipe. In `RunLimiter` processes fork,
leave the group, exit and are adopted by PID 1, which waits for its script only;
the workspace is inventoried while the script runs and once more afterwards.

### IsolatedDocker, ContainerPolicy

One caller (`pc`, `call`) with its run directory (`files`) and the daemon
(`box`, `wire`). One caller is enough: names are random, run directories are per
attempt, and the only containers of others a call can meet are those it
confuses with its own (`ForeignNames`).

| code | actions |
|---|---|
| checks, name, exclusive export file | `Begin`, `Stage` |
| `docker create`, readback, `_validate_container_metadata` | `Build`, `Create`, `ReadBack`, `Attest` |
| `docker start --attach`, export checks | `Start`, `Finished` |
| `except BaseException` | `Raises` |
| `finally`: `_cleanup_uncertain_creation`, `_cleanup_container`, `_unlink_export_staging` | `Cleanup`, `Resolve`, `Kill`, `Remove`, `Absent`, `CleanupFails`, `Unstage` |
| `_replace_workspace_from_export` and its failures | `Extract`, `SetAside`, `Install`, `DropPrevious`, `DiscardArchive`, `RestoreFails`, `Undo` |
| the executor's next tool call | `Again` |

The daemon is external. A command whose client was killed (`GivenUp`) was carried
out, is not, or still will be at any later time (`wire`, `DaemonCatchesUp`). A
container may be built differently from what was asked, in any one aspect of
`ContainerPolicy`: what `build_create_command` asks for, what
`_validate_container_metadata` compares, and, independently of both, what the
container could do. `docker create` may print the identity of another container.

Abstracted: time (any step with a timeout or a deadline check may raise);
identities and names are one thing; `kill` and `stop` are one step; what the path
and archive checks look at (they raise or they do not); the check of the
`docker.sock` text and the image preflight, which change nothing. Not modelled:
Ctrl-C between the end of an `except` clause and the `try` of the `finally`
block, and a `SystemExit` raised from within.

### SmokeRunner

`run_smoke` and `main` from the first manifest to the exit code, and
`container_policy_probe`, which does the same around one readback. Others replace
the executable, edit or move the checkout, pull the image again or write at the
place of the output, at most `MaxChanges` times. A change that is undone before
anybody looks cannot be seen by a tool that looks before and after; changes here
stay. What the sandbox may report is restricted to what `IsolatedDocker` shows
of it.

### CohortPlan, FrozenInputs

A file's content is a version; a commit is a function from files to versions;
the checkout begins clean, and `head` and the working tree are edited by others
between any two reads (at most `MaxEdits` times). `CohortPlan` is `build_plan`, one action per file it reads.
`FrozenInputs` is what `execute_plan` does from the approved plan to the last
delivery: plan and registry, authorization, committed inputs, executor and
container sources, the planner once more, the claim; then staging the kit, the
texts for the provider, and the check of the kit before and after every script.
`ClaimJustified` and `DeliveredAsFrozen` relate all of these to one commit.
A file is read whole or refused as changing, so a read is one step. A staged file
that is changed and changed back between two looks is not seen by them and not
in the model. Also outside: the provider helper's source is read from disk again
for each call, and modules already loaded are not compared with what is on disk.

### EvidenceCapture

A file has an identity (device, inode, size, mtime) and a content, is read in
two chunks with a stat before and after, and others may write, replace or remove
it between any two steps (`MaxChanges` times; they write no credential, the model
may have). Capture of the STEP, archive of the sources, and the scrub, which
comes before, after and at the very end. Listing the workspace for the scrub is
one step. The layout of the workspace is a parameter (`Directories`, in the order
of the walk, with the files that may ever be in them); others make and remove
files, not directories. `SourceTogether` is about the members of an archive: all
of them were there, with these bytes, at one moment, that at which the second
inventory began. Of sources that are *not* in the archive it speaks only for the
workspace's own directory, the first that is listed. Those in another directory may
come and go between the listings of two directories, without the two inventories
differing. Not modelled: the partial target that `_copy_evidence` leaves when the
deadline raises in the middle of a copy; and for L1 the final STEP is copied from
the evidence directory and not compared with the recorded baseline.

### Nightwatch

One action per step of `run_campaign` that touches a file or decides where to
go. `mem[p]` is the ledger in the controller's memory, `idx[p]` the loop index,
`pend[p]` the event `_record_transition` is recording. `_record_transition` is two
actions, because a death between them is the interesting case: `AppendEvent`
(the fsynced line) and `PublishLedger` (the atomic replacement). Deaths (`Die`)
are possible everywhere; a death in mid-append may leave a torn line. `Die` also
stands for every exception that leaves `run_campaign` (a failing clock, a full
disk): the files are as they are, the lock and the memory are gone.

`_load_state` is `LoadState` (both files are read and replayed),
one `ReconcileSlot` per slot (others may seal evidence in between) and
`FinishReconcile`. Not modelled: the branch of the slot loop for a slot that is
neither terminal nor pending (lines 1466-1479); `NothingRunningAtSelect` is
proved and says that no controller gets there.

`Reconciled` is `_reconcile_slot`. It reads the evidence, and at every load and after
every call of the executor it also reads the retained model profile again,
verifies it and compares the log with it. Whatever fails there, or changes while it
is read, gives `manual_review`, also to a slot that has a published result; the
parameter `sound` says whether all of it passed and is chosen anew each time.

Direct callers of the executor (`Directs`) run beside the controllers; those in
`Foreign` use another plan or authorization. The attempt of a direct caller of
this campaign may be imported after its digest was written and be taken back by
its call before that returns (`Withdrawn`); then the published result is one that
was proved for a moment only. `Backs` says so in `ResultsBacked`,
`VerdictTruthful` and `FailureBudget`. It cannot happen to a controller's own
attempt, because the controller waits for the call, nor where nobody but
controllers executes this campaign.

### NightwatchStatus

The status command takes no lock: `ReadLedger`, `LooksForJournal` and
`ReadJournal` see the files at three moments, and `LookAtSlot` the evidence of one
slot after the other, while everybody else goes on. `view` is what it has put
together and `since` what was already so when it began. `_stable_read` refuses a
ledger that is replaced while it is read (`RefuseStatus` while a controller is
`Publishing`). `StatusTruthful` says what its report may claim, and when a live
campaign's files may be refused. A slot that is being executed is reported as
`manual_review`, since the command cannot tell an attempt under way from one that
died; nothing is recorded of that.

### CampaignInputs

The campaign, and the plan, authorization and profile of each slot, as records
that stand for their digests; time (`now`, a set of numbers); and the edits of
others. The documents that an operator may write (`Campaigns`) and casefolding
(`Fold`) are constants: the theorems hold for all of them, and
`CampaignDocuments` gives TLC good ones and ones that deviate in one place. `run_campaign` validates every slot at the start (in the authorization's
midpoint for an inspection that comes too early) and validates a slot again when
its turn has come. Refusals are named predicates, one per group of checks
(`CampaignFits`, `ProfileVerified`, `AuthorizationVerified`, `SlotVerified`).
`_stable_read` gives one version of a file. The controller's own source is
measured once at the start, on disk: what the running process has loaded is not
compared. The authorization's window is looked at once, at the slot's turn: an
attempt may outlive it.

### RuntimeAttestation

`attest_runtime`, the executor's observer `_observe_same_host_model_container`
and the probe of `/v1/models`: the Docker executable, the container, the image,
mount and port, and the served names are looked at one after the other, and
`Deed` may stop, start or replace any of them in between. `was` is a history of
what was so. The guarantee is that of `AttestationTrue` and no more: each part was
true at some moment of the call, the parts that come from one `docker inspect` at
one moment, and image and container agree; a Docker executable that is replaced
after it was checked may say anything. The executor holds this code and does not
call it.

## Runs

| run | instance | checks | shows |
|---|---|---|---|
| `restarts` | 2 controllers, 3 slots, threshold 2, 3 starts | `JournalLoadable`, `NoRedispatch`, `FlaggedNeverDispatched`, `SerialDispatch`, `FailureBudget`, `KeepsPromise` | the no-retry rule, bounded spending and the campaign's promise over deaths and lock races |
| `foreign` | 1 controller, 2 direct callers (one of another campaign; one call at a time), the status command, 2 slots | `ClaimExclusive`, `EvidencePermanent`, `ResultsBacked`, `VerdictTruthful`, `StatusTruthful` | only what this campaign's sealed attempts prove, or did until their caller took them back, is imported, judged and reported |
| `live` | 2 controllers, 2 slots, 3 starts, fair | `Termination`, `RunningResolved` | every started controller ends; a slot left running is resolved by the next |
| `change_task` | 1 caller, 1 slot, change task, 4 turns, fair | `SealedIsComplete`, `SandboxAccounted`, `ArtifactsKept`, `CallsEnd` | whatever fails or dies, a sealed record is complete, nothing else looks sealed, and the call ends |
| `race` | 2 callers, one with another authorization, 1 slot | `ImplementsSlotRun` | the detailed executor is `SlotRun` to everybody outside |
| `conversation` | 5 turns, 4 tools, 2 scripts, every billing mode, fair | `SpendingBounded`, `OneStrike`, `AccountKept`, `ConversationEnds` | no overspending; the first failure is the last step; all calls are on record; it ends |
| `sandbox` | 4 names: two ordinary, one a foreign container has, one with a stray export file; fair | `OnlyAttestedRun`, `NothingLost`, `OutcomeTruthful`, `ForeignUntouched`, `RestoredAfterRemoval`, `CallEnds` | the sandbox runs only what it attested, touches only what it owns, loses no workspace, tells the truth, and ends |
| `helpers` | provider helper, git, limiter, qualification; fair | `LimiterSound`, `ChildrenSound`, `PassHappened`, `EvidenceNeverReplaced`, `WaitsEnd` | nothing partial or foreign is accepted, nothing is left running, a pass happened, the waits end |
| `material` | planner and claim (3 tasks), capture (4 files in 2 directories), campaign inputs (4 times), server | `ClaimJustified`, `DeliveredAsFrozen`, `EvidenceSound`, `SourceTogether`, `HandedAsApproved`, `InspectionPredicts`, `AttestationTrue` | what was looked at in pieces, while others edit, is one thing |
| `inventory` | 1 caller, 1 turn | `InventoryExists` (violated) | a sealed inventory can list a file that is gone |
| `late_create` | as `sandbox` without the stray file | `AbsenceVerified` (violated) | verified absence with a container |
| `cancel` | 1 controller, no deaths needed | `CancellationStopsCampaign` (violated) | Ctrl-C is absorbed |

Bounds. `MaxStarts` is the only bound on the behaviours of `restarts` and `live`;
three starts allow a death while one controller races another for the lock, and
two deaths in a row over the same journal. Three slots are the least for "a slot
in the middle": one behind, one running, one ahead. `Threshold = 2` lets the
campaign stop before, at and after a failure. Runs in which a slot may never be
executed again are finite without further bounds. In `foreign` one direct call at a
time races with the controller, of this campaign for the first slot or of another for
the last, and none while the status command runs (`RestingSpec`); what they leave
behind, dead and withdrawn attempts included, is there to be seen, and the controller
does not rest. Two calls that race with each other are the subject of `race`, and the
theorems have none of these bounds. Deadlock is checked where direct callers can
always move; the others really stop once the starts are used up.

For the executor one slot is enough, since nothing but the claim relates slots.
Four turns are the least the preflight accepts for a change task: two for each
conversation. `race` uses a `VIEW`: of a claimed slot that no live call works on
only what callers can see is kept, because no step reads or writes the rest.
In `conversation` each limit lies within what two answers of two tools can reach,
so that every verdict is met, and five turns leave the baseline one that it may
use or leave over.

A sandbox call uses up its name, so the number of names bounds the calls: up to
four in a row, in every order, which lets a command given up by one call be
carried out during a later one. In `helpers` an answer, a blob or a workspace can
be one unit over its limit, two Ctrl-C may arrive, and the processes of the
container are at most four beside PID 1 (a child, its child, and one that is
forked while /proc is read).
In `material` two edits are enough for a file to be changed and changed back
around a read, or for two files to be changed one after the other; the workspace has
files that need not be there in both of its directories; the three
seed lists are a good one, one with a spelling of the same number twice, and a
short one; four times are before, at the two ends of and after a grant.
`HelpersMC` and `MaterialMC` put components into one run that share no state: a
behaviour chooses one of them and leaves the rest untouched.

Fairness. `Continue(p)` is weakly fair: a live Python process is scheduled, and
the executor's calls end because every blocking operation in them has a timeout
(`max_wall_clock_seconds`). `Start` is not: `Termination` does
not need it, and `RunningResolved` has it as its premise (an operator starts the
controller again whenever it is down). `Die`, `CtrlC`, direct callers, the status
command and the window are never fair. `Proceed(r)` of the executor is weakly
fair for the same reason; it contains every failure, so `CallsEnd` does not assume
that any operation succeeds. The sandbox's `Proceed` likewise: each command is given a
timeout and `Raises("error")` stands for its expiry; neither the daemon nor the
model's script is assumed to do anything. `LoopStep` is fair, the provider's
answer in it includes that of the transport's timeout. The supervisors' own
threads are fair, their children are not, with the kernel as the one exception:
a process that has been sent SIGKILL dies.

`WaitsEnd` leaves out two waits that the code does not limit: the one for a
provider helper that a swallowed Ctrl-C saved from being killed, and the closing
of git's standard output while a process that git left behind holds the pipe.
For `RunLimiter` nothing is assumed of the script: its end, or the kill, is the
premise of the wait. An orphan that PID 1 adopts stays in /proc as a zombie for
good, since PID 1 waits for its script only; the model keeps it there, and the
limiter then gives up after its sweeps instead of exporting.

`KeepsPromise` is refinement: `ledger.slots`, the sealed results in `evidence`
and the set of dispatched slots, seen together, behave as `CampaignPromise`.

### The violated runs

`cancel`: `tests/test_nightwatch.py:1015`
(`test_operator_cancellation_is_journaled_and_propagated`) says that a
cancellation is journalled *and leaves the controller*. It uses a stub executor
that raises `KeyboardInterrupt`. The real executor catches `BaseException` in
its guarded region, records category `cancelled` and raises
`RunExecutionError`, which the controller takes for a failed attempt: the
campaign goes on to the next slot.

`inventory`: `_write_canonical` writes `run_log.json.tmp` and renames it. If it
raises in between, the temporary file stays. `_build_retained_inventory` does not
exclude that name, lists it with its digest, and the very next write, that of
the sealed log, replaces and renames it. The attempt is sealed with an inventory
that names a missing file. Everything else the inventory says is right:
`SealedIsComplete`.

`late_create`: `H2B_EXECUTOR.md:314` promises *verified stop/removal on every
success, failure, or timeout*. After a `docker create` that timed out, the
cleanup asks once whether there is a container of that name and takes "no such
container" for verified absence. If the daemon is slow, it comes to exist
afterwards and stays. It never runs (`OnlyAttestedRun`), and a container that did
run is really gone when the cleanup says so (`OutcomeTruthful`).

Smaller differences are not made runs. `H2B_EXECUTOR.md:365` says that failed
provider attempts are *never* `not_incurred`; a process that dies between the
checkpoint after a failed call and the finalization leaves a log whose `usage`
field is still the initial summary of no calls (the call record inside the same
log is right, `AccountKept`, and in sealed logs the statement holds,
`SealedIsComplete`). `H2B_EXECUTOR.md:327` calls the replacement of the workspace
atomic; it is two renames, between which there is no workspace. What holds is
`NothingLost`: the old tree is then in `.workspace-previous-*`. And `execute`,
unlike `probe_policy_readback`, does not remember whether it created the export
file: when the exclusive creation fails because the file exists, its `finally`
block removes that file (names are random, so it takes a leftover of the same
name). What `OutcomeTruthful` says of keeping the file is therefore about the
probe.

## Proofs

The theorems hold for every value of the constants, from the assumptions named
`...Assumption` in the components only. Constants are typed or finite where the
code makes them so: `NamesAssumption` (a container's name is not "no container"),
`CampaignsAssumption` (a campaign's slots are an array), `TimesAssumption` (time is
counted), `PeriodsAssumption` (what is an authorization has a period, and the clock
reads every moment of it), `SeedListsAssumption` (seeds are lists of strings),
`LayoutAssumption` (a workspace has finitely many files, and the first directory
listed is its own).

* `SlotRunProofs`. `OwnerInv`: the owner of a claim is the only one, and the
  slot's evidence is at the stage its program point says. Without the second
  part the first is not inductive (a second `OpenClaim` is excluded because an
  owned slot's evidence is not `none`). Gives `ClaimExclusive` and
  `EvidencePermanent`: sealed evidence is rewritten by its owner only, and after
  `Return` it has none.
* `NightwatchProofs`. `TypeOK`, together with `IdxInv` (a recorded slot event is
  about the slot the loop is at), which is needed for `idx` to stay in range.
  `ControlInv` (see `NightwatchInv`): lock, files and, per
  controller, what its memory has in common with the files at each program
  point. The proof treats the lock holder's steps one by one (`HolderStep`);
  that the other controllers are undisturbed follows once for all from
  `OthersOutside`, since their part of the invariant says nothing outside the
  locked region. Gives `NoRedispatch`, `JournalLoadable`,
  `FlaggedNeverDispatched`, `SerialDispatch`, `NothingRunningAtSelect`.
* `NightwatchResults`. Results in memory, ledger and journal are backed by the
  evidence (`BackedInv`); `Backs` is stable (`BacksKept`): a sealed attempt that its
  owner takes back was proved until then, and where only controllers execute the
  campaign there is none to take back, since a controller has a call under way only
  while it waits for it (`CallingInv`). Gives `ResultsBacked`. On top of it: `BudgetInv`
  (whoever publishes a slot as running or executes one has no slot in manual review
  and fewer than `Threshold` failed ones in memory; that the slots spent before are
  among those is what `BackedInv` and `ControlInv` add) gives `FailureBudget`.
  `PromiseInv` (what the lock holder has in memory may be published over the ledger,
  `AheadOf`; wherever it has published all it knows, `UpToDate`, the two are the
  same) gives `KeepsPromise`, the refinement of `CampaignPromise`, in which a
  result may go back to manual review and from there only to the same result.
  `VerdictInv` (a verdict is true from the moment it is about to be recorded, and
  after it no slot is open again, `CycleInv`, so no later attempt can change what the
  verdict was about) gives `VerdictTruthful`. `StatusInv` is about the command
  that takes no lock: what it read before (`SinceInv`) can only have grown, since
  claims are permanent and the journal is appended to, and the results it brings
  forward are shown by attempts that are or were sealed (`ViewInv`); gives
  `StatusTruthful`. `CallsAsRunner` says
  that controllers are callers of `SlotRun` like any other: the theorems of
  `SlotRunProofs` hold of a campaign. `StepsBounded` gives every controller a number
  of steps left (`StepsLeft`), at most `31 * N + 45`, that each step of its own, a
  Ctrl-C included, makes smaller and only a new start makes larger.
* `H2bExecutorProofs`. `ClaimInv`: whoever is past the exclusive creation is the
  only one there with the slot. Per call, `StepInv` (where it is in its script,
  and its sandbox), `LogInv` (the log in memory: running until the `finally`
  block, settled from there) and `HeldInv` (the files it holds). `WholeInv` is about
  files alone, whoever holds them: a log that says completed is sealed, and a sealed
  one is complete; it survives because every write of a call is one of three
  things (`Becomes`): a log that says neither, the seal itself, or nothing a reader
  can see. Gives `SealedIsComplete`, `SandboxAccounted`, `ArtifactsKept`.
  `SeenInv`, `StrayInv` and `ViewInv` add what rivals can see and give
  `ImplementsSlotRun`, the refinement, one lemma per kind of step. `StepsBounded`: a call
  has at most `5 * Len(Script) + 10 * MaxTurns + 20` steps left; a step of the script
  gives five, a turn ten, and no failure path is longer than what it cuts off.
* `PhaseLoopProofs`. `LoopInv`, one part per thing that is counted: a turn is
  counted before its call is recorded and the call recorded before it is made
  (`TurnsInv`); tools still to be used are charged already (`ToolsInv`, which
  needs that nothing is to do when an answer arrives); a running metered attempt
  was charged exactly what its calls cost (`CostInv`); and as long as it runs the
  disk has all records and all but the current say that they were answered
  (`RecordsInv`). Gives `SpendingBounded`, `OneStrike` and `AccountKept` for all
  limits and all answers, also of a provider that contradicts its price list.
  `StepsBounded`: a round of the loop uses up a turn and the tools of one answer, and
  both phases together have `max_total_turns`.
* `IsolatedDockerProofs`. `DaemonInv` says which commands may be under way: a
  creation only of what never ran and the call does not take for its own
  (`MayCreate`), a start only of what was read back and attested (`MayStart`).
  `IdentityInv` and `ProgressInv` are what the call knows and remembers, `FilesInv`
  the run directory. They hold each other up: the call sends what it may, and
  whatever the daemon does with it later does not falsify what the call knows.
  Gives `OnlyAttestedRun`, `NothingLost`, `OutcomeTruthful`, `ForeignUntouched`,
  `RestoredAfterRemoval`.
* `MaterialProofs`, four arguments about things that are looked at one after the
  other.
  - `AttestationTrue`: each fact learned was so at a moment in the history `was`
    (`Learned`), and histories only grow.
  - `ClaimJustified`, `DeliveredAsFrozen`: a commit never changes, so whatever
    was compared with it stays compared (`BuildInv` for the planner, `GatesInv`
    for the gates, `DeliveryInv` for the staged kit and the texts). That different
    seeds are counted as different is a lemma of its own (`SeedsCounted`).
  - `HandedAsApproved`: what is handed over is `Handing`, a property of the
    campaign and the moment of the turn, which later edits and later times do not touch
    (`HandingKept`); `CampaignInv` relates what was read at the turn to what the
    campaign names.
  - `InspectionPredicts`: while nobody edits, what the inspection has read is what an
    execution will read (`InspectInv`), and the time it takes, the midpoint of the
    period, is a moment of the clock at which everything that is accepted at some
    other moment is accepted too.
  - `EvidenceSound`, `SourceTogether`: an identity determines a content
    (`ReadInv`), so a read that ends with the identity it began with is one content,
    although a file may change and another may take its place meanwhile. `CleanInv`
    says where the credential may still be: in files that the scrub has still
    to look at or is going to remove, and nowhere once it is over, because others
    write none. `AgainInv` names the moment of `SourceTogether`: the one at which
    the second inventory began. Every file that keeps the first inventory's
    identity to the second was, at that moment, what the archive has of it; and the
    first directory is listed then. The layout is any sequence of directories.
* `HelpersProofs`, one argument per component of `HelpersMC`.
  - `LimiterSound`: processes form a forest. `ForestInv` says so without ranks: of any
    processes that are there one has its parent elsewhere; so among all of them one
    is PID 1's own, and `ScanInv` says that the reading of `/proc`, which can miss
    processes that come and go, cannot miss all of those. A reading that finds nobody
    is therefore right, and nobody writes from there on (`SeenInv`).
  - `ChildrenSound`, from `GitCorrect` and `TransportCorrect`. `GitInv`: the lock is
    held from the digest to the spawn, and git has ended and the collecting thread
    stopped before its output is looked at. `TransportInv`: no chunk is lost or made up between the
    processes (`FlowInv`), exit status 0 is that of a helper that had the whole request
    and wrote its whole answer (`HelperInv`), and what the calling thread knows of
    both at each point (`CallerInv`).
  - `PassHappened`: until the verdict, either all was as it should be or something
    can still be blamed: a record (`Failed`), the host, which never returns to what it
    was (`Changed`), or what was reported of the case in hand (`Refuted`). `CasesInv`,
    `SmokeAfterInv` and `PolicyAfterInv` say which blame each look still has to find out.
  - `EvidenceNeverReplaced` needs no invariant: the one step that writes creates.

The theorems on `Nightwatch` are about `SlotRun` as the executor;
`ImplementsSlotRunCorrect` says that the detailed executor is one.

Only model-checked is liveness under fairness, which is out of the prover's reach:
`Termination`, `RunningResolved`, `CallsEnd`, `CallEnds`, `WaitsEnd` and
`ConversationEnds`. Of `Termination`, `CallsEnd` and `ConversationEnds` the theorems
`StepsBounded` prove the part that is about the code: whoever takes steps runs out of
them. That it takes them is what the fairness says, and that it can until it is done
(`ENABLED`) is TLC's to check, on the small instances. The theorem bounds the steps of
one start; a controller may be started again any number of times.

## Plan

1. The rest of the model adapter: the inventory of a model cache that is written
   meanwhile (`local_model_adapter.py` 806-874).
2. Pure algorithms against reference definitions: `eco_invariant`'s matching and
   snapshot evaluation (160-268), the gap and orientation verdicts.

## Not modelled

The provider session above the transport (`OpenAICompatibleSession`: the building
of a request and the parsing of an answer, which `PhaseLoop` has as an input), the
tools' own files (`_write_model_file`, `_read_model_output`: path checks and one
write), the drafting of profiles and the command lines: sequential, without state
between calls. Graders and FEA: real arithmetic on OpenCASCADE geometry. Build and
bundle verification, the run registry's queries, publication scripts and page
builders: sequential validation and pure I/O. Kits, prompts, results and vendored
site code: data.
