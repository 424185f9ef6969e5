------------------------------ MODULE H2bExecutor ------------------------------
(***************************************************************************)
(* cohort_executor.execute_plan from the inside: every file operation of   *)
(* an attempt in order, each of which may fail, the checkpoints of the run *)
(* log and of the event journal, the conversation with the provider, the   *)
(* finalization and the sealing with its fail-closed fallback.  Processes  *)
(* may be killed at any step.  SlotRun is what callers see of it.          *)
(*                                                                         *)
(* The provider, the sandbox and the clock are inputs: what they answer is *)
(* chosen freely.                                                          *)
(***************************************************************************)
EXTENDS Integers, Sequences

CONSTANTS
    Runners,     \* processes that call execute_plan
    Foreign,     \* those that call it with another plan or authorization
    N,           \* number of planned slots
    StrayDirs,   \* slots that have an unclaimed directory from the start
    ChangeLoop,  \* the task is L2-RESOLVE or L4-ECO
    MaxTurns     \* max_total_turns of the authorization

ASSUME ForeignAssumption == Foreign \subseteq Runners
ASSUME NAssumption == N \in Nat \ {0}
ASSUME StrayDirsAssumption == StrayDirs \subseteq 1..N
ASSUME ChangeLoopAssumption == ChangeLoop \in BOOLEAN
\* Checked by the preflight, together with the turns reserved for the change.
ASSUME MaxTurnsAssumption ==
    MaxTurns \in Nat /\ MaxTurns >= (IF ChangeLoop THEN 4 ELSE 1)

Slots == 1..N

\* What the guarded region does, in order.
Script ==
    IF ChangeLoop
    THEN <<"stage", "connect", "converse", "capture", "capture", "freeze",
           "reveal", "converse", "capture", "capture", "complete">>
    ELSE <<"stage", "connect", "converse", "capture", "capture", "freeze",
           "capture", "capture", "complete">>

Steps    == DOMAIN Script
Required == {i \in Steps : Script[i] = "capture"}

\* Turns kept for the change while the baseline, up to step 6, is made.
Reserved(i) == IF ChangeLoop /\ i < 7 THEN 2 ELSE 0

VARIABLES
    disk,  \* slot -> the files of its claim and attempt
    pc,    \* runner -> where its call is
    slot,  \* runner -> the slot it was called for
    step,  \* runner -> index in Script; 0 during setup
    log,   \* runner -> the run log in memory
    seq,   \* runner -> the last event sequence number it used
    late,  \* runner -> the wall-clock deadline has passed
    box    \* runner -> its sandbox

memory == <<slot, step, log, seq, late, box>>
vars   == <<disk, pc, memory>>

-----------------------------------------------------------------------------
Success  == "completed_ungraded"
Failures == {"failed", "partial"}
Results  == Failures \cup {Success}

\* "raised" stands for the categories of _safe_failure_category but "budget".
Categories == {"none", "raised", "budget", "artifact", "sandbox_close", "journal"}
FailClosedStates == {"failed_closed", "failed_closed_deadline"}
Answers  == {"attempted_not_reported", "response_rejected", "over_budget", "received"}

Logs == [status    : {"absent", "garbled", "running"} \cup Results,
         bound     : BOOLEAN,   \* names this campaign's plan and authorization
         failure   : Categories,
         artifacts : SUBSET Steps,
         calls     : Seq(Answers \cup {"attempted"}),
         usage     : {"not_incurred", "attempted_not_reported", "reported", "unknown"},
         guard     : {"pending", "not_started", "passed", "not_passed"},
         journal   : {"none", "sealed"} \cup FailClosedStates,
         final     : Nat]

NoLog == [status |-> "absent", bound |-> FALSE, failure |-> "none", artifacts |-> {},
          calls |-> <<>>, usage |-> "not_incurred", guard |-> "pending",
          journal |-> "none", final |-> 0]
Garbled == [NoLog EXCEPT !.status = "garbled"]
Running(r) == [NoLog EXCEPT !.status = "running", !.bound = r \notin Foreign]

\* events holds sequence numbers, 0 for a line that is not a valid event.
Disk == [claim     : {"none", "open", "written"},
         dir       : BOOLEAN,
         log       : Logs,
         events    : Seq(Nat),
         torn      : BOOLEAN,        \* the journal ends in half a line
         files     : SUBSET Steps,   \* captured artifacts
         tmp       : BOOLEAN,        \* a run_log.json.tmp was left behind
         inventory : [made : BOOLEAN, files : SUBSET Steps, tmp : BOOLEAN,
                      events : Seq(Nat)],
         digest    : Logs]           \* the log run_log.sha256 was computed from

NoFiles(s) ==
    [claim |-> "none", dir |-> s \in StrayDirs, log |-> NoLog, events |-> <<>>,
     torn |-> FALSE, files |-> {}, tmp |-> FALSE, digest |-> NoLog,
     inventory |-> [made |-> FALSE, files |-> {}, tmp |-> FALSE, events |-> <<>>]]

Outcomes   == {"returned", "run_error", "error", "interrupt"}
Allocating == {"preflight", "allocate", "claim", "mkdir", "clock"}
Setup      == {"first", "created", "setup"}
Guarded    == {"work", "save", "append", "answer", "raise"}
Finalizing == {"scrub", "close", "tally"}
Sealing    == {"finalize", "inventory", "seal", "digest", "sync"}

Pcs == {"idle", "fail_digest"} \cup Allocating \cup Setup \cup Guarded
         \cup Finalizing \cup Sealing \cup FailClosedStates \cup Outcomes

TypeOK ==
    /\ disk \in [Slots -> Disk]
    /\ pc \in [Runners -> Pcs]
    /\ slot \in [Runners -> Slots]
    /\ step \in [Runners -> Steps \cup {0}]
    /\ log \in [Runners -> Logs]
    /\ seq \in [Runners -> Nat]
    /\ late \in [Runners -> BOOLEAN]
    /\ box \in [Runners -> {"none", "made", "closed", "leaked"}]

Init ==
    /\ disk = [s \in Slots |-> NoFiles(s)]
    /\ pc = [r \in Runners |-> "idle"]
    /\ slot = [r \in Runners |-> 1]
    /\ step = [r \in Runners |-> 0]
    /\ log = [r \in Runners |-> NoLog]
    /\ seq = [r \in Runners |-> 0]
    /\ late = [r \in Runners |-> FALSE]
    /\ box = [r \in Runners |-> "none"]

-----------------------------------------------------------------------------
Goto(r, label) == pc' = [pc EXCEPT ![r] = label]

Mine(r) == disk[slot[r]]

SetDisk(r, files) == disk' = [disk EXCEPT ![slot[r]] = files]

SetLog(r, l) == log' = [log EXCEPT ![r] = l]

At(r, kind) == pc[r] = "work" /\ step[r] > 0 /\ Script[step[r]] = kind

\* The files after one more line of the journal; half a line spoils the next.
Appended(files, n) ==
    [files EXCEPT !.events = Append(@, IF files.torn THEN 0 ELSE n), !.torn = FALSE]

\* What may be left of an append that raised.
AppendAttempts(files, n) ==
    {files, [files EXCEPT !.torn = TRUE], Appended(files, n)}

\* The files after run_log.json was replaced (_write_canonical): the new text is
\* written to run_log.json.tmp, which is then renamed.
Replaced(files, l) == [files EXCEPT !.log = l, !.tmp = FALSE]

\* What may be left of a replacement that raised.
ReplaceAttempts(files, l) ==
    {files, [files EXCEPT !.tmp = TRUE], Replaced(files, l)}

\* _usage_summary; "reported" also stands for usage the provider left out.
UsageSummary(calls) ==
    IF calls = <<>> THEN "not_incurred"
    ELSE IF \E i \in DOMAIN calls :
              calls[i] \in {"attempted_not_reported", "response_rejected"}
         THEN "attempted_not_reported"
         ELSE "reported"

Failed(l, category) ==
    [l EXCEPT !.status = IF l.artifacts = {} THEN "failed" ELSE "partial",
              !.failure = category]

\* Fault: the category is recorded, the status is left as it was.
MarkedOnly(l, category) == IF l.failure = "none" THEN [l EXCEPT !.failure = category] ELSE l

\* mark_finalization_failure: the first failure stays.
Marked(l, category) == IF l.failure = "none" THEN Failed(l, category) ELSE l

-----------------------------------------------------------------------------
(* Claim and attempt directory. *)

Invoke(r, s) ==
    /\ pc[r] = "idle"
    /\ slot' = [slot EXCEPT ![r] = s]
    /\ Goto(r, "preflight")
    /\ UNCHANGED <<disk, step, log, seq, late, box>>

\* No directory of the slot exists (_assert_no_local_slot_collision).
CheckCollision(r) ==
    /\ pc[r] = "preflight"
    /\ ~Mine(r).dir
    /\ Goto(r, "allocate")
    /\ UNCHANGED <<disk, memory>>

\* Fault: the claim file is opened with "wb" instead of "xb".
OpenClaimOverwriting(r) ==
    /\ pc[r] = "allocate"
    /\ SetDisk(r, [Mine(r) EXCEPT !.claim = "open"])
    /\ Goto(r, "claim")
    /\ UNCHANGED memory

OpenClaim(r) ==
    /\ pc[r] = "allocate"
    /\ Mine(r).claim = "none"
    /\ SetDisk(r, [Mine(r) EXCEPT !.claim = "open"])
    /\ Goto(r, "claim")
    /\ UNCHANGED memory

ClaimRefused(r) ==
    /\ \/ pc[r] = "preflight" /\ Mine(r).dir
       \/ pc[r] = "allocate" /\ Mine(r).claim # "none"
    /\ Goto(r, "error")
    /\ UNCHANGED <<disk, memory>>

WriteClaim(r) ==
    /\ pc[r] = "claim"
    /\ SetDisk(r, [Mine(r) EXCEPT !.claim = "written"])
    /\ Goto(r, "mkdir")
    /\ UNCHANGED memory

MakeAttemptDir(r) ==
    /\ pc[r] = "mkdir"
    /\ SetDisk(r, [Mine(r) EXCEPT !.dir = TRUE])
    /\ Goto(r, "clock")
    /\ UNCHANGED memory

\* The clocks are read, the minimal run log is composed; nothing is guarded yet.
StartAttempt(r) ==
    /\ pc[r] = "clock"
    /\ SetLog(r, Running(r))
    /\ seq' = [seq EXCEPT ![r] = 1]
    /\ Goto(r, "first")
    /\ UNCHANGED <<disk, slot, step, late, box>>

\* An exception or Ctrl-C that nothing catches: before the guarded region, in
\* a gap between the try statements of the finally block, or after it.
Escapes(r, how) ==
    /\ \/ pc[r] \in Allocating /\ how \in {"error", "interrupt"}
       \/ /\ pc[r] \in Finalizing \cup {"setup", "finalize", "returned", "run_error"}
          /\ how = "interrupt"
    /\ Goto(r, how)
    /\ UNCHANGED <<disk, memory>>

-----------------------------------------------------------------------------
(* Setup: the first run log, the first event, the full run log. *)

WriteFirstLog(r) ==
    /\ pc[r] = "first"
    /\ SetDisk(r, [Mine(r) EXCEPT !.log = log[r]])
    /\ Goto(r, "created")
    /\ UNCHANGED memory

AppendCreated(r) ==
    /\ pc[r] = "created"
    /\ SetDisk(r, Appended(Mine(r), seq[r]))
    /\ Goto(r, "setup")
    /\ UNCHANGED memory

\* Outputs bound, directories made, the full run log written.
FinishSetup(r) ==
    /\ pc[r] = "setup"
    /\ SetDisk(r, Replaced(Mine(r), log[r]))
    /\ step' = [step EXCEPT ![r] = 1]
    /\ Goto(r, "work")
    /\ UNCHANGED <<slot, log, seq, late, box>>

\* fail_setup: the minimal log is sealed, without a deadline.
SetupFails(r) ==
    /\ pc[r] \in Setup
    /\ \E files \in CASE pc[r] = "first"   -> {Mine(r), [Mine(r) EXCEPT !.log = Garbled],
                                                [Mine(r) EXCEPT !.log = log[r]]}
                      [] pc[r] = "created" -> AppendAttempts(Mine(r), seq[r])
                      [] pc[r] = "setup"   -> ReplaceAttempts(Mine(r), log[r]) :
         SetDisk(r, files)
    /\ SetLog(r, [Failed(log[r], "raised") EXCEPT !.guard = "not_started"])
    /\ Goto(r, "finalize")
    /\ UNCHANGED <<slot, step, seq, late, box>>

-----------------------------------------------------------------------------
(* The guarded region.  checkpoint() is Save followed by AppendEvent. *)

\* Time passes; only the places that look at the clock can tell.
Expire(r) ==
    /\ pc[r] \in {"work", "answer", "inventory"}
    /\ ~late[r]
    /\ late' = [late EXCEPT ![r] = TRUE]
    /\ UNCHANGED <<disk, pc, slot, step, log, seq, box>>

Stage(r) ==
    /\ At(r, "stage")
    /\ ~late[r]
    /\ Goto(r, "append")
    /\ UNCHANGED <<disk, memory>>

\* Inputs staged, sandbox started and attested, provider session opened.
Connect(r) ==
    /\ At(r, "connect")
    /\ ~late[r]
    /\ box' = [box EXCEPT ![r] = "made"]
    /\ Goto(r, "append")
    /\ UNCHANGED <<disk, slot, step, log, seq, late>>

\* A turn of _phase_loop: the attempt is recorded before the provider is called.
Ask(r) ==
    /\ At(r, "converse")
    /\ ~late[r]
    /\ Len(log[r].calls) < MaxTurns - Reserved(step[r])
    /\ SetLog(r, [log[r] EXCEPT !.calls = Append(@, "attempted")])
    /\ Goto(r, "save")
    /\ UNCHANGED <<disk, slot, step, seq, late, box>>

\* A late response is kept and counted, and refused.
Answer(r, answer) ==
    /\ pc[r] = "answer"
    /\ late[r] => answer # "received"
    /\ SetLog(r, [log[r] EXCEPT !.calls[Len(log[r].calls)] = answer])
    /\ Goto(r, "save")
    /\ UNCHANGED <<disk, slot, step, seq, late, box>>

\* Copied to evidence/ first, recorded in the log in memory second.
Capture(r) ==
    /\ At(r, "capture")
    /\ ~late[r]
    /\ SetDisk(r, [Mine(r) EXCEPT !.files = @ \cup {step[r]}])
    /\ SetLog(r, [log[r] EXCEPT !.artifacts = @ \cup {step[r]}])
    /\ Goto(r, "save")
    /\ UNCHANGED <<slot, step, seq, late, box>>

\* The baseline is frozen; no deadline check.
Freeze(r) ==
    /\ At(r, "freeze")
    /\ SetLog(r, [log[r] EXCEPT !.usage = UsageSummary(log[r].calls)])
    /\ Goto(r, "save")
    /\ UNCHANGED <<disk, slot, step, seq, late, box>>

Reveal(r) ==
    /\ At(r, "reveal")
    /\ ~late[r]
    /\ Goto(r, "append")
    /\ UNCHANGED <<disk, memory>>

\* run_log.json is replaced by the log in memory.
Save(r) ==
    /\ pc[r] = "save"
    /\ SetDisk(r, Replaced(Mine(r), log[r]))
    /\ Goto(r, "append")
    /\ UNCHANGED memory

\* Where the conversation goes once the event about its last call is written.
AfterEvent(r) ==
    LET calls == log[r].calls
        last  == IF calls = <<>> THEN "attempted" ELSE calls[Len(calls)]
        next  == pc' = [pc EXCEPT ![r] = "work"] /\ step' = [step EXCEPT ![r] = @ + 1]
        stay(label) == Goto(r, label) /\ UNCHANGED step
    IN  IF Script[step[r]] # "converse" THEN next
        ELSE CASE last = "attempted" -> stay("answer")
               [] last = "received"  ->
                    \/ next
                    \/ Len(calls) < MaxTurns - Reserved(step[r]) /\ stay("work")
               [] OTHER              -> stay("raise")

\* Fault: checkpoint lacks "nonlocal sequence".
AppendEventReusing(r) ==
    /\ pc[r] = "append"
    /\ SetDisk(r, Appended(Mine(r), seq[r] + 1))
    /\ AfterEvent(r)
    /\ UNCHANGED <<slot, log, seq, late, box>>

\* The sequence number is used up before the event is written.
AppendEvent(r) ==
    /\ pc[r] = "append"
    /\ seq' = [seq EXCEPT ![r] = @ + 1]
    /\ SetDisk(r, Appended(Mine(r), seq[r] + 1))
    /\ AfterEvent(r)
    /\ UNCHANGED <<slot, log, late, box>>

\* Every artifact is there and there is time left.
Complete(r) ==
    /\ At(r, "complete")
    /\ ~late[r]
    /\ log[r].artifacts = Required
    /\ SetLog(r, [log[r] EXCEPT !.status = Success])
    /\ Goto(r, "scrub")
    /\ UNCHANGED <<disk, slot, step, seq, late, box>>

\* What a step that raises may have done before it did.
Debris(r) ==
    CASE pc[r] = "save"   -> ReplaceAttempts(Mine(r), log[r])
      [] pc[r] = "append" -> AppendAttempts(Mine(r), seq[r] + 1)
      [] At(r, "capture") -> {Mine(r), [Mine(r) EXCEPT !.files = @ \cup {step[r]}]}
      [] OTHER            -> {Mine(r)}

\* "except BaseException": the failure is recorded, Ctrl-C included.
WorkFails(r, category) ==
    /\ pc[r] \in Guarded
    /\ category = "budget" => pc[r] \in {"work", "raise"}
    /\ \E files \in Debris(r) : SetDisk(r, files)
    /\ SetLog(r, Failed(log[r], category))
    /\ seq' = [seq EXCEPT ![r] = IF pc[r] = "append" THEN @ + 1 ELSE @]
    /\ \E b \in IF At(r, "connect") THEN {"none", "made"} ELSE {box[r]} :
         box' = [box EXCEPT ![r] = b]
    /\ Goto(r, "scrub")
    /\ UNCHANGED <<slot, step, late>>

-----------------------------------------------------------------------------
(* The finally block. *)

Scrub(r) ==
    /\ pc[r] = "scrub"
    /\ \/ SetLog(r, [log[r] EXCEPT !.guard = "passed"])
       \/ SetLog(r, [Marked(log[r], "artifact") EXCEPT !.guard = "not_passed"])
    /\ Goto(r, "close")
    /\ UNCHANGED <<disk, slot, step, seq, late, box>>

\* Fault: a sandbox that cannot be closed is ignored.
CloseSandboxSilent(r) ==
    /\ pc[r] = "close"
    /\ \E b \in IF box[r] = "made" THEN {"closed", "leaked"} ELSE {box[r]} :
         box' = [box EXCEPT ![r] = b]
    /\ Goto(r, "tally")
    /\ UNCHANGED <<disk, slot, step, log, seq, late>>

CloseSandbox(r) ==
    /\ pc[r] = "close"
    /\ \/ /\ box' = [box EXCEPT ![r] = IF @ = "made" THEN "closed" ELSE @]
          /\ UNCHANGED log
       \/ /\ box[r] = "made"
          /\ box' = [box EXCEPT ![r] = "leaked"]
          /\ SetLog(r, Marked(log[r], "sandbox_close"))
    /\ Goto(r, "tally")
    /\ UNCHANGED <<disk, slot, step, seq, late>>

\* Fault: the usage is left as the baseline freeze computed it.
TallyKeeping(r) ==
    /\ pc[r] = "tally"
    /\ Goto(r, "finalize")
    /\ UNCHANGED <<disk, memory>>

\* Times, transcript digest and usage; each part that fails is recorded.
Tally(r) ==
    /\ pc[r] = "tally"
    /\ \E usage \in {UsageSummary(log[r].calls), "unknown"}, clockFails \in BOOLEAN :
         LET l == [log[r] EXCEPT !.usage = usage]
         IN  SetLog(r, IF usage = "unknown" \/ clockFails THEN Marked(l, "journal") ELSE l)
    /\ Goto(r, "finalize")
    /\ UNCHANGED <<disk, slot, step, seq, late, box>>

-----------------------------------------------------------------------------
(* _seal_run_journal *)

AppendFinal(r) ==
    /\ pc[r] = "finalize"
    /\ seq' = [seq EXCEPT ![r] = @ + 1]
    /\ SetDisk(r, Appended(Mine(r), seq[r] + 1))
    /\ Goto(r, "inventory")
    /\ UNCHANGED <<slot, step, log, late, box>>

\* _build_retained_inventory leaves out the run log, its digest and itself, and
\* nothing else.
Inventoried(files) ==
    [files EXCEPT !.inventory = [made |-> TRUE, files |-> files.files,
                                 tmp |-> files.tmp, events |-> files.events]]

\* Only an attempt that got past its setup has a deadline here.
Inventory(r) ==
    /\ pc[r] = "inventory"
    /\ step[r] > 0 => ~late[r]
    /\ SetDisk(r, Inventoried(Mine(r)))
    /\ Goto(r, "seal")
    /\ UNCHANGED memory

Sealed(r) == [log[r] EXCEPT !.journal = "sealed", !.final = seq[r]]

WriteSealedLog(r) ==
    /\ pc[r] = "seal"
    /\ SetLog(r, Sealed(r))
    /\ SetDisk(r, Replaced(Mine(r), Sealed(r)))
    /\ Goto(r, "digest")
    /\ UNCHANGED <<slot, step, seq, late, box>>

\* Written and flushed: whoever looks now finds a sealed attempt.
WriteDigest(r) ==
    /\ pc[r] = "digest"
    /\ SetDisk(r, [Mine(r) EXCEPT !.digest = Mine(r).log])
    /\ Goto(r, "sync")
    /\ UNCHANGED memory

\* The digest is synchronized and closed, _seal_run_journal and execute_plan end.
Return(r) ==
    /\ pc[r] = "sync"
    /\ Goto(r, IF log[r].status = Success THEN "returned" ELSE "run_error")
    /\ UNCHANGED <<disk, memory>>

\* What the step of sealing that raised may have done.  The log in memory is
\* overwritten by FailClosed whatever became of it.
SealDebris(r) ==
    CASE pc[r] = "finalize"  -> AppendAttempts(Mine(r), seq[r] + 1)
      [] pc[r] = "inventory" -> {Mine(r), Inventoried(Mine(r))}
      [] pc[r] = "seal"      -> ReplaceAttempts(Mine(r), Sealed(r))
      [] pc[r] = "digest"    -> {Mine(r), [Mine(r) EXCEPT !.digest = Garbled]}
      [] pc[r] = "sync"      -> {Mine(r)}

SealFails(r) ==
    /\ pc[r] \in Sealing
    /\ \E files \in SealDebris(r) : SetDisk(r, files)
    /\ seq' = [seq EXCEPT ![r] = IF pc[r] = "finalize" THEN @ + 1 ELSE @]
    /\ \/ Goto(r, "failed_closed")
       \/ /\ pc[r] = "inventory"
          /\ step[r] > 0
          /\ late[r]
          /\ Goto(r, "failed_closed_deadline")
    /\ UNCHANGED <<slot, step, log, late, box>>

\* Fault: the status is not taken back.
ClosedLogKeeping(r) ==
    [log[r] EXCEPT !.journal = pc[r], !.final = seq[r]]

\* Fault: the fallback starts from a minimal log.
ClosedLogMinimal(r) ==
    [Failed(Running(r), "journal") EXCEPT !.journal = pc[r], !.final = seq[r]]

ClosedLog(r) ==
    [Failed(log[r], IF pc[r] = "failed_closed" THEN "journal" ELSE "budget")
        EXCEPT !.journal = pc[r], !.final = seq[r]]

\* Fault: when the fallback fails, sealing is tried once more.
FailClosedRetrying(r) ==
    /\ pc[r] \in FailClosedStates
    /\ \/ /\ SetLog(r, ClosedLog(r))
          /\ SetDisk(r, Replaced(Mine(r), ClosedLog(r)))
          /\ Goto(r, "fail_digest")
       \/ /\ UNCHANGED <<disk, log>>
          /\ Goto(r, "inventory")
    /\ UNCHANGED <<slot, step, seq, late, box>>

\* The fallback: a log that says it is not sealed; if that fails too, nothing
\* more is done.
FailClosed(r) ==
    /\ pc[r] \in FailClosedStates
    /\ SetLog(r, ClosedLog(r))
    /\ \/ /\ SetDisk(r, Replaced(Mine(r), ClosedLog(r)))
          /\ \/ Goto(r, "fail_digest")
             \/ Goto(r, "run_error")
       \/ /\ \E tmp \in {TRUE, Mine(r).tmp} : SetDisk(r, [Mine(r) EXCEPT !.tmp = tmp])
          /\ Goto(r, "run_error")
    /\ UNCHANGED <<slot, step, seq, late, box>>

\* A digest file that exists already is left as it is.
FailDigest(r) ==
    /\ pc[r] = "fail_digest"
    /\ \E digest \in IF Mine(r).digest = NoLog THEN {NoLog, Garbled, Mine(r).log}
                     ELSE {Mine(r).digest} :
         SetDisk(r, [Mine(r) EXCEPT !.digest = digest])
    /\ Goto(r, "run_error")
    /\ UNCHANGED memory

-----------------------------------------------------------------------------
(* The end of the call, and of the process. *)

Forget(r) ==
    /\ Goto(r, "idle")
    /\ slot' = [slot EXCEPT ![r] = 1]
    /\ step' = [step EXCEPT ![r] = 0]
    /\ log' = [log EXCEPT ![r] = NoLog]
    /\ seq' = [seq EXCEPT ![r] = 0]
    /\ late' = [late EXCEPT ![r] = FALSE]
    /\ box' = [box EXCEPT ![r] = "none"]

CallEnds(r) ==
    /\ pc[r] \in Outcomes
    /\ Forget(r)
    /\ UNCHANGED disk

\* What a kill in the middle of a write leaves.
Remains(r) ==
    CASE pc[r] = "first" -> {Mine(r), [Mine(r) EXCEPT !.log = Garbled]}
      [] pc[r] \in {"created", "append", "finalize"} ->
           {Mine(r), [Mine(r) EXCEPT !.torn = TRUE]}
      [] pc[r] \in {"setup", "save", "seal"} \cup FailClosedStates ->
           {Mine(r), [Mine(r) EXCEPT !.tmp = TRUE]}
      [] pc[r] = "digest" -> {Mine(r), [Mine(r) EXCEPT !.digest = Garbled]}
      [] OTHER -> {Mine(r)}

Killed(r) ==
    /\ pc[r] # "idle"
    /\ \E files \in Remains(r) : SetDisk(r, files)
    /\ Forget(r)

\* Everything a call does by itself.
Proceed(r) ==
    \/ CheckCollision(r)
    \/ OpenClaim(r)
    \/ ClaimRefused(r)
    \/ WriteClaim(r)
    \/ MakeAttemptDir(r)
    \/ StartAttempt(r)
    \/ WriteFirstLog(r)
    \/ AppendCreated(r)
    \/ FinishSetup(r)
    \/ SetupFails(r)
    \/ Stage(r)
    \/ Connect(r)
    \/ Ask(r)
    \/ \E answer \in Answers : Answer(r, answer)
    \/ Capture(r)
    \/ Freeze(r)
    \/ Reveal(r)
    \/ Save(r)
    \/ AppendEvent(r)
    \/ Complete(r)
    \/ \E category \in {"raised", "budget"} : WorkFails(r, category)
    \/ Scrub(r)
    \/ CloseSandbox(r)
    \/ Tally(r)
    \/ AppendFinal(r)
    \/ Inventory(r)
    \/ WriteSealedLog(r)
    \/ WriteDigest(r)
    \/ Return(r)
    \/ SealFails(r)
    \/ FailClosed(r)
    \/ FailDigest(r)
    \/ CallEnds(r)

Next ==
    \E r \in Runners :
        \/ \E s \in Slots : Invoke(r, s)
        \/ Proceed(r)
        \/ Expire(r)
        \/ \E how \in {"error", "interrupt"} : Escapes(r, how)
        \/ Killed(r)

Spec == Init /\ [][Next]_vars

\* Every blocking operation of a live call has a timeout.
FairSpec == Spec /\ \A r \in Runners : WF_vars(Proceed(r))

-----------------------------------------------------------------------------
(* Properties *)

\* The attempt of slot s is evidence: the digest matches a log that says sealed.
SealedEvidence(s) ==
    /\ disk[s].digest = disk[s].log
    /\ disk[s].log.journal = "sealed"

\* The numbers of the valid events rise.
Rising(events) ==
    \A i, j \in DOMAIN events :
        i < j /\ events[i] > 0 /\ events[j] > 0 => events[i] < events[j]

\* A sealed attempt is the whole story (_seal_run_journal): the inventory lists
\* exactly the artifacts that are there and the journal as it is, every artifact
\* the log names is retained, a completed one lacks nothing and failed at nothing,
\* finalization included, its usage is the summary of exactly the calls it lists or
\* given as unknown, and its events are numbered in rising order whatever appends
\* failed in between.  And no log that is not sealed says completed.
SealedIsComplete ==
    \A s \in Slots :
        LET d == disk[s]
        IN  /\ d.log.status = Success => d.log.journal = "sealed"
            /\ SealedEvidence(s) =>
                 /\ d.inventory.made
                 /\ d.inventory.files = d.files
                 /\ d.inventory.events = d.events
                 /\ d.log.artifacts \subseteq d.files
                 /\ d.log.status \in Results
                 /\ d.log.status = Success <=> d.log.failure = "none"
                 /\ d.log.status = Success =>
                      d.log.artifacts = Required /\ d.log.guard = "passed"
                 /\ d.log.usage \in {UsageSummary(d.log.calls), "unknown"}
                 /\ Rising(d.events)

\* "Seal final events and retained inventory before the run-log digest": every
\* file the inventory of a sealed attempt lists is there, a run_log.json.tmp too.
InventoryExists ==
    \A s \in Slots :
        SealedEvidence(s) /\ disk[s].inventory.tmp => disk[s].tmp

\* A call that returns has closed its sandbox, and one that could not close it
\* is never recorded as completed.
SandboxAccounted ==
    \A r \in Runners :
        /\ pc[r] \in {"returned", "run_error"} => box[r] # "made"
        /\ box[r] = "leaked" /\ pc[r] \in Sealing => log[r].status # Success
        /\ pc[r] = "returned" => box[r] = "closed" /\ SealedEvidence(slot[r])

\* What was captured stays captured: no later checkpoint, failure or fallback
\* drops an artifact from the log on disk.
ArtifactsKept ==
    [][\A s \in Slots :
         disk[s].log.artifacts \subseteq disk'[s].log.artifacts]_disk

\* Every call comes to an end.
CallsEnd == \A r \in Runners : pc[r] # "idle" ~> pc[r] = "idle"

-----------------------------------------------------------------------------
(* The refinement of SlotRun. *)

StageOnDisk(d) ==
    IF d.claim = "none" THEN IF d.dir THEN "stray" ELSE "none"
    ELSE IF d.claim = "open" THEN "open"
    ELSE IF ~d.dir THEN "claimed"
    ELSE IF d.log.journal \in FailClosedStates THEN "spoiled"
    ELSE IF d.log.journal = "none" THEN "dir"
    ELSE IF d.digest = d.log THEN "sealed"
    ELSE "log"

\* A digest of a sealed log outlives the rewriting of that log.
EvidenceOnDisk(d) ==
    LET stage == StageOnDisk(d)
        seen  == stage \in {"sealed", "spoiled"} /\ d.digest.journal = "sealed"
    IN  [stage    |-> stage,
         status   |-> IF seen THEN d.digest.status ELSE "none",
         bound    |-> seen /\ d.digest.bound,
         attested |-> FALSE]   \* runtime_attestation is always None

PhaseOf(r) ==
    CASE pc[r] \in {"preflight", "allocate"}             -> "preflight"
      [] pc[r] = "clock"                                 -> "setup"
      [] pc[r] \in Setup \cup Guarded \cup Finalizing     -> "work"
      [] pc[r] \in Sealing \ {"digest", "sync"}          -> "seal"
      [] pc[r] = "digest"                                -> "sidecar"
      [] pc[r] \in FailClosedStates                      ->
           IF Mine(r).log.journal # "sealed" THEN "seal"
           ELSE IF Mine(r).digest = Mine(r).log THEN "sync" ELSE "sidecar"
      [] pc[r] = "fail_digest"                           -> "run_error"
      [] OTHER                                           -> pc[r]

\* The recorded status counts once the finally block has settled it.
ResultOf(r) ==
    IF pc[r] \in Sealing \cup FailClosedStates \cup {"fail_digest", "returned", "run_error"}
    THEN log[r].status ELSE "none"

Outside == INSTANCE SlotRun WITH
    Attestations <- {FALSE},
    Endings      <- Results,
    evidence     <- [s \in Slots |-> EvidenceOnDisk(disk[s])],
    call         <- [r \in Runners |-> [phase |-> PhaseOf(r), slot |-> slot[r],
                                        result |-> ResultOf(r)]]

\* Seen from outside, the executor does what SlotRun says: whatever fails
\* inside an attempt, callers and rivals see one of SlotRun's steps or nothing.
ImplementsSlotRun == Outside!RunSpec
=============================================================================
