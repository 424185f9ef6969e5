------------------------------- MODULE SlotRun -------------------------------
(***************************************************************************)
(* One call of cohort_executor.execute_plan, seen from outside: the        *)
(* permanent claim, the attempt directory and the sealed run log it leaves *)
(* under runs/, and the way the call ends (it returns, raises              *)
(* RunExecutionError, or lets another exception through).  What happens    *)
(* between "the attempt directory exists" and "the journal is being        *)
(* sealed" is one step here; H2bExecutor details it.                       *)
(*                                                                         *)
(* Several runners (Nightwatch controllers, direct command-line calls) may *)
(* call the executor for the same slot at the same time: the only thing    *)
(* between them is the claim file, opened with mode "xb".                  *)
(***************************************************************************)
EXTENDS Integers

CONSTANTS
    Runners,      \* processes that call execute_plan
    Foreign,      \* those that call it with another plan or authorization
    N,            \* number of planned slots
    Attestations, \* values runtime_attestation may have: {FALSE} as shipped
    Endings,      \* results a guarded region may end with
    StrayDirs     \* slots that have an unclaimed directory from the start

ASSUME NAssumption == N \in Nat \ {0}
ASSUME ForeignAssumption == Foreign \subseteq Runners
ASSUME AttestationsAssumption ==
    Attestations \subseteq BOOLEAN /\ Attestations # {}
ASSUME EndingsAssumption ==
    Endings \subseteq {"completed_ungraded", "failed", "partial"}
ASSUME StrayDirsAssumption == StrayDirs \subseteq 1..N

Slots == 1..N

VARIABLES
    evidence,   \* slot -> what runs/ holds for its planned run ID
    call        \* runner -> its execute_plan call

runVars == <<evidence, call>>

Success  == "completed_ungraded"
Failures == {"failed", "partial"}
Results  == Failures \cup {Success}

(***************************************************************************)
(* stray:  a directory <run-id>--* without a claim                         *)
(* open:   the claim file exists, its content is not complete              *)
(* claimed, dir: complete claim; complete claim and attempt directory      *)
(* log:    run_log.json says "sealed", run_log.sha256 is not complete      *)
(* sealed: run_log.sha256 matches a run log whose journal is sealed        *)
(* spoiled: the journal failed closed, or the digest does not match; the   *)
(*     other fields keep what the attempt said if it was seen sealed once  *)
(***************************************************************************)
Stages == {"none", "stray", "open", "claimed", "dir", "log", "sealed", "spoiled"}

Evidence == [stage     : Stages,
             status    : Results \cup {"none"},
             bound     : BOOLEAN,  \* names this campaign's plan, profile, authorization
             attested  : BOOLEAN]  \* carries a passing runtime attestation

Blank(stage) == [stage |-> stage, status |-> "none", bound |-> FALSE,
                 attested |-> FALSE]

Outcomes == {"returned", "run_error", "error", "interrupt"}
Phases   == {"idle", "preflight", "claim", "mkdir", "setup", "work", "seal", "sidecar", "sync"}
                \cup Outcomes

Calls == [phase     : Phases,
          slot      : Slots,
          result    : Results \cup {"none"}]

Idle == [phase |-> "idle", slot |-> 1, result |-> "none"]

RunTypeOK ==
    /\ evidence \in [Slots -> Evidence]
    /\ call \in [Runners -> Calls]

RunInit ==
    /\ evidence = [s \in Slots |-> Blank(IF s \in StrayDirs THEN "stray" ELSE "none")]
    /\ call = [r \in Runners |-> Idle]

-----------------------------------------------------------------------------
Move(r, phase) == call' = [call EXCEPT ![r].phase = phase]

SetStage(s, stage) == evidence' = [evidence EXCEPT ![s].stage = stage]

\* A caller enters execute_plan for slot s.
Invoke(r, s) ==
    /\ call[r].phase = "idle"
    /\ call' = [call EXCEPT ![r] = [phase |-> "preflight", slot |-> s,
                                    result |-> "none"]]
    /\ UNCHANGED evidence

\* Fault: the claim file is opened with "wb" instead of "xb".
OpenClaimOverwriting(r) ==
    /\ call[r].phase = "preflight"
    /\ evidence[call[r].slot].stage \in {"none", "open", "claimed"}
    /\ SetStage(call[r].slot, "open")
    /\ Move(r, "claim")

\* Preflight passed, no directory collides, and the claim file is created
\* exclusively: whoever creates it first owns the slot for good.
OpenClaim(r) ==
    /\ call[r].phase = "preflight"
    /\ evidence[call[r].slot].stage = "none"
    /\ SetStage(call[r].slot, "open")
    /\ Move(r, "claim")

\* The slot's claim or directory already exists.
ClaimRefused(r) ==
    /\ call[r].phase = "preflight"
    /\ evidence[call[r].slot].stage # "none"
    /\ Move(r, "error")
    /\ UNCHANGED evidence

WriteClaim(r) ==
    /\ call[r].phase = "claim"
    /\ SetStage(call[r].slot, "claimed")
    /\ Move(r, "mkdir")

MakeAttemptDir(r) ==
    /\ call[r].phase = "mkdir"
    /\ SetStage(call[r].slot, "dir")
    /\ Move(r, "setup")

\* The first run log is being written: from here on every exception is caught
\* and the attempt is sealed.
OpenRunLog(r) ==
    /\ call[r].phase = "setup"
    /\ Move(r, "work")
    /\ UNCHANGED evidence

\* Fault: a claim whose directory cannot be made is removed again.
EscapesReleasing(r, how) ==
    /\ how \in {"error", "interrupt"}
    /\ call[r].phase \in {"preflight", "claim", "mkdir", "setup"}
    /\ IF call[r].phase = "mkdir" THEN SetStage(call[r].slot, "none") ELSE UNCHANGED evidence
    /\ Move(r, how)

\* An exception that is not a RunExecutionError leaves execute_plan: a
\* preflight rejection, a claim or directory that cannot be written, a
\* failing clock before the guarded region, or Ctrl-C outside of it (the
\* finally block has gaps between its own try statements).
Escapes(r, how) ==
    /\ how \in {"error", "interrupt"}
    /\ \/ call[r].phase \in {"preflight", "claim", "mkdir", "setup"}
       \/ call[r].phase \in {"work", "seal", "returned", "run_error"} /\ how = "interrupt"
    /\ call' = [call EXCEPT ![r].phase = how, ![r].result = "none"]
    /\ UNCHANGED evidence

\* The guarded region ends; the finally block settles the recorded status.
EndWork(r, result) ==
    /\ call[r].phase = "work"
    /\ call' = [call EXCEPT ![r].phase = "seal", ![r].result = result]
    /\ UNCHANGED evidence

\* Ctrl-C inside the guarded region: "except BaseException" records it as
\* the failure category "cancelled" and the attempt is sealed like any other.
AbsorbInterrupt(r, result) ==
    /\ result \in Failures
    /\ EndWork(r, result)

\* run_log.json is replaced by the version that says "sealed".
WriteSealedLog(r) ==
    /\ call[r].phase = "seal"
    /\ SetStage(call[r].slot, "log")
    /\ Move(r, "sidecar")

\* run_log.sha256 is created, written and flushed: from here on every reader finds a sealed
\* attempt, although the call has not returned.
WriteSidecar(r) ==
    /\ call[r].phase = "sidecar"
    /\ \E a \in Attestations :
         evidence' = [evidence EXCEPT ![call[r].slot] =
                        [stage     |-> "sealed",
                         status    |-> call[r].result,
                         bound     |-> r \notin Foreign,
                         attested  |-> a /\ call[r].result = Success]]
    /\ Move(r, "sync")

\* The digest is synchronized and closed, and the call ends as its run log says.
Return(r) ==
    /\ call[r].phase = "sync"
    /\ Move(r, IF call[r].result = Success THEN "returned" ELSE "run_error")
    /\ UNCHANGED evidence

\* Any exception while sealing: the run log is rewritten as failed_closed, with
\* a failure status, or that fails too and the files stay as they are; a
\* sidecar that was already created keeps a digest that does not match.  This
\* may still happen when others can already read the attempt as sealed: the
\* digest's fsync fails, or Ctrl-C comes before the function has returned.
SealFails(r) ==
    /\ call[r].phase \in {"seal", "sidecar", "sync"}
    /\ \/ SetStage(call[r].slot, "spoiled")
       \/ UNCHANGED evidence
    /\ \E result \in Failures :
         call' = [call EXCEPT ![r].phase = "run_error", ![r].result = result]

\* The caller has dealt with the way the call ended.
Collect(r) == call' = [call EXCEPT ![r] = Idle]

CallStep(r) ==
    \/ OpenClaim(r)
    \/ ClaimRefused(r)
    \/ WriteClaim(r)
    \/ MakeAttemptDir(r)
    \/ OpenRunLog(r)
    \/ \E how \in {"error", "interrupt"} : Escapes(r, how)
    \/ \E result \in Endings : EndWork(r, result)
    \/ WriteSealedLog(r)
    \/ WriteSidecar(r)
    \/ Return(r)
    \/ SealFails(r)

-----------------------------------------------------------------------------
(***************************************************************************)
(* Runners left to themselves: command-line calls of the executor, any of  *)
(* which may be killed at any step.                                        *)
(***************************************************************************)
CallEnds(r) ==
    /\ call[r].phase \in Outcomes
    /\ Collect(r)
    /\ UNCHANGED evidence

Killed(r) ==
    /\ call[r].phase # "idle"
    /\ Collect(r)
    /\ UNCHANGED evidence

RunNext ==
    \E r \in Runners :
        \/ \E s \in Slots : Invoke(r, s)
        \/ CallStep(r)
        \/ CallEnds(r)
        \/ Killed(r)

RunSpec == RunInit /\ [][RunNext]_runVars

-----------------------------------------------------------------------------
\* The phases in which a runner owns the claim of its slot.
Owning == {"claim", "mkdir", "setup", "work", "seal", "sidecar", "sync"}

\* Two executors never work on the same slot, however their checks and
\* creations interleave (_allocate_run_dir): the exclusive creation of the
\* claim file is what serialises them.
ClaimExclusive ==
    \A q, r \in Runners :
        /\ call[q].phase \in Owning
        /\ call[r].phase \in Owning
        /\ call[q].slot = call[r].slot
        => q = r

\* A retained attempt is permanent: no step removes a claim or reopens a slot, and an attempt
\* that is spoiled, or was never claimed, is not touched again.  A sealed attempt may still be
\* spoiled, but only by the call that sealed it, and only before that call has returned.
EvidencePermanent ==
    [][\A s \in Slots :
         /\ evidence[s].stage # "none" => evidence'[s].stage # "none"
         /\ evidence[s].stage \in {"stray", "spoiled"} => evidence'[s] = evidence[s]
         /\ evidence[s].stage = "sealed" =>
              \/ evidence'[s] = evidence[s]
              \/ /\ \E r \in Runners : call[r].phase = "sync" /\ call[r].slot = s
                 /\ evidence'[s] = [evidence[s] EXCEPT !.stage = "spoiled"]]_evidence
=============================================================================
