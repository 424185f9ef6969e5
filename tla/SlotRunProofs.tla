---------------------------- MODULE SlotRunProofs ----------------------------
(***************************************************************************)
(* Theorems about SlotRun for any number of runners and slots.  The step   *)
(* lemmas speak of one runner's step, so that they also serve where that   *)
(* runner is a Nightwatch controller.                                      *)
(***************************************************************************)
EXTENDS SlotRun, TLAPS

USE NAssumption, StrayDirsAssumption

\* What a runner that owns the claim of its slot knows about the slot's evidence.
StageOf(phase) ==
    CASE phase = "claim" -> "open"
      [] phase = "mkdir" -> "claimed"
      [] phase \in {"setup", "work", "seal"} -> "dir"
      [] phase = "sidecar" -> "log"
      [] phase = "sync" -> "sealed"

\* The owner of a claim is the only one, no one else changes its evidence, and what it has
\* sealed names its own campaign.
OwnerInv ==
    /\ ClaimExclusive
    /\ \A r \in Runners :
         /\ call[r].phase \in Owning
              => evidence[call[r].slot].stage = StageOf(call[r].phase)
         /\ call[r].phase = "sync"
              => (evidence[call[r].slot].bound <=> r \notin Foreign)

\* One step of one runner.
RunnerStep(r) ==
    \/ \E s \in Slots : Invoke(r, s)
    \/ CallStep(r)
    \/ Collect(r) /\ UNCHANGED evidence

-----------------------------------------------------------------------------
(* The parts of CallStep, by what they do to the evidence. *)

LEMMA RunTypes ==
    ASSUME RunTypeOK, NEW r \in Runners, RunnerStep(r)
    PROVE  RunTypeOK'
<1>0. ASSUME NEW stage \in Stages, SetStage(call[r].slot, stage)
      PROVE  evidence' \in [Slots -> Evidence]
  BY <1>0 DEF RunTypeOK, Calls, Evidence, SetStage
<1>m. ASSUME NEW phase \in Phases, Move(r, phase)
      PROVE  call' \in [Runners -> Calls]
  BY <1>m DEF RunTypeOK, Calls, Move
<1> USE DEF RunTypeOK, Phases, Outcomes, Stages
<1>1. CASE \E s \in Slots : Invoke(r, s)
  BY <1>1 DEF Invoke, Calls
<1>2. CASE Collect(r) /\ UNCHANGED evidence
  BY <1>2 DEF Collect, Idle, Calls, Slots
<1>3. CASE OpenClaim(r)
  BY <1>0, <1>m, <1>3 DEF OpenClaim
<1>7. CASE ClaimRefused(r)
  BY <1>m, <1>7 DEF ClaimRefused
<1>8. CASE OpenRunLog(r)
  BY <1>m, <1>8 DEF OpenRunLog
<1>9. CASE WriteClaim(r)
  BY <1>0, <1>m, <1>9 DEF WriteClaim
<1>10. CASE MakeAttemptDir(r)
  BY <1>0, <1>m, <1>10 DEF MakeAttemptDir
<1>11. CASE WriteSealedLog(r)
  BY <1>0, <1>m, <1>11 DEF WriteSealedLog
<1>13. CASE Return(r)
  BY <1>m, <1>13 DEF Return
<1>12. CASE SealFails(r)
  <2>1. evidence' \in [Slots -> Evidence]
    BY <1>0, <1>12 DEF SealFails
  <2>2. PICK result \in Failures :
          call' = [call EXCEPT ![r].phase = "run_error", ![r].result = result]
    BY <1>12 DEF SealFails
  <2>3. call' \in [Runners -> Calls]
    BY <2>2 DEF Results, Calls
  <2> QED BY <2>1, <2>3
<1>4. CASE \E how \in {"error", "interrupt"} : Escapes(r, how)
  <2>1. PICK how \in {"error", "interrupt"} :
          /\ call' = [call EXCEPT ![r].phase = how, ![r].result = "none"]
          /\ UNCHANGED evidence
    BY <1>4 DEF Escapes
  <2>2. how \in Phases /\ "none" \in Results \cup {"none"}
    OBVIOUS
  <2> QED BY ZenonT(60), <2>1, <2>2 DEF Calls
<1>5. CASE \E result \in Endings : EndWork(r, result)
  <2>1. PICK result \in Endings : EndWork(r, result)
    BY <1>5
  <2>2. result \in Results
    BY EndingsAssumption DEF Results, Failures, Success
  <2> QED BY <2>1, <2>2 DEF EndWork, Calls
<1>6. CASE WriteSidecar(r)
  <2>1. PICK a \in Attestations :
          evidence' = [evidence EXCEPT ![call[r].slot] =
                         [stage    |-> "sealed",
                          status   |-> call[r].result,
                          bound    |-> r \notin Foreign,
                          attested |-> a /\ call[r].result = Success]]
    BY <1>6 DEF WriteSidecar
  <2>2. a \in BOOLEAN
    BY AttestationsAssumption
  <2>3. evidence' \in [Slots -> Evidence]
    BY <2>1, <2>2 DEF Evidence, Calls
  <2>4. call' \in [Runners -> Calls]
    BY <1>m, <1>6 DEF WriteSidecar
  <2> QED BY <2>3, <2>4
<1> QED BY <1>1, <1>2, <1>3, <1>4, <1>5, <1>6, <1>7, <1>8, <1>9, <1>10, <1>11, <1>12, <1>13
        DEF RunnerStep, CallStep

\* A step of r touches the evidence of its own slot only, and only as the owner
\* of the claim or to create the claim.
LEMMA StepEffect ==
    ASSUME RunTypeOK, OwnerInv, NEW r \in Runners, RunnerStep(r)
    PROVE  LET s == call[r].slot IN
           /\ \A q \in Runners \ {r} : call'[q] = call[q]
           /\ \A t \in Slots \ {s} : evidence'[t] = evidence[t]
           /\ \/ evidence'[s] = evidence[s]
              \/ /\ evidence[s].stage = "none"
                 /\ evidence'[s].stage = "open"
              \/ /\ call[r].phase \in Owning
                 /\ evidence[s].stage \in {"open", "claimed", "dir", "log"}
                 /\ evidence'[s].stage # "none"
              \/ /\ call[r].phase = "sync"
                 /\ evidence[s].stage = "sealed"
                 /\ evidence'[s] = [evidence[s] EXCEPT !.stage = "spoiled"]
           /\ call'[r].phase \in Owning =>
                /\ call'[r].slot = s
                /\ evidence'[s].stage = StageOf(call'[r].phase)
                /\ call'[r].phase = "sync" => (evidence'[s].bound <=> r \notin Foreign)
                /\ call[r].phase \in Owning \/ evidence[s].stage = "none"
<1> USE DEF RunTypeOK, Calls, Evidence, OwnerInv, StageOf, Owning, Move, SetStage
<1>1. CASE \E s \in Slots : Invoke(r, s)
  BY <1>1 DEF Invoke
<1>2. CASE Collect(r) /\ UNCHANGED evidence
  BY <1>2 DEF Collect, Idle
<1>3. CASE OpenClaim(r) \/ ClaimRefused(r)
  BY <1>3 DEF OpenClaim, ClaimRefused
<1>4. CASE WriteClaim(r)
  BY <1>4 DEF WriteClaim
<1>5. CASE MakeAttemptDir(r)
  BY <1>5 DEF MakeAttemptDir
<1>6. CASE OpenRunLog(r)
  BY <1>6 DEF OpenRunLog
<1>7. CASE \E how \in {"error", "interrupt"} : Escapes(r, how)
  <2>1. PICK how \in {"error", "interrupt"} : Escapes(r, how)
    BY <1>7
  <2>2. /\ call' = [call EXCEPT ![r].phase = how, ![r].result = "none"]
        /\ evidence' = evidence
    BY <2>1 DEF Escapes
  <2> QED BY <2>2
<1>8. CASE \E result \in Endings : EndWork(r, result)
  BY <1>8 DEF EndWork
<1>9. CASE WriteSealedLog(r)
  BY <1>9 DEF WriteSealedLog
<1>10. CASE WriteSidecar(r)
  <2>1. call[r].phase = "sidecar" /\ call'[r].phase = "sync" /\ call'[r].slot = call[r].slot
    BY <1>10 DEF WriteSidecar
  <2>2. evidence[call[r].slot].stage = "log"
    BY <2>1
  <2>3. \A q \in Runners \ {r} : call'[q] = call[q]
    BY <1>10 DEF WriteSidecar
  <2>4. PICK e : /\ e.stage = "sealed" /\ (e.bound <=> r \notin Foreign)
                 /\ evidence' = [evidence EXCEPT ![call[r].slot] = e]
    BY <1>10 DEF WriteSidecar
  <2>5. /\ \A t \in Slots \ {call[r].slot} : evidence'[t] = evidence[t]
        /\ evidence'[call[r].slot] = e
    BY <2>4
  <2> QED BY <2>1, <2>2, <2>3, <2>4, <2>5
<1>11. CASE SealFails(r)
  BY <1>11 DEF SealFails
<1>12. CASE Return(r)
  BY <1>12 DEF Return, Success
<1> QED BY <1>1, <1>2, <1>3, <1>4, <1>5, <1>6, <1>7, <1>8, <1>9, <1>10, <1>11, <1>12
        DEF RunnerStep, CallStep

LEMMA OwnerInit == RunInit => OwnerInv
BY DEF RunInit, OwnerInv, ClaimExclusive, Idle, Owning

LEMMA OwnerStep ==
    ASSUME RunTypeOK, OwnerInv, NEW r \in Runners, RunnerStep(r)
    PROVE  OwnerInv'
<1> DEFINE s == call[r].slot
<1>1. \A q \in Runners : call[q].slot \in Slots
  BY DEF RunTypeOK, Calls
<1>2. /\ \A q \in Runners \ {r} : call'[q] = call[q]
      /\ \A t \in Slots \ {s} : evidence'[t] = evidence[t]
      /\ \/ evidence'[s] = evidence[s]
         \/ evidence[s].stage = "none"
         \/ call[r].phase \in Owning
      /\ call'[r].phase \in Owning =>
           /\ call'[r].slot = s
           /\ evidence'[s].stage = StageOf(call'[r].phase)
           /\ call'[r].phase = "sync" => (evidence'[s].bound <=> r \notin Foreign)
           /\ call[r].phase \in Owning \/ evidence[s].stage = "none"
  BY StepEffect DEF Owning
<1>3. \A q \in Runners : call[q].phase \in Owning => evidence[call[q].slot].stage # "none"
  BY DEF OwnerInv, StageOf, Owning
<1>4. ASSUME NEW q \in Runners \ {r}, call[q].phase \in Owning, call[q].slot = s
      PROVE  /\ call[r].phase \notin Owning
             /\ evidence'[s] = evidence[s]
             /\ call'[r].phase \notin Owning
  BY <1>2, <1>3, <1>4 DEF OwnerInv, ClaimExclusive
<1>5. ClaimExclusive'
  <2> SUFFICES ASSUME NEW q \in Runners \ {r}, call'[q].phase \in Owning,
                      call'[r].phase \in Owning, call'[q].slot = call'[r].slot
               PROVE  FALSE
    BY <1>2 DEF OwnerInv, ClaimExclusive
  <2> QED BY <1>2, <1>4
<1>6. \A q \in Runners : call'[q].phase \in Owning
        => evidence'[call'[q].slot].stage = StageOf(call'[q].phase)
  BY <1>1, <1>2, <1>4 DEF OwnerInv
<1>7. \A q \in Runners : call'[q].phase = "sync"
        => (evidence'[call'[q].slot].bound <=> q \notin Foreign)
  BY <1>1, <1>2, <1>4 DEF OwnerInv, Owning
<1> QED BY <1>5, <1>6, <1>7 DEF OwnerInv

\* No step removes a claim or touches evidence that is settled, but for the call that sealed an
\* attempt and has not returned.
Kept ==
    \A s \in Slots :
        /\ evidence[s].stage # "none" => evidence'[s].stage # "none"
        /\ evidence[s].stage \in {"stray", "spoiled"} => evidence'[s] = evidence[s]
        /\ evidence[s].stage = "sealed" =>
             \/ evidence'[s] = evidence[s]
             \/ /\ \E r \in Runners : call[r].phase = "sync" /\ call[r].slot = s
                /\ evidence'[s] = [evidence[s] EXCEPT !.stage = "spoiled"]

LEMMA KeptStep ==
    ASSUME RunTypeOK, OwnerInv, NEW r \in Runners, RunnerStep(r)
    PROVE  Kept
<1> DEFINE s == call[r].slot
<1>1. /\ \A t \in Slots \ {s} : evidence'[t] = evidence[t]
      /\ \/ evidence'[s] = evidence[s]
         \/ evidence[s].stage = "none" /\ evidence'[s].stage = "open"
         \/ /\ evidence[s].stage \in {"open", "claimed", "dir", "log"}
            /\ evidence'[s].stage # "none"
         \/ /\ call[r].phase = "sync"
            /\ evidence[s].stage = "sealed"
            /\ evidence'[s] = [evidence[s] EXCEPT !.stage = "spoiled"]
  BY StepEffect
<1>2. evidence[s] \in Evidence /\ s \in Slots
  BY DEF RunTypeOK, Calls
<1>3. evidence'[s] = [evidence[s] EXCEPT !.stage = "spoiled"] => evidence'[s].stage = "spoiled"
  BY <1>2 DEF Evidence
<1> QED BY <1>1, <1>3 DEF Kept

-----------------------------------------------------------------------------
(* The theorems. *)

LEMMA RunnerSteps == RunNext => \E r \in Runners : RunnerStep(r)
BY DEF RunNext, RunnerStep, CallEnds, Killed

LEMMA RunTypeInit == RunInit => RunTypeOK
BY DEF RunInit, RunTypeOK, Evidence, Blank, Stages, Results, Failures, Calls, Idle, Phases, Slots

\* The invariant of the executor's calls: types, exclusive ownership and the stage
\* of the evidence the owner works on.
THEOREM RunInvariant == RunSpec => [](RunTypeOK /\ OwnerInv)
<1>1. RunInit => RunTypeOK /\ OwnerInv
  BY RunTypeInit, OwnerInit
<1>2. ASSUME RunTypeOK, OwnerInv, [RunNext]_runVars
      PROVE  RunTypeOK' /\ OwnerInv'
  <2>1. CASE RunNext
    BY <1>2, <2>1, RunnerSteps, RunTypes, OwnerStep
  <2>2. CASE UNCHANGED runVars
    BY <1>2, <2>2 DEF runVars, RunTypeOK, OwnerInv, ClaimExclusive
  <2> QED BY <1>2, <2>1, <2>2
<1> QED BY <1>1, <1>2, PTL DEF RunSpec

\* Two executors never work on the same slot.
THEOREM ClaimExclusiveCorrect == RunSpec => []ClaimExclusive
<1>1. OwnerInv => ClaimExclusive
  BY DEF OwnerInv
<1> QED BY <1>1, RunInvariant, PTL

\* Claims, and attempts that are spoiled, are permanent; so are sealed attempts once the call that
\* sealed them is over.
THEOREM EvidencePermanentCorrect == RunSpec => EvidencePermanent
<1>1. RunTypeOK /\ OwnerInv /\ [RunNext]_runVars => [Kept]_evidence
  BY RunnerSteps, KeptStep DEF runVars
<1> QED BY <1>1, RunInvariant, PTL DEF RunSpec, EvidencePermanent, Kept
=============================================================================
