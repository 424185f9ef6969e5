-------------------------- MODULE NightwatchResults --------------------------
(***************************************************************************)
(* What the ledger and the journal report is backed by sealed evidence, and *)
(* the campaign's promise, its failure budget and its verdict, for every    *)
(* value of the constants: with foreign runners, deaths and restarts.       *)
(*                                                                         *)
(* The argument: only the call that sealed an attempt may still spoil it,  *)
(* before it returns (OwnerInv, Kept).  A controller waits for its own     *)
(* call, and until then its slot is running in memory, in the ledger and   *)
(* in the journal (CallingInv, ControlInv); what a direct caller of this   *)
(* campaign takes back is Withdrawn.  So a result stays backed once it is, *)
(* in memory (BackedMemory), in the ledger and in the journal.             *)
(* The status command reads what only grows (StatusInv).  The controllers  *)
(* are callers of the executor as SlotRun has them (CallsAsRunner), and a  *)
(* count of the steps left (StepsLeft) bounds each of their runs.          *)
(***************************************************************************)
EXTENDS NightwatchProofs, NightwatchStatus, FiniteSetTheorems

USE NAssumption, ControllersAssumption

\* Every result among the slots is backed by the retained attempt.
Backed(slots) ==
    \A s \in Slots : slots[s] \in Results => Backs(evidence[s], slots[s])

BackedMemory == \A p \in Controllers : pc[p] \in Loaded => Backed(mem[p].slots)

BackedEvents ==
    \A i \in 1..Len(events) :
        events[i].event = "slot_finished" /\ events[i].status \in Results
          => Backs(evidence[events[i].slot], events[i].status)

BackedInv ==
    /\ OwnerInv
    /\ CallingInv
    /\ Backed(ledger.slots)
    /\ BackedEvents
    /\ BackedMemory

-----------------------------------------------------------------------------
(* The executor's calls inside a Nightwatch step. *)

LEMMA ControllerMove ==
    ASSUME IdxInv, NEW p \in Controllers, Start(p) \/ Continue(p) \/ CtrlC(p) \/ Die(p)
    PROVE  UNCHANGED runVars \/ RunnerStep(p)
<1> USE DEF runVars, RunnerStep
<1>1. CASE PublishLedger(p)
  BY <1>1 DEF PublishLedger
<1>2. CASE Execute(p)
  BY <1>2 DEF Execute, IdxInv, IdxOf
<1>3. CASE ExecutorStep(p)
  BY <1>3 DEF ExecutorStep
<1>4. CASE CtrlC(p)
  BY <1>4 DEF CtrlC, AbsorbInterrupt, CallStep
<1>5. CASE Die(p)
  BY <1>5 DEF Die
<1>6. CASE \/ Start(p) \/ AcquireLock(p) \/ LockBusy(p) \/ LoadRefused(p) \/ LoadState(p)
           \/ ReconcileSlot(p) \/ FinishReconcile(p) \/ CreateLedger(p) \/ Announce(p)
           \/ AppendEvent(p) \/ EndCycle(p) \/ SkipTerminal(p) \/ WindowExpired(p)
           \/ DriftFound(p) \/ StartSlot(p) \/ Conclude(p) \/ Finish(p) \/ Leave(p)
  BY <1>6 DEF Start, AcquireLock, LockBusy, LoadRefused, LoadState, ReconcileSlot,
     FinishReconcile, CreateLedger, Announce, AppendEvent, EndCycle, SkipTerminal,
     WindowExpired, DriftFound, StartSlot, Conclude, Finish, Leave
<1> QED BY <1>1, <1>2, <1>3, <1>4, <1>5, <1>6 DEF Continue

LEMMA RunMove ==
    ASSUME IdxInv, [Next]_vars
    PROVE  UNCHANGED runVars \/ \E r \in Runners : RunnerStep(r)
<1> USE DEF runVars, RunnerStep
<1>1. ASSUME NEW p \in Controllers, Start(p) \/ Continue(p) \/ CtrlC(p) \/ Die(p)
      PROVE  UNCHANGED runVars \/ RunnerStep(p)
  BY <1>1, ControllerMove
<1>2. ASSUME NEW r \in Directs, DirectStep(r)
      PROVE  RunnerStep(r)
  BY <1>2 DEF DirectStep, CallEnds, Killed
<1>3. ASSUME CloseWindow \/ UNCHANGED vars
      PROVE  UNCHANGED runVars
  BY <1>3 DEF CloseWindow, vars
<1> QED
  BY <1>1, <1>2, <1>3, ControllersAssumption DEF Next, Directs

LEMMA OwnerKept ==
    ASSUME TypeOK, IdxInv, OwnerInv, [Next]_vars
    PROVE  OwnerInv' /\ Kept
<1>1. RunTypeOK
  BY DEF TypeOK
<1>2. CASE \E r \in Runners : RunnerStep(r)
  BY <1>1, <1>2, OwnerStep, KeptStep
<1>3. CASE UNCHANGED runVars
  BY <1>3 DEF runVars, OwnerInv, ClaimExclusive, Kept
<1> QED BY <1>2, <1>3, RunMove

LEMMA ReconciledBacked ==
    ASSUME NEW e, NEW status, NEW sound, Reconciled(status, e, sound) \in Results
    PROVE  Proves(e, Reconciled(status, e, sound)) /\ Backs(e, Reconciled(status, e, sound))
BY DEF Reconciled, SealedResult, ShownResult, Backs, Proves, Results, Failures, Success

\* A step of one runner does not touch another's call.
LEMMA CallLocality ==
    ASSUME RunTypeOK, NEW r \in Runners, RunnerStep(r)
    PROVE  \A q \in Runners \ {r} : call'[q] = call[q]
BY DEF RunTypeOK, RunnerStep, Invoke, Collect, CallStep, OpenClaim, ClaimRefused, WriteClaim,
   MakeAttemptDir, OpenRunLog, Escapes, EndWork, WriteSealedLog, WriteSidecar, Return, SealFails,
   Move

\* Only the executor's steps touch the evidence.
LEMMA OtherStepsStill ==
    ASSUME NEW p \in Controllers, Start(p) \/ Continue(p) \/ CtrlC(p) \/ Die(p), ~ExecutorStep(p)
    PROVE  evidence' = evidence
BY DEF Start, Continue, AcquireLock, LockBusy, LoadRefused, LoadState, ReconcileSlot,
   FinishReconcile, CreateLedger, Announce, AppendEvent, PublishLedger, EndCycle, SkipTerminal,
   WindowExpired, DriftFound, StartSlot, Execute, Invoke, CtrlC, AbsorbInterrupt, EndWork,
   Conclude, Finish, Leave, Die, runVars

\* A call is for one slot, and does not come back to life when it has ended.
LEMMA CallMoves ==
    ASSUME RunTypeOK, NEW r \in Runners,
           CallStep(r) \/ \E result \in Failures : AbsorbInterrupt(r, result)
    PROVE  /\ call'[r].slot = call[r].slot
           /\ call[r].phase \in {"idle"} \cup Outcomes => call'[r].phase \in {"idle"} \cup Outcomes
<1> USE DEF Calls, Move, Outcomes
<1>1. call \in [Runners -> Calls]
  BY DEF RunTypeOK
<1>2. CASE \E how \in {"error", "interrupt"} : Escapes(r, how)
  <2>1. PICK how \in {"error", "interrupt"} :
          call' = [call EXCEPT ![r].phase = how, ![r].result = "none"]
    BY <1>2 DEF Escapes
  <2> QED BY <1>1, <2>1
<1>3. CASE (\E result \in Endings : EndWork(r, result))
           \/ \E result \in Failures : AbsorbInterrupt(r, result)
  <2>1. /\ call[r].phase = "work"
        /\ \E result : call' = [call EXCEPT ![r].phase = "seal", ![r].result = result]
    BY <1>3 DEF EndWork, AbsorbInterrupt
  <2> QED BY <1>1, <2>1
<1>4. CASE SealFails(r)
  BY <1>1, <1>4 DEF SealFails
<1>5. CASE WriteSidecar(r)
  BY <1>1, <1>5 DEF WriteSidecar
<1>6. CASE \/ OpenClaim(r) \/ ClaimRefused(r) \/ WriteClaim(r) \/ MakeAttemptDir(r)
           \/ OpenRunLog(r) \/ WriteSealedLog(r) \/ Return(r)
  BY <1>1, <1>6 DEF OpenClaim, ClaimRefused, WriteClaim, MakeAttemptDir, OpenRunLog,
     WriteSealedLog, Return
<1> QED BY <1>2, <1>3, <1>4, <1>5, <1>6 DEF CallStep

LEMMA CallingInit == Init => CallingInv
BY ControllersAssumption DEF Init, RunInit, CallingInv, Calling, Idle

LEMMA CallingStep ==
    ASSUME TypeOK, IdxInv, CallingInv, [Next]_vars
    PROVE  CallingInv'
<1> USE DEF Calling, CallingInv
<1>1. call \in [Runners -> Calls] /\ RunTypeOK /\ Controllers \subseteq Runners
  BY ControllersAssumption DEF TypeOK, RunTypeOK
<1>2. ASSUME NEW q \in Controllers, UNCHANGED <<pc[q], idx[q], call[q]>>
      PROVE  Calling(q)'
  BY <1>2
<1>3. ASSUME NEW p \in Controllers, Start(p) \/ Continue(p) \/ CtrlC(p) \/ Die(p)
      PROVE  Calling(p)'
  <2> USE DEF TypeOK, Goto
  <2>1. CASE Execute(p)
    <3>1. pc'[p] = "await" /\ idx' = idx /\ call'[p].slot = idx[p]
      BY <1>1, <2>1 DEF Execute, Invoke, memory, Calls
    <3> QED BY <3>1
  <2>2. CASE ExecutorStep(p) \/ CtrlC(p)
    <3>1. UNCHANGED <<pc, idx>> /\ pc[p] = "await"
      BY <2>2 DEF ExecutorStep, CtrlC, memory
    <3>2. /\ call'[p].slot = call[p].slot
          /\ call[p].phase \in {"idle"} \cup Outcomes => call'[p].phase \in {"idle"} \cup Outcomes
      BY <1>1, <2>2, CallMoves DEF ExecutorStep, CtrlC
    <3> QED BY <3>1, <3>2
  <2>3. CASE PublishLedger(p)
    <3>1. pc[p] = "publish" /\ (call' = call \/ call'[p] = Idle)
      BY <1>1, <2>3 DEF PublishLedger, Collect
    <3> QED BY <3>1 DEF Idle
  <2>4. CASE Die(p)
    <3>1. call'[p] = Idle
      BY <1>1, <2>4 DEF Die, Collect
    <3> QED BY <3>1 DEF Idle
  <2>5. CASE Conclude(p)
    BY <2>5 DEF Conclude, runVars
  <2>6. CASE \/ Start(p) \/ AcquireLock(p) \/ LockBusy(p) \/ LoadRefused(p) \/ LoadState(p)
             \/ ReconcileSlot(p) \/ FinishReconcile(p) \/ CreateLedger(p) \/ Announce(p)
             \/ AppendEvent(p) \/ EndCycle(p) \/ SkipTerminal(p) \/ WindowExpired(p)
             \/ DriftFound(p) \/ StartSlot(p) \/ Finish(p) \/ Leave(p)
    <3>1. call' = call /\ pc[p] # "await"
      BY <2>6 DEF Start, AcquireLock, LockBusy, LoadRefused, LoadState, ReconcileSlot,
         FinishReconcile, CreateLedger, Announce, AppendEvent, EndCycle, SkipTerminal,
         WindowExpired, DriftFound, StartSlot, AtSlot, Finish, Leave, runVars
    <3> QED BY <3>1
  <2> QED BY <1>3, <2>1, <2>2, <2>3, <2>4, <2>5, <2>6 DEF Continue
<1>4. ASSUME NEW p \in Controllers, Start(p) \/ Continue(p) \/ CtrlC(p) \/ Die(p)
      PROVE  CallingInv'
  <2>1. ASSUME NEW q \in Controllers \ {p}
        PROVE  Calling(q)'
    <3>1. pc'[q] = pc[q] /\ idx'[q] = idx[q]
      BY <1>4, <2>1, Locality
    <3>2. call'[q] = call[q]
      BY <1>1, <1>4, <2>1, ControllerMove, CallLocality DEF runVars
    <3> QED BY <1>2, <3>1, <3>2
  <2> QED BY <1>3, <1>4, <2>1
<1>5. ASSUME NEW r \in Directs, DirectStep(r)
      PROVE  CallingInv'
  <2>1. RunnerStep(r) /\ r \in Runners /\ \A q \in Controllers : q \in Runners \ {r}
    BY <1>1, <1>5 DEF DirectStep, CallEnds, Killed, RunnerStep, Directs
  <2>2. \A q \in Controllers : call'[q] = call[q]
    BY <1>1, <2>1, CallLocality
  <2> QED BY <1>2, <1>5, <2>2 DEF DirectStep, memory
<1>6. CASE CloseWindow \/ UNCHANGED vars
  BY <1>6 DEF CloseWindow, vars, runVars, memory
<1> QED BY <1>4, <1>5, <1>6 DEF Next

\* A step of the executor in a controller touches the evidence of the slot it waits for only,
\* which is running in memory and in the ledger and has no end in the journal.
LEMMA OwnSlotOnly ==
    ASSUME TypeOK, ControlInv, BackedInv, NEW p \in Controllers, ExecutorStep(p)
    PROVE  /\ pc[p] = "await" /\ idx[p] \in Slots
           /\ \A s \in Slots \ {idx[p]} : evidence'[s] = evidence[s]
           /\ mem[p].slots[idx[p]] = "running" /\ ledger.slots[idx[p]] = "running"
           /\ \A i \in 1..Len(events) : events[i].event = "slot_finished" => events[i].slot # idx[p]
           /\ \A q \in Controllers \ {p} : pc[q] \notin Inside
           /\ UNCHANGED <<created, ledger, events, torn, pc, mem, idx, dirty, pend, dispatches>>
<1>1. pc[p] = "await" /\ Own(p) /\ LockInv
  BY DEF ExecutorStep, ControlInv
<1>2. idx[p] \in Slots
  BY <1>1 DEF Own, IdxOf
<1>3. mem[p].slots[idx[p]] = "running" /\ ledger.slots = mem[p].slots
  BY <1>1 DEF Own, BusyOf, Busy
<1>4. ~Ends(idx[p], Len(events))
  BY <1>1, <1>2, <1>3 DEF Own, FlagOf, Loaded, Inside, Pcs, Terminal, Results, Failures, Success
<1>5. RunTypeOK /\ OwnerInv /\ p \in Runners /\ RunnerStep(p)
  BY ControllersAssumption DEF TypeOK, BackedInv, ExecutorStep, RunnerStep
<1>6. \A s \in Slots \ {call[p].slot} : evidence'[s] = evidence[s]
  BY <1>5, StepEffect
<1>7. \A s \in Slots \ {idx[p]} : evidence'[s] = evidence[s]
  <2>1. CASE call[p].phase \in {"idle"} \cup Outcomes
    <3>1. evidence' = evidence
      BY <2>1 DEF ExecutorStep, CallStep, OpenClaim, ClaimRefused, WriteClaim, MakeAttemptDir,
         OpenRunLog, Escapes, EndWork, WriteSealedLog, WriteSidecar, Return, SealFails, Outcomes
    <3> QED BY <3>1
  <2>2. CASE call[p].phase \notin {"idle"} \cup Outcomes
    BY <1>6, <2>2 DEF BackedInv, CallingInv, Calling
  <2> QED BY <2>1, <2>2
<1>8. \A q \in Controllers \ {p} : pc[q] \notin Inside
  BY <1>1, OthersOutside DEF Inside, Pcs
<1> QED BY <1>1, <1>2, <1>3, <1>4, <1>7, <1>8 DEF Ends, ExecutorStep, disk, memory, frame

\* A direct caller that takes back an attempt of this campaign leaves it withdrawn.
LEMMA DirectBacks ==
    ASSUME TypeOK, OwnerInv, NEW r \in Directs, DirectStep(r), NEW s \in Slots, NEW x,
           Backs(evidence[s], x)
    PROVE  Backs(evidence'[s], x)
<1>1. RunTypeOK /\ r \in Runners /\ RunnerStep(r)
  BY DEF TypeOK, DirectStep, CallEnds, Killed, RunnerStep, Directs
<1>2. evidence[s] \in Evidence /\ evidence[s].stage \in {"sealed", "spoiled"}
  BY <1>1 DEF RunTypeOK, Backs, Proves, Withdrawn
<1>3. \/ evidence'[s] = evidence[s]
      \/ /\ call[r].phase = "sync" /\ s = call[r].slot
         /\ evidence[s].stage = "sealed"
         /\ evidence'[s] = [evidence[s] EXCEPT !.stage = "spoiled"]
  BY <1>1, <1>2, StepEffect
<1>4. CASE /\ call[r].phase = "sync" /\ s = call[r].slot
           /\ evidence[s].stage = "sealed"
           /\ evidence'[s] = [evidence[s] EXCEPT !.stage = "spoiled"]
  <2>1. Proves(evidence[s], x)
    BY <1>4 DEF Backs, Withdrawn
  <2>2. r \in Directs \ Foreign
    BY <1>1, <1>4, <2>1 DEF OwnerInv, Proves
  <2>3. /\ evidence'[s].stage = "spoiled"
        /\ evidence'[s].bound = evidence[s].bound
        /\ evidence'[s].status = evidence[s].status
        /\ evidence'[s].attested = evidence[s].attested
    BY <1>2, <1>4 DEF Evidence
  <2>4. Withdrawn(evidence'[s], x)
    BY <2>1, <2>3 DEF Proves, Withdrawn
  <2> QED BY <2>2, <2>4 DEF Backs
<1> QED BY <1>3, <1>4

\* But for the steps of the executor in a controller, what is backed stays so.
LEMMA BacksKept ==
    ASSUME TypeOK, OwnerInv, [Next]_vars, \A p \in Controllers : ~ExecutorStep(p),
           NEW s \in Slots, NEW x, Backs(evidence[s], x)
    PROVE  Backs(evidence'[s], x)
<1>1. CASE \E p \in Controllers : Start(p) \/ Continue(p) \/ CtrlC(p) \/ Die(p)
  BY <1>1, OtherStepsStill
<1>2. CASE \E r \in Directs : DirectStep(r)
  BY <1>2, DirectBacks
<1>3. CASE CloseWindow \/ UNCHANGED vars
  BY <1>3 DEF CloseWindow, vars, runVars
<1> QED BY <1>1, <1>2, <1>3 DEF Next

\* A runner between two calls remembers nothing of the last one.
IdleInv == \A r \in Runners : call[r].phase = "idle" => call[r] = Idle

LEMMA IdleStep ==
    ASSUME RunTypeOK, IdleInv, NEW r \in Runners, RunnerStep(r)
    PROVE  IdleInv'
<1>1. call \in [Runners -> Calls]
  BY DEF RunTypeOK
<1>2. call'[r] = Idle \/ call'[r].phase # "idle"
  <2>1. CASE (\E s \in Slots : Invoke(r, s)) \/ Collect(r)
    BY <1>1, <2>1 DEF Invoke, Collect
  <2>2. CASE CallStep(r)
    BY <1>1, <2>2 DEF CallStep, OpenClaim, ClaimRefused, WriteClaim, MakeAttemptDir, OpenRunLog, Escapes,
      EndWork, WriteSealedLog, WriteSidecar, Return, SealFails, Move, Calls
  <2> QED BY <2>1, <2>2 DEF RunnerStep
<1>3. \A q \in Runners \ {r} : call'[q] = call[q]
  BY CallLocality
<1> QED BY <1>2, <1>3 DEF IdleInv

\* The controllers, with all that they do besides, call the executor as SlotRun has it: what is
\* proved of its callers holds of a campaign, its rivals, deaths and restarts too.
THEOREM CallsAsRunner == Spec => RunSpec
<1>1. Init => RunInit /\ IdleInv
  BY DEF Init, RunInit, IdleInv
<1>2. ASSUME TypeOK, ControlInv, IdleInv, [Next]_vars
      PROVE  [RunNext]_runVars /\ IdleInv'
  <2>1. IdxInv /\ RunTypeOK
    BY <1>2 DEF ControlInv, Own, IdxInv, TypeOK
  <2>2. CASE UNCHANGED runVars
    BY <1>2, <2>2 DEF runVars, IdleInv
  <2>3. ASSUME NEW r \in Runners, RunnerStep(r)
        PROVE  [RunNext]_runVars /\ IdleInv'
    <3>1. IdleInv'
      BY <1>2, <2>1, <2>3, IdleStep
    <3>2. CASE Collect(r) /\ UNCHANGED evidence
      <4>1. call[r].phase # "idle" => Killed(r)
        BY <3>2 DEF Killed
      <4>2. call[r].phase = "idle" => UNCHANGED runVars
        BY <1>2, <2>1, <3>2 DEF Collect, IdleInv, RunTypeOK, runVars
      <4> QED BY <2>3, <3>1, <4>1, <4>2 DEF RunNext
    <3>3. CASE ~(Collect(r) /\ UNCHANGED evidence)
      BY <2>3, <3>1, <3>3 DEF RunnerStep, RunNext
    <3> QED BY <3>2, <3>3
  <2> QED BY <1>2, <2>1, <2>2, <2>3, RunMove
<1> QED BY <1>1, <1>2, TypeCorrect, ControlCorrect, PTL DEF Spec, RunSpec

-----------------------------------------------------------------------------
(* The results in memory. *)

LEMMA MemoryStep ==
    ASSUME TypeOK, ControlInv, BackedInv, NEW p \in Controllers,
           Start(p) \/ Continue(p) \/ CtrlC(p) \/ Die(p), pc'[p] \in Loaded
    PROVE  \A s \in Slots :
             mem'[p].slots[s] \in Results => Backs(evidence[s], mem'[p].slots[s])
<1> USE DEF TypeOK, Loaded, Inside, Goto
<1> DEFINE Goal == \A s \in Slots :
                     mem'[p].slots[s] \in Results => Backs(evidence[s], mem'[p].slots[s])
<1>1. ASSUME pc[p] \in Loaded, mem'[p].slots = mem[p].slots
      PROVE  Goal
  BY <1>1 DEF BackedInv, BackedMemory, Backed
<1>2. ASSUME NEW s \in Slots, NEW new, pc[p] \in Loaded,
             mem'[p].slots = [mem[p].slots EXCEPT ![s] = new],
             new \in Results => Backs(evidence[s], new)
      PROVE  Goal
  <2>1. mem[p].slots \in [Slots -> SlotStatuses]
    BY DEF Ledgers
  <2>2. \A t \in Slots : mem[p].slots[t] \in Results => Backs(evidence[t], mem[p].slots[t])
    BY <1>2 DEF BackedInv, BackedMemory, Backed
  <2> QED BY <1>2, <2>1, <2>2
<1>3. CASE Start(p) \/ AcquireLock(p) \/ LockBusy(p) \/ LoadRefused(p) \/ Leave(p) \/ Die(p)
  BY <1>3 DEF Start, AcquireLock, LockBusy, LoadRefused, Leave, Die, Forget
<1>4. CASE LoadState(p)
  <2>1. mem'[p] = Replayed
    BY <1>4 DEF LoadState
  <2>2. \A s \in Slots : Replayed.slots[s] \in {ledger.slots[s], "manual_review"}
    BY DEF Replayed, Ledgers
  <2> QED BY <2>1, <2>2 DEF BackedInv, Backed, Results, Failures, Success
<1>5. CASE ReconcileSlot(p)
  <2>5. PICK sound \in BOOLEAN :
          SetSlot(p, idx[p], Reconciled(mem[p].slots[idx[p]], evidence[idx[p]], sound))
    BY <1>5 DEF ReconcileSlot
  <2> DEFINE s   == idx[p]
             new == Reconciled(mem[p].slots[s], evidence[s], sound)
  <2>1. s \in Slots
    BY <1>5 DEF ReconcileSlot, Slots
  <2>2. mem'[p].slots = [mem[p].slots EXCEPT ![s] = new]
    BY <2>5 DEF SetSlot, Ledgers
  <2>3. pc[p] \in Loaded
    BY <1>5 DEF ReconcileSlot
  <2>4. new \in Results => Backs(evidence[s], new)
    BY ReconciledBacked
  <2> HIDE DEF new, s
  <2> QED BY <1>2, <2>1, <2>2, <2>3, <2>4
<1>6. CASE FinishReconcile(p) \/ CreateLedger(p)
  BY <1>1, <1>6 DEF FinishReconcile, CreateLedger, memory, Ledgers
<1>7. CASE Announce(p) \/ Finish(p)
  BY <1>1, <1>7 DEF Announce, Finish, Record
<1>8. CASE AppendEvent(p)
  BY <1>1, <1>8 DEF AppendEvent, Ledgers
<1>9. CASE PublishLedger(p) \/ EndCycle(p) \/ SkipTerminal(p) \/ WindowExpired(p)
  BY <1>1, <1>9 DEF PublishLedger, EndCycle, SkipTerminal, WindowExpired, AtSlot, memory
<1>10. CASE Execute(p) \/ ExecutorStep(p) \/ CtrlC(p)
  BY <1>1, <1>10 DEF Execute, ExecutorStep, CtrlC, memory
<1>11. CASE DriftFound(p) \/ StartSlot(p)
  <2>1. PICK new \in {"manual_review", "running"} : SetSlot(p, idx[p], new)
    BY <1>11 DEF DriftFound, StartSlot
  <2>2. idx[p] \in Slots /\ pc[p] \in Loaded
    BY <1>11 DEF DriftFound, StartSlot, AtSlot, Slots
  <2>3. mem'[p].slots = [mem[p].slots EXCEPT ![idx[p]] = new]
    BY <2>1 DEF SetSlot, Ledgers
  <2> QED BY <1>2, <2>1, <2>2, <2>3 DEF Results, Failures, Success
<1>12. CASE Conclude(p)
  <2>4. PICK sound \in BOOLEAN :
          LET found == Reconciled(mem[p].slots[idx[p]], evidence[idx[p]], sound)
          IN  SetSlot(p, idx[p], IF found \in Results THEN found ELSE "manual_review")
    BY <1>12 DEF Conclude
  <2> DEFINE found == Reconciled(mem[p].slots[idx[p]], evidence[idx[p]], sound)
             new   == IF found \in Results THEN found ELSE "manual_review"
  <2>1. idx[p] \in Slots /\ pc[p] \in Loaded
    BY <1>12 DEF Conclude, ControlInv, Own, IdxOf
  <2>2. mem'[p].slots = [mem[p].slots EXCEPT ![idx[p]] = new]
    BY <2>4 DEF SetSlot, Ledgers
  <2>3. new \in Results => Backs(evidence[idx[p]], new)
    BY ReconciledBacked DEF Results, Failures, Success
  <2> HIDE DEF new
  <2> QED BY <1>2, <2>1, <2>2, <2>3
<1> QED BY <1>3, <1>4, <1>5, <1>6, <1>7, <1>8, <1>9, <1>10, <1>11, <1>12 DEF Continue

(* What a controller publishes comes from its memory. *)
LEMMA PublishedStep ==
    ASSUME NEW p \in Controllers, Start(p) \/ Continue(p) \/ CtrlC(p) \/ Die(p)
    PROVE  /\ ledger' = ledger \/ (pc[p] \in Loaded /\ ledger' = mem[p])
           /\ \/ events' = events
              \/ /\ pc[p] = "append"
                 /\ events' = Append(events, [seq |-> mem[p].seq + 1, event |-> pend[p].event,
                                              slot |-> pend[p].slot, status |-> pend[p].status])
<1> USE DEF disk, Loaded, Inside, Pcs
<1>1. CASE CreateLedger(p)
  BY <1>1 DEF CreateLedger
<1>2. CASE PublishLedger(p)
  BY <1>2 DEF PublishLedger
<1>3. CASE AppendEvent(p)
  BY <1>3 DEF AppendEvent
<1>4. CASE \/ Start(p) \/ AcquireLock(p) \/ LockBusy(p) \/ LoadRefused(p) \/ LoadState(p)
           \/ ReconcileSlot(p) \/ FinishReconcile(p) \/ Announce(p) \/ EndCycle(p)
           \/ SkipTerminal(p) \/ WindowExpired(p) \/ DriftFound(p) \/ StartSlot(p)
           \/ Execute(p) \/ ExecutorStep(p) \/ CtrlC(p) \/ Conclude(p) \/ Finish(p)
           \/ Leave(p) \/ Die(p)
  BY <1>4 DEF Start, AcquireLock, LockBusy, LoadRefused, LoadState, ReconcileSlot,
     FinishReconcile, Announce, EndCycle, SkipTerminal, WindowExpired, DriftFound, StartSlot,
     Execute, ExecutorStep, CtrlC, Conclude, Finish, Leave, Die
<1> QED BY <1>1, <1>2, <1>3, <1>4 DEF Continue

LEMMA FinishedSlot ==
    ASSUME TypeOK, NEW i \in 1..Len(events), events[i].event = "slot_finished"
    PROVE  events[i].slot \in Slots
<1>1. events[i] \in Events
  BY DEF TypeOK
<1> QED BY <1>1 DEF Events, CampaignEvents

LEMMA BackedInit == Init => BackedInv
<1>1. Init => OwnerInv /\ CallingInv
  BY OwnerInit, CallingInit DEF Init
<1> QED BY <1>1 DEF Init, BackedInv, Backed, BackedEvents, BackedMemory, NewLedger, Results,
           Failures, Success, Loaded, Inside

LEMMA BackedStep ==
    ASSUME TypeOK, ControlInv, BackedInv, [Next]_vars
    PROVE  BackedInv'
<1>0. IdxInv
  BY DEF ControlInv, Own, IdxInv
<1>1. OwnerInv' /\ CallingInv'
  BY <1>0, OwnerKept, CallingStep DEF BackedInv
<1>2. ASSUME NEW p \in Controllers, ExecutorStep(p)
      PROVE  BackedInv'
  <2>1. /\ \A s \in Slots \ {idx[p]} : evidence'[s] = evidence[s]
        /\ mem[p].slots[idx[p]] = "running" /\ ledger.slots[idx[p]] = "running"
        /\ \A i \in 1..Len(events) : events[i].event = "slot_finished" => events[i].slot # idx[p]
        /\ \A q \in Controllers \ {p} : pc[q] \notin Inside
        /\ ledger' = ledger /\ events' = events /\ pc' = pc /\ mem' = mem
    BY <1>2, OwnSlotOnly
  <2>2. "running" \notin Results
    BY DEF Results, Failures, Success
  <2>3. Backed(ledger.slots)'
    BY <2>1, <2>2 DEF BackedInv, Backed
  <2>4. BackedEvents'
    <3>1. \A i \in 1..Len(events) : events[i].event = "slot_finished" => events[i].slot \in Slots
      BY FinishedSlot
    <3> QED BY <2>1, <3>1 DEF BackedInv, BackedEvents
  <2>5. BackedMemory'
    <3>1. \A q \in Controllers : pc[q] \in Loaded => q = p
      BY <2>1 DEF Loaded
    <3> QED BY <2>1, <2>2, <3>1 DEF BackedInv, BackedMemory, Backed
  <2> QED BY <1>1, <2>3, <2>4, <2>5 DEF BackedInv
<1>3. ASSUME \A p \in Controllers : ~ExecutorStep(p)
      PROVE  BackedInv'
  <2>0. \A s \in Slots : \A x : Backs(evidence[s], x) => Backs(evidence'[s], x)
    BY <1>3, BacksKept DEF BackedInv
  <2>1. ASSUME ledger' = ledger, events' = events, pc' = pc, mem' = mem
        PROVE  BackedInv'
    <3>1. Backed(ledger.slots)'
      BY <2>0, <2>1 DEF BackedInv, Backed
    <3>2. BackedEvents'
      <4>1. \A i \in 1..Len(events) : events[i].event = "slot_finished" => events[i].slot \in Slots
        BY FinishedSlot
      <4> QED BY <2>0, <2>1, <4>1 DEF BackedInv, BackedEvents
    <3>3. BackedMemory'
      BY <2>0, <2>1 DEF BackedInv, BackedMemory, Backed
    <3> QED BY <1>1, <3>1, <3>2, <3>3 DEF BackedInv
  <2>2. ASSUME NEW p \in Controllers, Start(p) \/ Continue(p) \/ CtrlC(p) \/ Die(p)
        PROVE  BackedInv'
    <3>1. Backed(ledger.slots)'
      BY <2>0, <2>2, PublishedStep DEF BackedInv, Backed, BackedMemory
    <3>2. BackedEvents'
      <4> DEFINE new == [seq |-> mem[p].seq + 1, event |-> pend[p].event,
                         slot |-> pend[p].slot, status |-> pend[p].status]
      <4>1. ASSUME NEW i \in 1..Len(events), events[i].event = "slot_finished",
                   events[i].status \in Results
            PROVE  Backs(evidence'[events[i].slot], events[i].status)
        <5>1. events[i].slot \in Slots
          BY <4>1, FinishedSlot
        <5> QED BY <2>0, <4>1, <5>1 DEF BackedInv, BackedEvents
      <4>2. CASE events' = events
        BY <4>1, <4>2 DEF BackedEvents
      <4>3. CASE pc[p] = "append" /\ events' = Append(events, new)
        <5>1. ASSUME new.event = "slot_finished", new.status \in Results
              PROVE  Backs(evidence'[new.slot], new.status)
          <6>1. Recording(p) /\ pend[p].event = "slot_finished"
            BY <4>3, <5>1 DEF Recording
          <6>2. pend[p].slot = idx[p] /\ pend[p].slot \in Slots
            BY <6>1 DEF ControlInv, Own, IdxOf, SlotEvents, TypeOK, Pending, CampaignEvents
          <6>3. mem[p].slots[idx[p]] = pend[p].status
            BY <6>1 DEF ControlInv, Own, PendOf
          <6>4. Backs(evidence[idx[p]], pend[p].status)
            BY <4>3, <5>1, <6>2, <6>3 DEF BackedInv, BackedMemory, Backed, Loaded, Inside, Pcs
          <6> QED BY <2>0, <6>2, <6>4
        <5>2. /\ Len(events') = Len(events) + 1
              /\ \A i \in 1..Len(events) : events'[i] = events[i]
              /\ events'[Len(events) + 1] = new
              /\ Len(events) \in Nat
          BY <4>3 DEF TypeOK
        <5>3. \A i \in 1..(Len(events) + 1) : i \in 1..Len(events) \/ i = Len(events) + 1
          BY <5>2
        <5> HIDE DEF new
        <5> QED BY <4>1, <5>1, <5>2, <5>3 DEF BackedEvents
      <4> QED BY <2>2, <4>2, <4>3, PublishedStep
    <3>3. BackedMemory'
      <4>1. ASSUME NEW q \in Controllers, pc'[q] \in Loaded, NEW s \in Slots,
                   mem'[q].slots[s] \in Results
            PROVE  Backs(evidence[s], mem'[q].slots[s])
        <5>1. CASE q = p
          BY <2>2, <4>1, <5>1, MemoryStep
        <5>2. CASE q # p
          <6>1. pc'[q] = pc[q] /\ mem'[q] = mem[q]
            BY <2>2, <5>2, Locality
          <6> QED BY <4>1, <6>1 DEF BackedInv, BackedMemory, Backed
        <5> QED BY <5>1, <5>2
      <4> QED BY <2>0, <4>1 DEF BackedMemory, Backed
    <3> QED BY <1>1, <3>1, <3>2, <3>3 DEF BackedInv
  <2>3. ASSUME NEW r \in Directs, DirectStep(r)
        PROVE  BackedInv'
    BY <2>1, <2>3 DEF DirectStep, disk, memory
  <2>4. ASSUME CloseWindow \/ UNCHANGED vars
        PROVE  BackedInv'
    BY <2>1, <2>4 DEF CloseWindow, vars, disk, memory
  <2> QED BY <2>2, <2>3, <2>4 DEF Next
<1> QED BY <1>2, <1>3

\* A result that the ledger or the journal reports is that of an attempt of this campaign that is
\* sealed, and attested where it must be; only a direct caller can have taken it back since.
THEOREM ResultsBackedCorrect == Spec => []ResultsBacked
<1>1. Init => BackedInv
  BY BackedInit
<1>2. TypeOK /\ ControlInv /\ BackedInv /\ [Next]_vars => BackedInv'
  BY BackedStep
<1>3. BackedInv => ResultsBacked
  BY DEF BackedInv, Backed, BackedEvents, ResultsBacked
<1> QED BY <1>1, <1>2, <1>3, TypeCorrect, ControlCorrect, PTL DEF Spec


-----------------------------------------------------------------------------
(***************************************************************************)
(* The failure budget.  A slot is handed over only while no slot is in     *)
(* manual review and fewer than Threshold slots have failed (BudgetOf); by *)
(* then every slot handed over before has a result, so those without a     *)
(* completed attempt are the failed ones and the new one.                  *)
(***************************************************************************)

\* Every step keeps the settled evidence.
LEMMA BackedKept ==
    ASSUME TypeOK, ControlInv, BackedInv, [Next]_vars
    PROVE  Kept
BY OwnerKept DEF ControlInv, Own, IdxInv, BackedInv

LEMMA HandsOverNothing ==
    ASSUME NEW p \in Controllers, Start(p) \/ Continue(p) \/ CtrlC(p) \/ Die(p), ~Execute(p)
    PROVE  dispatches' = dispatches
BY DEF Start, Continue, AcquireLock, LockBusy, LoadRefused, LoadState, ReconcileSlot,
   FinishReconcile, CreateLedger, Announce, AppendEvent, PublishLedger, EndCycle, SkipTerminal,
   WindowExpired, DriftFound, StartSlot, ExecutorStep, CtrlC, Conclude, Finish, Leave, Die, frame

LEMMA SlotSets ==
    ASSUME NEW S, S \subseteq Slots
    PROVE  IsFiniteSet(S) /\ Cardinality(S) \in Nat
<1>1. IsFiniteSet(Slots)
  BY FS_Interval DEF Slots
<1> QED BY <1>1, FS_Subset, FS_CardinalityType

LEMMA FailedSlotsCount ==
    ASSUME NEW slots
    PROVE  /\ FailedSlots(slots) \subseteq Slots
           /\ IsFiniteSet(FailedSlots(slots))
           /\ Cardinality(FailedSlots(slots)) \in Nat
BY SlotSets DEF FailedSlots

\* The slots handed over for which no completed attempt is there.
Spent == {s \in Slots : dispatches[s] > 0 /\ ~Backs(evidence[s], Success)}

LEMMA NotStopping ==
    ASSUME NEW slots, CampaignStatus(slots) \notin {"manual_review", "stopped"}
    PROVE  /\ \A s \in Slots : slots[s] # "manual_review"
           /\ Cardinality(FailedSlots(slots)) < Threshold
<1>1. Threshold \in Nat
  BY ThresholdAssumption
<1> QED BY <1>1, FailedSlotsCount DEF CampaignStatus

LEMMA StartBudget ==
    ASSUME TypeOK, NEW p \in Controllers, StartSlot(p)
    PROVE  BudgetOf(p)'
<1> DEFINE i == idx[p]
<1>1. /\ i \in Slots /\ mem[p].slots[i] = "pending"
      /\ mem'[p].slots = [mem[p].slots EXCEPT ![i] = "running"]
      /\ mem[p].slots \in [Slots -> SlotStatuses]
      /\ ~Stopping(p)
  BY DEF StartSlot, AtSlot, SetSlot, TypeOK, Ledgers, Slots
<1>2. /\ \A s \in Slots : mem[p].slots[s] # "manual_review"
      /\ Cardinality(FailedSlots(mem[p].slots)) < Threshold
  BY <1>1, NotStopping DEF Stopping
<1>3. FailedSlots(mem'[p].slots) = FailedSlots(mem[p].slots)
  BY <1>1 DEF FailedSlots, Failures
<1>4. \A s \in Slots : mem'[p].slots[s] # "manual_review"
  BY <1>1, <1>2
<1> QED BY <1>2, <1>3, <1>4 DEF BudgetOf

\* A slot becomes busy only when it is started.
LEMMA BudgetKept ==
    ASSUME TypeOK, NEW p \in Controllers, BudgetOf(p),
           Start(p) \/ Continue(p) \/ CtrlC(p) \/ Die(p)
    PROVE  BudgetOf(p)'
<1> USE DEF TypeOK, Goto, Busy, Starting, Recording
<1>1. CASE StartSlot(p)
  BY <1>1, StartBudget
<1>2. CASE \/ AppendEvent(p) \/ PublishLedger(p) \/ Execute(p) \/ ExecutorStep(p) \/ CtrlC(p)
  <2>1. Busy(p)' => Busy(p) /\ mem'[p].slots = mem[p].slots
    BY <1>2 DEF AppendEvent, PublishLedger, AfterRecord, Execute, ExecutorStep, CtrlC, memory,
       Ledgers, Pending, SlotEvents, CampaignEvents
  <2> QED BY <2>1 DEF BudgetOf
<1>3. CASE \/ Start(p) \/ AcquireLock(p) \/ LockBusy(p) \/ LoadRefused(p) \/ LoadState(p)
           \/ ReconcileSlot(p) \/ FinishReconcile(p) \/ CreateLedger(p) \/ Announce(p)
           \/ EndCycle(p) \/ SkipTerminal(p) \/ WindowExpired(p) \/ DriftFound(p)
           \/ Conclude(p) \/ Finish(p) \/ Leave(p) \/ Die(p)
  <2>1. ~Busy(p)'
    BY <1>3 DEF Start, AcquireLock, LockBusy, LoadRefused, LoadState, ReconcileSlot,
       FinishReconcile, CreateLedger, Announce, EndCycle, SkipTerminal, WindowExpired,
       DriftFound, Conclude, Finish, Leave, Die, Forget, Record, AtSlot
  <2> QED BY <2>1 DEF BudgetOf
<1> QED BY <1>1, <1>2, <1>3 DEF Continue

LEMMA BudgetInit == Init => BudgetInv
<1> SUFFICES ASSUME Init
             PROVE  BudgetInv
  OBVIOUS
<1>1. Spent = {}
  BY DEF Init, Spent
<1>2. FailureBudget
  BY <1>1, FS_EmptySet, ThresholdAssumption DEF FailureBudget, Spent
<1> QED BY <1>2 DEF Init, BudgetInv, BudgetOf, Busy, Starting, Recording

\* While a slot is handed over, or executed, every other slot that is spent has failed.
LEMMA BusySpends ==
    ASSUME TypeOK, ControlInv, BackedInv, NEW p \in Controllers, BudgetOf(p),
           pc[p] \in {"execute", "await"}, NEW spent, spent \subseteq Slots,
           \A s \in spent \ {idx[p]} : s \in Spent
    PROVE  Cardinality(spent) <= Threshold
<1> DEFINE i      == idx[p]
           failed == FailedSlots(mem[p].slots)
<1>1. i \in Slots
  BY DEF ControlInv, Own, IdxOf
<1>2. /\ \A s \in Slots : mem[p].slots[s] # "manual_review"
      /\ Cardinality(failed) < Threshold
  BY DEF BudgetOf, Busy
<1>3. ASSUME NEW s \in Slots \ {i}, s \in spent
      PROVE  s \in failed
  <2>1. dispatches[s] > 0 /\ ~Backs(evidence[s], Success)
    BY <1>3 DEF Spent
  <2>2. mem[p].slots[s] \notin {"pending", "running", "manual_review"}
    BY <1>1, <1>2, <1>3, <2>1
       DEF ControlInv, Own, DispatchOf, RunningOf, Loaded, Inside, Pcs
  <2>3. mem[p].slots[s] \in SlotStatuses
    BY <1>3 DEF TypeOK, Ledgers
  <2>4. mem[p].slots[s] \in Results
    BY <2>2, <2>3 DEF SlotStatuses, Terminal
  <2>5. Backs(evidence[s], mem[p].slots[s])
    BY <1>3, <2>4 DEF BackedInv, BackedMemory, Backed, Loaded, Inside, Pcs
  <2> QED BY <1>3, <2>1, <2>4, <2>5 DEF Results, FailedSlots
<1>4. spent \subseteq failed \cup {i}
  BY <1>3
<1>5. IsFiniteSet(failed) /\ Cardinality(failed) \in Nat
  BY FailedSlotsCount
<1> HIDE DEF failed
<1>6. /\ IsFiniteSet(failed \cup {i})
      /\ Cardinality(failed \cup {i}) \in {Cardinality(failed), Cardinality(failed) + 1}
  BY <1>5, FS_AddElement
<1>7. Cardinality(spent) <= Cardinality(failed \cup {i})
  BY <1>4, <1>6, FS_Subset
<1>8. Cardinality(spent) \in Nat /\ Threshold \in Nat
  BY SlotSets, ThresholdAssumption
<1> QED BY <1>2, <1>5, <1>6, <1>7, <1>8

\* Handing over a slot spends it, and every slot spent before has failed.
LEMMA ExecuteSpends ==
    ASSUME TypeOK, ControlInv, BackedInv, NEW p \in Controllers, BudgetOf(p), Execute(p)
    PROVE  Cardinality(Spent') <= Threshold
<1>1. /\ pc[p] = "execute"
      /\ dispatches' = [dispatches EXCEPT ![idx[p]] = @ + 1]
      /\ evidence' = evidence
  BY DEF Execute, Invoke
<1>2. \A s \in Spent' \ {idx[p]} : s \in Spent
  BY <1>1 DEF Spent, TypeOK
<1>3. Spent' \subseteq Slots
  BY DEF Spent
<1> QED BY <1>1, <1>2, <1>3, BusySpends

\* A step of the executor may take back what it has sealed itself.
LEMMA ExecutorSpends ==
    ASSUME TypeOK, ControlInv, BackedInv, NEW p \in Controllers, BudgetOf(p), ExecutorStep(p)
    PROVE  Cardinality(Spent') <= Threshold
<1>1. /\ pc[p] = "await"
      /\ dispatches' = dispatches
      /\ \A s \in Slots \ {idx[p]} : evidence'[s] = evidence[s]
  BY OwnSlotOnly
<1>2. \A s \in Spent' \ {idx[p]} : s \in Spent
  BY <1>1 DEF Spent
<1>3. Spent' \subseteq Slots
  BY DEF Spent
<1> QED BY <1>1, <1>2, <1>3, BusySpends

\* No other step spends anything; a completed attempt gives a slot back.
LEMMA OthersSpendNothing ==
    ASSUME TypeOK, OwnerInv, FailureBudget, [Next]_vars, dispatches' = dispatches,
           \A p \in Controllers : ~ExecutorStep(p)
    PROVE  FailureBudget'
<1>1. Spent' \subseteq Spent
  BY BacksKept DEF Spent
<1>2. Cardinality(Spent) <= Threshold /\ Spent \subseteq Slots
  BY DEF FailureBudget, Spent
<1>3. /\ IsFiniteSet(Spent) /\ Cardinality(Spent) \in Nat
      /\ Cardinality(Spent') \in Nat
  BY <1>1, <1>2, SlotSets
<1>4. Cardinality(Spent') <= Cardinality(Spent)
  BY <1>1, <1>3, FS_Subset
<1>5. Threshold \in Nat
  BY ThresholdAssumption
<1>6. Cardinality(Spent') <= Threshold
  BY <1>2, <1>3, <1>4, <1>5
<1> QED BY <1>6 DEF FailureBudget, Spent

LEMMA BudgetStep ==
    ASSUME TypeOK, ControlInv, BackedInv, BudgetInv, [Next]_vars
    PROVE  BudgetInv'
<1>1. FailureBudget'
  <2>1. CASE \E p \in Controllers : Execute(p)
    BY <2>1, ExecuteSpends DEF BudgetInv, FailureBudget, Spent
  <2>2. CASE \E p \in Controllers : ExecutorStep(p)
    BY <2>2, ExecutorSpends DEF BudgetInv, FailureBudget, Spent
  <2>3. CASE \A p \in Controllers : ~Execute(p) /\ ~ExecutorStep(p)
    <3>1. dispatches' = dispatches
      BY <2>3, HandsOverNothing DEF Next, DirectStep, CloseWindow, vars, frame
    <3> QED BY <2>3, <3>1, OthersSpendNothing DEF BudgetInv, BackedInv
  <2> QED BY <2>1, <2>2, <2>3
<1>2. ASSUME NEW p \in Controllers, Start(p) \/ Continue(p) \/ CtrlC(p) \/ Die(p),
             NEW q \in Controllers
      PROVE  BudgetOf(q)'
  <2>1. CASE q = p
    BY <1>2, <2>1, BudgetKept DEF BudgetInv
  <2>2. CASE q # p
    <3>1. UNCHANGED <<pc[q], mem[q], pend[q]>>
      BY <1>2, <2>2, Locality
    <3> QED BY <3>1 DEF BudgetInv, BudgetOf, Busy, Starting, Recording
  <2> QED BY <2>1, <2>2
<1>3. ASSUME UNCHANGED <<pc, mem, pend>>, NEW q \in Controllers
      PROVE  BudgetOf(q)'
  BY <1>3 DEF BudgetInv, BudgetOf, Busy, Starting, Recording
<1>4. (\E r \in Directs : DirectStep(r)) \/ CloseWindow \/ UNCHANGED vars
        => UNCHANGED <<pc, mem, pend>>
  BY DEF DirectStep, CloseWindow, vars, memory
<1> QED BY <1>1, <1>2, <1>3, <1>4 DEF Next, BudgetInv

\* limits.failure_stop_threshold bounds the attempts a campaign can spend without
\* a completed slot to show for, over all controllers, deaths and restarts.
THEOREM FailureBudgetCorrect == Spec => []FailureBudget
<1>1. Init => BackedInv /\ BudgetInv
  BY BackedInit, BudgetInit
<1>2. TypeOK /\ ControlInv /\ BackedInv /\ BudgetInv /\ [Next]_vars => BackedInv' /\ BudgetInv'
  BY BackedStep, BudgetStep
<1>3. BudgetInv => FailureBudget
  BY DEF BudgetInv
<1> QED BY <1>1, <1>2, <1>3, TypeCorrect, ControlCorrect, PTL DEF Spec


-----------------------------------------------------------------------------
(***************************************************************************)
(* The campaign keeps its promise: Nightwatch implements CampaignPromise.  *)
(* Whatever the lock holder has in memory may be published over the ledger *)
(* (AheadOf), so the two steps that replace the snapshot are Publish steps, *)
(* Execute is a Give step, and the sealing of an attempt is a Seal step or *)
(* is not seen.                                                            *)
(***************************************************************************)

\* What an attempt has shown stays, also when it is taken back.
LEMMA ShownResultKept ==
    ASSUME RunTypeOK, Kept, NEW s \in Slots, ShownResult(evidence[s]) \in Results
    PROVE  ShownResult(evidence'[s]) = ShownResult(evidence[s])
<1>1. evidence[s].stage \in {"sealed", "spoiled"}
  BY DEF ShownResult, Results, Failures, Success
<1>2. \/ evidence'[s] = evidence[s]
      \/ evidence'[s] = [evidence[s] EXCEPT !.stage = "spoiled"]
  BY <1>1 DEF Kept
<1>3. CASE evidence'[s] = [evidence[s] EXCEPT !.stage = "spoiled"]
  <2>1. evidence[s] \in Evidence
    BY DEF RunTypeOK
  <2>2. /\ evidence'[s].stage = "spoiled"
        /\ evidence'[s].bound = evidence[s].bound
        /\ evidence'[s].status = evidence[s].status
        /\ evidence'[s].attested = evidence[s].attested
    BY <1>3, <2>1 DEF Evidence
  <2> QED BY <1>1, <2>2 DEF ShownResult
<1> QED BY <1>2, <1>3

LEMMA ReconciledShown ==
    ASSUME NEW e, NEW status, NEW sound, Reconciled(status, e, sound) \in Results
    PROVE  ShownResult(e) = Reconciled(status, e, sound)
BY DEF Reconciled, SealedResult, Results, Failures, Success

LEMMA ShownResultType ==
    ASSUME NEW e \in Evidence
    PROVE  ShownResult(e) \in Results \cup {"none"}
BY DEF ShownResult, Evidence

LEMMA PromiseOperators ==
    /\ Promise!Slots = Slots
    /\ Promise!Results = Results
    /\ \A o : Promise!Failed(o) = FailedSlots(o)
    /\ \A S : Promise!Cardinality(S) = Cardinality(S)
BY DEF Promise!Cardinality, Cardinality, Promise!Slots, Slots, Promise!Results, Results, Promise!Failures, Failures,
   Promise!Success, Success, Promise!Failed, FailedSlots

\* The step of the controller that holds the lock.
LEMMA AheadStep ==
    ASSUME TypeOK, TypeOK', ControlInv, BackedInv, Kept, BudgetInv, PromiseInv,
           NEW p \in Controllers, pc[p] \in Inside, Continue(p) \/ CtrlC(p)
    PROVE  AheadOf(p)'
<1> USE DEF TypeOK, Loaded, Inside, Goto
<1>1. /\ Own(p) /\ AheadOf(p)
      /\ mem[p] \in Ledgers /\ ledger \in Ledgers
      /\ idx[p] \in 1..(N + 1)
  BY DEF ControlInv, PromiseInv
<1>3. ASSUME ledger' = ledger, pc[p] \in Loaded, mem'[p].slots = mem[p].slots
      PROVE  \A s \in Slots : Promise!MayBecome(s, mem[p].slots)'
  <2> SUFFICES ASSUME NEW s \in Slots
               PROVE  Promise!MayBecome(s, mem[p].slots)'
    OBVIOUS
  <2>1. Promise!MayBecome(s, mem[p].slots)
    BY <1>1, <1>3 DEF AheadOf
  <2> QED BY <1>3, <2>1, ShownResultKept, PromiseOperators
          DEF Promise!MayBecome, Promise!MayStart
<1>4. ASSUME pc'[p] \notin Loaded
      PROVE  AheadOf(p)'
  BY <1>4 DEF AheadOf, UpToDate, Recording
<1>5. CASE LoadRefused(p) \/ Leave(p)
  BY <1>4, <1>5 DEF LoadRefused, Leave, Forget, disk
<1>6. CASE LoadState(p)
  <2>1. /\ pc'[p] = "reconcile" /\ mem'[p] = Replayed
        /\ ledger' = ledger /\ events' = events
        /\ dirty'[p] <=> (~created \/ ledger.seq < Len(events))
    BY <1>6 DEF LoadState, disk
  <2>2. \A s \in Slots : Replayed.slots[s] = IF EndedUnpublished(s) THEN "manual_review"
                                             ELSE ledger.slots[s]
    BY <1>1 DEF Replayed, Ledgers
  <2>3. \A s \in Slots : Promise!MayBecome(s, mem[p].slots)'
    BY <1>1, <2>1, <2>2 DEF Promise!MayBecome
  <2>4. ~dirty'[p] => mem'[p].slots = ledger'.slots
    <3>1. ASSUME ~dirty'[p], NEW s \in Slots
          PROVE  ~EndedUnpublished(s)
      BY <1>1, <2>1, <3>1 DEF EndedUnpublished, Ledgers
    <3>2. Replayed.slots \in [Slots -> SlotStatuses] /\ ledger.slots \in [Slots -> SlotStatuses]
      BY ReplayedType DEF Ledgers
    <3> QED BY <2>1, <2>2, <3>1, <3>2
  <2>5. \A s \in Slots : Replayed.slots[s] = "running" => ledger.slots[s] = "running"
    BY <2>2
  <2> QED BY <2>1, <2>3, <2>4, <2>5 DEF AheadOf, UpToDate, Recording
<1>7. CASE ReconcileSlot(p)
  <2>p. PICK sound, recategorised \in BOOLEAN :
          /\ SetSlot(p, idx[p], Reconciled(mem[p].slots[idx[p]], evidence[idx[p]], sound))
          /\ dirty' = [dirty EXCEPT ![p] =
                 @ \/ Reconciled(mem[p].slots[idx[p]], evidence[idx[p]], sound) # mem[p].slots[idx[p]]
                   \/ (recategorised
                        /\ Reconciled(mem[p].slots[idx[p]], evidence[idx[p]], sound) = "manual_review")]
    BY <1>7 DEF ReconcileSlot
  <2> DEFINE i   == idx[p]
             new == Reconciled(mem[p].slots[i], evidence[i], sound)
  <2>1. /\ i \in Slots
        /\ pc[p] = "reconcile" /\ pc'[p] = "reconcile"
        /\ mem'[p].slots = [mem[p].slots EXCEPT ![i] = new]
        /\ ledger' = ledger /\ evidence' = evidence
    <3>1. pc[p] = "reconcile" /\ idx[p] <= N /\ UNCHANGED <<runVars, disk, pc>>
      BY <1>7 DEF ReconcileSlot
    <3>2. mem' = [mem EXCEPT ![p].slots[i] = new]
      BY <2>p DEF SetSlot
    <3> HIDE DEF new
    <3>3. mem'[p].slots = [mem[p].slots EXCEPT ![i] = new]
      BY <1>1, <3>2 DEF Ledgers
    <3> QED BY <1>1, <3>1, <3>3 DEF disk, Slots, runVars
  <2>9. ~dirty'[p] => ~dirty[p] /\ new = mem[p].slots[i]
    <3>1. dirty' = [dirty EXCEPT ![p] = @ \/ new # mem[p].slots[i]
                                          \/ (recategorised /\ new = "manual_review")]
      BY <2>p
    <3> HIDE DEF new, i
    <3>2. dirty'[p] <=> (dirty[p] \/ new # mem[p].slots[i]
                                  \/ (recategorised /\ new = "manual_review"))
      BY <3>1, Zenon
    <3> QED BY <3>2
  <2>2. mem[p].slots \in [Slots -> SlotStatuses]
    BY <1>1 DEF Ledgers
  <2>3. /\ \A s \in Slots : Promise!MayBecome(s, mem[p].slots)
        /\ \A s \in Slots : mem[p].slots[s] = "running" => ledger.slots[s] = "running"
    BY <1>1, <2>1 DEF AheadOf
  <2>4. \/ new = mem[p].slots[i]
        \/ new = "manual_review"
        \/ new \in Results /\ ShownResult(evidence[i]) = new
    <3>1. new \in Results => ShownResult(evidence[i]) = new
      BY ReconciledShown
    <3>2. SealedResult(evidence[i]) \in Results \cup {"none"}
      BY <2>1, SealedResultType DEF RunTypeOK
    <3> QED BY <3>1, <3>2 DEF Reconciled
  <2>6. ASSUME NEW s \in Slots
        PROVE  Promise!MayBecome(s, mem[p].slots)'
    <3>1. CASE s # i
      <4>1. mem'[p].slots[s] = mem[p].slots[s]
        BY <2>1, <2>2, <3>1
      <4> QED BY <2>1, <2>3, <3>1, <4>1 DEF Promise!MayBecome
    <3>2. CASE s = i
      <4>1. mem'[p].slots[s] = new
        BY <2>1, <2>2, <3>2
      <4> HIDE DEF new
      <4>3. CASE new = mem[p].slots[i]
        BY <2>1, <2>3, <3>2, <4>1, <4>3 DEF Promise!MayBecome
      <4>4. CASE new = "manual_review"
        BY <4>1, <4>4 DEF Promise!MayBecome
      <4>5. CASE new \in Results /\ ShownResult(evidence[i]) = new
        BY <2>1, <3>2, <4>1, <4>5, PromiseOperators DEF Promise!MayBecome
      <4> QED BY <2>4, <4>3, <4>4, <4>5
    <3> QED BY <3>1, <3>2
  <2>7. ~dirty'[p] => mem'[p].slots = ledger'.slots
    BY <1>1, <2>1, <2>2, <2>9 DEF AheadOf, UpToDate
  <2>8. \A s \in Slots : mem'[p].slots[s] = "running" => ledger'.slots[s] = "running"
    BY <2>1, <2>2, <2>3, <2>4 DEF Results, Failures, Success
  <2> QED BY <2>1, <2>6, <2>7, <2>8 DEF AheadOf, UpToDate, Recording
<1>8. CASE FinishReconcile(p)
  <2>1. /\ pc[p] = "reconcile" /\ pc'[p] \in {"announce", "create"}
        /\ mem'[p].slots = mem[p].slots /\ ledger' = ledger
        /\ ~dirty'[p] => ~dirty[p]
    BY <1>1, <1>8 DEF FinishReconcile, Ledgers, disk
  <2> QED BY <1>1, <1>3, <2>1 DEF AheadOf, UpToDate, Recording
<1>9. CASE CreateLedger(p) \/ PublishLedger(p)
  <2>1. pc'[p] # "reconcile" /\ ledger' = mem[p] /\ mem' = mem
    BY <1>9 DEF CreateLedger, PublishLedger, AfterRecord, Pending, SlotEvents, CampaignEvents, memory
  <2> QED BY <2>1 DEF AheadOf, Promise!MayBecome
<1>10. CASE Announce(p)
  <2>1. /\ pc[p] = "announce" /\ pc'[p] \in {"append", "select"}
        /\ mem' = mem /\ ledger' = ledger
        /\ pc'[p] = "append" => pend'[p].event # "campaign_cycle_completed"
        /\ pc'[p] = "select" => ~dirty[p]
    BY <1>10 DEF Announce, Record, disk
  <2> QED BY <1>1, <1>3, <2>1 DEF AheadOf, UpToDate, Recording
<1>11. CASE AppendEvent(p)
  <2>1. /\ pc[p] = "append" /\ pc'[p] = "publish"
        /\ mem'[p].slots = mem[p].slots /\ ledger' = ledger /\ pend' = pend
    BY <1>1, <1>11 DEF AppendEvent, Ledgers
  <2> QED BY <1>1, <1>3, <2>1 DEF AheadOf, UpToDate, Recording
<1>13. CASE \/ EndCycle(p) \/ SkipTerminal(p) \/ WindowExpired(p) \/ Finish(p)
            \/ Execute(p) \/ ExecutorStep(p) \/ CtrlC(p)
  <2>1. /\ mem'[p] = mem[p] /\ ledger' = ledger
        /\ pc[p] \in Loaded
        /\ pc'[p] \notin {"reconcile", "announce"}
        /\ pc'[p] \in {"select", "final"} => pc[p] = "select"
        /\ Recording(p)' /\ pend'[p].event = "campaign_cycle_completed" => pc[p] = "final"
    <3>1. CASE Finish(p)
      BY <3>1 DEF Finish, Record, Recording, disk
    <3>2. CASE \/ EndCycle(p) \/ SkipTerminal(p) \/ WindowExpired(p)
               \/ Execute(p) \/ ExecutorStep(p) \/ CtrlC(p)
      BY <3>2 DEF EndCycle, SkipTerminal, WindowExpired, Execute, ExecutorStep, CtrlC,
         AtSlot, Recording, disk, memory
    <3> QED BY <1>13, <3>1, <3>2
  <2> QED BY <1>1, <1>3, <2>1 DEF AheadOf, UpToDate, Recording
<1>14. CASE DriftFound(p)
  <2>1. /\ pc[p] = "select" /\ pc'[p] = "append"
        /\ idx[p] \in Slots /\ idx' = idx
        /\ mem[p].slots[idx[p]] = "pending"
        /\ mem'[p].slots = [mem[p].slots EXCEPT ![idx[p]] = "manual_review"]
        /\ ledger' = ledger /\ pend'[p].event = "slot_requires_manual_review"
    BY <1>1, <1>14 DEF DriftFound, AtSlot, SetSlot, Record, Ledgers, disk, Slots
  <2>2. mem[p].slots \in [Slots -> SlotStatuses] /\ mem[p].slots = ledger.slots
    BY <1>1, <2>1 DEF Ledgers, AheadOf, UpToDate
  <2>3. \A s \in Slots : Promise!MayBecome(s, mem[p].slots)'
    BY <2>1, <2>2 DEF Promise!MayBecome
  <2> QED BY <2>1, <2>3 DEF AheadOf, UpToDate, Recording
<1>15. CASE StartSlot(p)
  <2>1. /\ pc[p] = "select" /\ pc'[p] = "append"
        /\ idx[p] \in Slots
        /\ mem[p].slots[idx[p]] = "pending"
        /\ mem'[p].slots = [mem[p].slots EXCEPT ![idx[p]] = "running"]
        /\ ledger' = ledger
        /\ pend'[p].event = "slot_started"
        /\ idx' = idx
    BY <1>1, <1>15 DEF StartSlot, AtSlot, SetSlot, Record, Ledgers, disk, Slots
  <2>2. mem[p].slots \in [Slots -> SlotStatuses] /\ mem[p].slots = ledger.slots
    BY <1>1, <2>1 DEF Ledgers, AheadOf, UpToDate
  <2>3. BudgetOf(p)'
    BY <1>15, StartBudget, <1>1
  <2>4. Starting(p)' /\ Busy(p)'
    BY <2>1 DEF Starting, Recording, Busy
  <2>5. Promise!MayStart(mem[p].slots, idx[p])'
    <3>1. Own(p)'
      BY HolderStep DEF ControlInv
    <3>2. \A j \in 1..(idx[p] - 1) : mem'[p].slots[j] \in Results
      <4>1. \A j \in Slots : j < idx'[p] => mem'[p].slots[j] \in Results
        BY <2>4, <3>1 DEF Own, BusyOf
      <4>2. idx'[p] \in 1..N /\ idx'[p] = idx[p]
        BY <2>1 DEF Slots
      <4> QED BY <4>1, <4>2, NAssumption DEF Slots
    <3>3. /\ \A j \in Slots : mem'[p].slots[j] # "manual_review"
          /\ Cardinality(FailedSlots(mem'[p].slots)) < Threshold
      BY <2>3, <2>4 DEF BudgetOf
    <3>4. idx'[p] = idx[p]
      BY <2>1
    <3>5. \A j \in 1..(idx[p] - 1) : mem'[p].slots[j] \in Promise!Results
      BY <3>2, PromiseOperators
    <3>6. Cardinality(Promise!Failed(mem'[p].slots)) < Threshold
      BY <3>3, PromiseOperators
    <3> QED BY <3>3, <3>4, <3>5, <3>6, PromiseOperators DEF Promise!MayStart
  <2>6. \A s \in Slots : Promise!MayBecome(s, mem[p].slots)'
    BY <2>1, <2>2, <2>5 DEF Promise!MayBecome
  <2> QED BY <2>1, <2>6 DEF AheadOf, UpToDate, Recording
<1>16. CASE Conclude(p)
  <2>p. PICK sound \in BOOLEAN :
          LET found  == Reconciled(mem[p].slots[idx[p]], evidence[idx[p]], sound)
              status == IF found \in Results THEN found ELSE "manual_review"
          IN  SetSlot(p, idx[p], status) /\ Record(p, "slot_finished", idx[p], status)
    BY <1>16 DEF Conclude
  <2> DEFINE i     == idx[p]
             found == Reconciled(mem[p].slots[i], evidence[i], sound)
             new   == IF found \in Results THEN found ELSE "manual_review"
  <2>1. /\ pc[p] = "await" /\ pc'[p] = "append"
        /\ i \in Slots
        /\ mem'[p].slots = [mem[p].slots EXCEPT ![i] = new]
        /\ pend'[p].event = "slot_finished"
        /\ ledger' = ledger /\ evidence' = evidence
    BY <1>1, <1>16, <2>p DEF Conclude, SetSlot, Record, Ledgers, disk, Own, IdxOf, runVars
  <2>2. mem[p].slots \in [Slots -> SlotStatuses] /\ mem[p].slots = ledger.slots
    BY <1>1, <2>1 DEF Ledgers, Own, BusyOf, Busy
  <2>3. new = "manual_review" \/ (new \in Results /\ ShownResult(evidence[i]) = new)
    BY ReconciledShown
  <2> HIDE DEF new
  <2>4. \A s \in Slots : Promise!MayBecome(s, mem[p].slots)'
    BY <2>1, <2>2, <2>3, PromiseOperators DEF Promise!MayBecome, Results, Failures, Success
  <2> QED BY <2>1, <2>4 DEF AheadOf, UpToDate, Recording
<1>17. CASE AcquireLock(p) \/ LockBusy(p)
  BY <1>17 DEF AcquireLock, LockBusy
<1> QED BY <1>5, <1>6, <1>7, <1>8, <1>9, <1>10, <1>11, <1>13, <1>14, <1>15, <1>16,
        <1>17 DEF Continue

LEMMA PromiseInit == Init => PromiseInv
BY DEF Init, PromiseInv, AheadOf, UpToDate, Recording, Loaded, Inside, Pcs

LEMMA PromiseStep ==
    ASSUME TypeOK, TypeOK', ControlInv, BackedInv, Kept, BudgetInv, PromiseInv, [Next]_vars
    PROVE  PromiseInv'
<1>1. (\A q \in Controllers : AheadOf(q)) /\ LockInv /\ RunTypeOK
  BY DEF PromiseInv, ControlInv, TypeOK
<1>3. ASSUME NEW q \in Controllers, pc'[q] \notin Loaded
      PROVE  AheadOf(q)'
  BY <1>3 DEF AheadOf, UpToDate, Recording, Loaded, Inside, Pcs
<1>4. ASSUME NEW q \in Controllers, ledger' = ledger,
             UNCHANGED <<pc[q], mem[q], idx[q], dirty[q], pend[q]>>
      PROVE  AheadOf(q)'
  <2>1. AheadOf(q)
    BY <1>1
  <2>2. ASSUME NEW s \in Slots, Promise!MayBecome(s, mem[q].slots)
        PROVE  Promise!MayBecome(s, mem[q].slots)'
    BY <1>1, <1>4, <2>2, ShownResultKept, PromiseOperators DEF Promise!MayBecome, Promise!MayStart
  <2> QED BY <1>4, <2>1, <2>2 DEF AheadOf, UpToDate, Recording
<1>5. ASSUME NEW p \in Controllers, pc[p] \in Inside, Continue(p) \/ CtrlC(p)
      PROVE  PromiseInv'
  <2>1. AheadOf(p)'
    BY <1>5, AheadStep
  <2>2. ASSUME NEW q \in Controllers \ {p}
        PROVE  AheadOf(q)'
    <3>1. pc'[q] \notin Inside
      BY <1>1, <1>5, OthersOutside, Locality
    <3> QED BY <1>3, <3>1 DEF Loaded
  <2> QED BY <2>1, <2>2 DEF PromiseInv
<1>6. ASSUME NEW p \in Controllers, Start(p) \/ AcquireLock(p) \/ LockBusy(p) \/ Die(p)
      PROVE  PromiseInv'
  <2>1. /\ ledger' = ledger
        /\ pc'[p] \in {"off", "lock", "load"}
    BY <1>6 DEF Start, AcquireLock, LockBusy, Die, Forget, Goto, disk, TypeOK
  <2>2. AheadOf(p)'
    BY <1>3, <2>1 DEF Loaded, Inside
  <2>3. ASSUME NEW q \in Controllers \ {p}
        PROVE  AheadOf(q)'
    <3>1. UNCHANGED <<pc[q], mem[q], idx[q], dirty[q], pend[q]>>
      BY <1>6, Locality DEF Continue
    <3> QED BY <1>4, <2>1, <3>1
  <2> QED BY <2>2, <2>3 DEF PromiseInv
<1>7. ASSUME UNCHANGED <<disk, pc, memory>>
      PROVE  PromiseInv'
  BY <1>4, <1>7 DEF disk, memory, PromiseInv
<1>8. ASSUME NEW r \in Directs, DirectStep(r)
      PROVE  PromiseInv'
  BY <1>7, <1>8 DEF DirectStep
<1>9. ASSUME CloseWindow \/ UNCHANGED vars
      PROVE  PromiseInv'
  BY <1>7, <1>9 DEF CloseWindow, vars
<1> QED BY <1>5, <1>6, <1>8, <1>9, OutsideStep DEF Next

\* Whoever seals an attempt, the slot had shown no result before; and taking an attempt back
\* leaves what it has shown.
LEMMA SealingStep ==
    ASSUME RunTypeOK, OwnerInv, NEW r \in Runners, RunnerStep(r), RunTypeOK'
    PROVE  \E s \in Slots :
             /\ \A t \in Slots \ {s} : ShownResult(evidence'[t]) = ShownResult(evidence[t])
             /\ \/ ShownResult(evidence'[s]) = ShownResult(evidence[s])
                \/ /\ ShownResult(evidence[s]) = "none"
                   /\ ShownResult(evidence'[s]) \in Results
<1> DEFINE s == call[r].slot
<1>1. s \in Slots
  BY DEF RunTypeOK, Calls
<1>2. /\ \A t \in Slots \ {s} : evidence'[t] = evidence[t]
      /\ \/ evidence'[s] = evidence[s]
         \/ evidence[s].stage \notin {"sealed", "spoiled"}
         \/ /\ evidence[s].stage = "sealed"
            /\ evidence'[s] = [evidence[s] EXCEPT !.stage = "spoiled"]
  BY StepEffect
<1>3. evidence[s].stage \notin {"sealed", "spoiled"} => ShownResult(evidence[s]) = "none"
  BY DEF ShownResult
<1>4. evidence[s] \in Evidence /\ evidence'[s] \in Evidence
  BY <1>1 DEF RunTypeOK
<1>5. ShownResult(evidence'[s]) \in Results \cup {"none"}
  BY <1>4, ShownResultType
<1>6. ASSUME evidence[s].stage = "sealed", evidence'[s] = [evidence[s] EXCEPT !.stage = "spoiled"]
      PROVE  ShownResult(evidence'[s]) = ShownResult(evidence[s])
  <2>1. /\ evidence'[s].stage = "spoiled"
        /\ evidence'[s].bound = evidence[s].bound
        /\ evidence'[s].status = evidence[s].status
        /\ evidence'[s].attested = evidence[s].attested
    BY <1>4, <1>6 DEF Evidence
  <2> QED BY <1>6, <2>1 DEF ShownResult
<1> QED BY <1>1, <1>2, <1>3, <1>5, <1>6

LEMMA PromiseVarsInit == Init => Promise!Init
BY PromiseOperators, StrayDirsAssumption
   DEF Init, RunInit, Blank, NewLedger, ShownResult, Promise!Init

\* Every step is a step of the promise, or is not seen by it.
LEMMA PromiseRefined ==
    ASSUME TypeOK, TypeOK', ControlInv, BackedInv, PromiseInv, [Next]_vars
    PROVE  [Promise!Next]_(Promise!promiseVars)
<1> DEFINE sealed == [s \in Slots |-> ShownResult(evidence[s])]
           given  == {s \in Slots : dispatches[s] > 0}
<1>1. ASSUME UNCHANGED <<evidence, ledger, dispatches>>
      PROVE  UNCHANGED Promise!promiseVars
  BY <1>1 DEF Promise!promiseVars
<1>2. ASSUME NEW p \in Controllers, CreateLedger(p) \/ PublishLedger(p)
      PROVE  Promise!Publish
  <2>1. /\ pc[p] \in Loaded /\ ledger' = mem[p]
        /\ evidence' = evidence /\ dispatches' = dispatches
    BY <1>2 DEF CreateLedger, PublishLedger, Loaded, Inside, Pcs, runVars, frame
  <2>2. \A s \in Slots : Promise!MayBecome(s, ledger'.slots)
    BY <2>1 DEF PromiseInv, AheadOf
  <2>3. ledger'.slots \in [Slots -> {"pending", "running", "manual_review"} \cup Results]
    BY DEF TypeOK, Ledgers, SlotStatuses, Terminal
  <2> QED BY <2>1, <2>2, <2>3, PromiseOperators DEF Promise!Publish
<1>3. ASSUME NEW p \in Controllers, Execute(p)
      PROVE  \E s \in Slots : Promise!Give(s)
  <2>1. /\ pc[p] = "execute" /\ idx[p] \in Slots
        /\ dispatches' = [dispatches EXCEPT ![idx[p]] = @ + 1]
        /\ ledger' = ledger /\ evidence' = evidence
    BY <1>3 DEF Execute, Invoke, ControlInv, Own, IdxOf, disk
  <2>2. PICK i \in Slots : i = idx[p]
    BY <2>1
  <2>3. ledger.slots[i] = "running" /\ dispatches[i] = 0
    BY <2>1, <2>2 DEF ControlInv, Own, BusyOf, Busy, DispatchOf
  <2>4. {s \in Slots : dispatches'[s] > 0} = {s \in Slots : dispatches[s] > 0} \cup {i}
    BY <2>1, <2>2, <2>3 DEF TypeOK
  <2>5. Promise!Give(i)
    BY <2>1, <2>3, <2>4 DEF Promise!Give
  <2> QED BY <2>5
<1>4. ASSUME NEW r \in Runners, RunnerStep(r), ledger' = ledger, dispatches' = dispatches
      PROVE  UNCHANGED Promise!promiseVars \/ \E s \in Slots : Promise!Seal(s)
  <2>1. RunTypeOK /\ RunTypeOK' /\ OwnerInv
    BY DEF TypeOK, BackedInv
  <2>2. PICK s \in Slots :
          /\ \A t \in Slots \ {s} : ShownResult(evidence'[t]) = ShownResult(evidence[t])
          /\ \/ ShownResult(evidence'[s]) = ShownResult(evidence[s])
             \/ /\ ShownResult(evidence[s]) = "none"
                /\ ShownResult(evidence'[s]) \in Results
    BY <1>4, <2>1, SealingStep
  <2>3. CASE ShownResult(evidence'[s]) = ShownResult(evidence[s])
    <3>1. sealed' = sealed
      BY <2>2, <2>3
    <3> QED BY <1>4, <3>1 DEF Promise!promiseVars
  <2>4. CASE /\ ShownResult(evidence[s]) = "none"
             /\ ShownResult(evidence'[s]) \in Results
    <3>1. sealed' = [sealed EXCEPT ![s] = ShownResult(evidence'[s])] /\ sealed[s] = "none"
      BY <2>2, <2>4
    <3> QED BY <1>4, <2>4, <3>1, PromiseOperators DEF Promise!Seal
  <2> QED BY <2>2, <2>3, <2>4
<1>5. ASSUME NEW p \in Controllers, Start(p) \/ Continue(p) \/ CtrlC(p) \/ Die(p),
             ~(CreateLedger(p) \/ PublishLedger(p) \/ Execute(p))
      PROVE  /\ ledger' = ledger /\ dispatches' = dispatches
             /\ UNCHANGED evidence \/ RunnerStep(p)
  <2>1. ledger' = ledger
    BY <1>5 DEF Start, Continue, AcquireLock, LockBusy, LoadRefused, LoadState, ReconcileSlot,
       FinishReconcile, Announce, AppendEvent, EndCycle, SkipTerminal, WindowExpired,
       DriftFound, StartSlot, ExecutorStep, CtrlC, Conclude, Finish, Leave, Die, disk
  <2>2. dispatches' = dispatches
    BY <1>5, HandsOverNothing
  <2>3. UNCHANGED evidence \/ RunnerStep(p)
    BY <1>5 DEF Start, Continue, AcquireLock, LockBusy, LoadRefused, LoadState, ReconcileSlot,
       FinishReconcile, Announce, AppendEvent, EndCycle, SkipTerminal, WindowExpired,
       DriftFound, StartSlot, ExecutorStep, CtrlC, AbsorbInterrupt, EndWork, Conclude, Finish,
       Leave, Die, runVars, RunnerStep
  <2> QED BY <2>1, <2>2, <2>3
<1>6. ASSUME NEW r \in Directs, DirectStep(r)
      PROVE  RunnerStep(r) /\ ledger' = ledger /\ dispatches' = dispatches
  BY <1>6 DEF DirectStep, CallEnds, Killed, RunnerStep, disk, frame
<1>7. ASSUME CloseWindow \/ UNCHANGED vars
      PROVE  UNCHANGED <<evidence, ledger, dispatches>>
  BY <1>7 DEF CloseWindow, vars, runVars, disk, frame
<1>8. Controllers \subseteq Runners /\ Directs \subseteq Runners
  BY DEF Directs
<1>9. CASE \E p \in Controllers : Start(p) \/ Continue(p) \/ CtrlC(p) \/ Die(p)
  <2>1. PICK p \in Controllers : Start(p) \/ Continue(p) \/ CtrlC(p) \/ Die(p)
    BY <1>9
  <2>2. CASE CreateLedger(p) \/ PublishLedger(p)
    BY <1>2, <2>2 DEF Promise!Next
  <2>3. CASE Execute(p)
    BY <1>3, <2>3, PromiseOperators DEF Promise!Next
  <2>4. CASE ~(CreateLedger(p) \/ PublishLedger(p) \/ Execute(p))
    BY <1>1, <1>4, <1>5, <1>8, <2>1, <2>4, PromiseOperators DEF Promise!Next
  <2> QED BY <2>2, <2>3, <2>4
<1>10. CASE \E r \in Directs : DirectStep(r)
  BY <1>4, <1>6, <1>8, <1>10, PromiseOperators DEF Promise!Next
<1>11. CASE CloseWindow \/ UNCHANGED vars
  BY <1>1, <1>7, <1>11
<1> QED BY <1>9, <1>10, <1>11 DEF Next

\* The published ledger only ever moves as the no-retry rule allows, whatever
\* controllers, direct executor calls, deaths and restarts do: Nightwatch
\* implements CampaignPromise.
THEOREM KeepsPromiseCorrect == Spec => KeepsPromise
<1>1. Init => BackedInv /\ BudgetInv /\ PromiseInv /\ Promise!Init
  BY BackedInit, BudgetInit, PromiseInit, PromiseVarsInit
<1>2. /\ TypeOK /\ TypeOK' /\ ControlInv /\ BackedInv /\ BudgetInv /\ PromiseInv
      /\ [Next]_vars
      => /\ BackedInv' /\ BudgetInv' /\ PromiseInv'
         /\ [Promise!Next]_(Promise!promiseVars)
  BY BackedStep, BackedKept, BudgetStep, PromiseStep, PromiseRefined
<1> QED BY <1>1, <1>2, TypeCorrect, ControlCorrect, PTL DEF Spec, KeepsPromise, Promise!Spec

-----------------------------------------------------------------------------
(***************************************************************************)
(* The verdict.  A cycle completes with every slot at a result in memory   *)
(* and fewer failures than the threshold, and each result is backed by its *)
(* attempt.  No slot is open again afterwards (CycleInv), so no controller *)
(* calls the executor any more and what backs the verdict stays.           *)
(***************************************************************************)

\* Verdict(status) with the evidence of the next state.
VerdictNext(status) ==
    /\ \A s \in Slots : Backs(evidence'[s], evidence'[s].status)
    /\ status = Success => \A s \in Slots : evidence'[s].status = Success
    /\ Cardinality({s \in Slots : evidence'[s].status \in Failures}) < Threshold

LEMMA VerdictKept ==
    ASSUME TypeOK, OwnerInv, [Next]_vars, \A p \in Controllers : ~ExecutorStep(p),
           NEW status, Verdict(status)
    PROVE  VerdictNext(status)
<1>1. \A s \in Slots : Backs(evidence'[s], evidence[s].status)
  BY BacksKept DEF Verdict
<1>2. \A s \in Slots : evidence'[s].status = evidence[s].status
  BY <1>1 DEF Backs, Proves, Withdrawn
<1>3. {s \in Slots : evidence'[s].status \in Failures} = {s \in Slots : evidence[s].status \in Failures}
  BY <1>2
<1> QED BY <1>1, <1>2, <1>3 DEF Verdict, VerdictNext

LEMMA FinishVerdict ==
    ASSUME TypeOK, ControlInv, BackedInv, NEW p \in Controllers, Finish(p),
           pend'[p].event = "campaign_cycle_completed"
    PROVE  Verdict(pend'[p].status) /\ \A s \in Slots : mem'[p].slots[s] \in Terminal
<1> DEFINE slots == mem[p].slots
<1>1. /\ pc[p] = "final"
      /\ pend'[p].status = CampaignStatus(slots)
      /\ CampaignStatus(slots) \notin {"manual_review", "stopped"}
  BY DEF Finish, Record, TypeOK
<1>2. \A s \in Slots : slots[s] \in Terminal
  BY <1>1 DEF ControlInv, Own, LoopOf, Stopping
<1>3. \A s \in Slots : slots[s] # "manual_review"
  BY <1>1, NotStopping
<1>4. ASSUME NEW s \in Slots
      PROVE  slots[s] \in Results /\ Backs(evidence[s], slots[s])
  <2>1. slots[s] \in Results
    BY <1>2, <1>3 DEF Terminal
  <2> QED BY <1>1, <2>1 DEF BackedInv, BackedMemory, Backed, Loaded, Inside, Pcs
<1>5. \A s \in Slots : evidence[s].status = slots[s]
  BY <1>4 DEF Backs, Proves, Withdrawn
<1>6. CampaignStatus(slots) = Success => \A s \in Slots : slots[s] = Success
  BY <1>1, <1>2 DEF CampaignStatus, Success
<1>7. {s \in Slots : evidence[s].status \in Failures} = FailedSlots(slots)
  BY <1>5 DEF FailedSlots
<1>8. Cardinality(FailedSlots(slots)) < Threshold
  BY <1>1, NotStopping
<1>9. mem' = mem
  BY DEF Finish
<1>10. \A s \in Slots : Backs(evidence[s], evidence[s].status)
  BY <1>4, <1>5
<1> QED BY <1>1, <1>2, <1>5, <1>6, <1>7, <1>8, <1>9, <1>10 DEF Verdict

\* Only Finish begins to record the verdict.
LEMMA VerdictRecorded ==
    ASSUME TypeOK, NEW p \in Controllers,
           Start(p) \/ Continue(p) \/ CtrlC(p) \/ Die(p), ~Finish(p),
           Recording(p)', pend'[p].event = "campaign_cycle_completed"
    PROVE  Recording(p) /\ pend'[p] = pend[p]
<1> USE DEF TypeOK, Goto, Recording, Record
<1>1. CASE Announce(p) \/ DriftFound(p) \/ StartSlot(p) \/ Conclude(p)
  BY <1>1 DEF Announce, DriftFound, StartSlot, Conclude
<1>2. CASE AppendEvent(p)
  BY <1>2 DEF AppendEvent
<1>3. CASE PublishLedger(p)
  BY <1>3 DEF PublishLedger, AfterRecord, Pending, SlotEvents, CampaignEvents
<1>4. CASE \/ Start(p) \/ AcquireLock(p) \/ LockBusy(p) \/ LoadRefused(p) \/ LoadState(p)
           \/ ReconcileSlot(p) \/ FinishReconcile(p) \/ CreateLedger(p) \/ EndCycle(p)
           \/ SkipTerminal(p) \/ WindowExpired(p) \/ Execute(p) \/ ExecutorStep(p) \/ CtrlC(p)
           \/ Leave(p) \/ Die(p)
  BY <1>4 DEF Start, AcquireLock, LockBusy, LoadRefused, LoadState, ReconcileSlot,
     FinishReconcile, CreateLedger, EndCycle, SkipTerminal, WindowExpired, AtSlot, Execute,
     ExecutorStep, CtrlC, Leave, Die, Forget, memory
<1> QED BY <1>1, <1>2, <1>3, <1>4 DEF Continue

LEMMA VerdictInit == Init => VerdictInv
BY DEF Init, VerdictInv, VerdictTruthful, CycleInv, Recording

\* A ledger without an open slot has none after it is loaded and worked on.
LEMMA TerminalStep ==
    ASSUME TypeOK, ControlInv, NEW p \in Controllers,
           Start(p) \/ Continue(p) \/ CtrlC(p) \/ Die(p), pc'[p] \in Loaded,
           \A s \in Slots : ledger.slots[s] \in Terminal,
           pc[p] \in Loaded => \A s \in Slots : mem[p].slots[s] \in Terminal
    PROVE  \A s \in Slots : mem'[p].slots[s] \in Terminal
<1> USE DEF TypeOK, Loaded, Inside, Goto
<1> DEFINE Goal == \A s \in Slots : mem'[p].slots[s] \in Terminal
<1>0. /\ mem[p].slots \in [Slots -> SlotStatuses]
      /\ "pending" \notin Terminal /\ "manual_review" \in Terminal
  BY DEF Ledgers, Terminal, Results, Failures, Success
<1>1. ASSUME pc[p] \in Loaded, mem'[p].slots = mem[p].slots
      PROVE  Goal
  BY <1>1
<1>2. ASSUME NEW s \in Slots, NEW new, pc[p] \in Loaded, new \in Terminal,
             mem'[p].slots = [mem[p].slots EXCEPT ![s] = new]
      PROVE  Goal
  BY <1>0, <1>2
<1>3. CASE Start(p) \/ AcquireLock(p) \/ LockBusy(p) \/ LoadRefused(p) \/ Leave(p) \/ Die(p)
  BY <1>3 DEF Start, AcquireLock, LockBusy, LoadRefused, Leave, Die, Forget
<1>4. CASE LoadState(p)
  <2>1. mem'[p] = Replayed
    BY <1>4 DEF LoadState
  <2>2. \A s \in Slots : Replayed.slots[s] \in {ledger.slots[s], "manual_review"}
    BY DEF Replayed, Ledgers
  <2> QED BY <1>0, <2>1, <2>2
<1>5. CASE ReconcileSlot(p)
  <2>1. PICK sound \in BOOLEAN :
          SetSlot(p, idx[p], Reconciled(mem[p].slots[idx[p]], evidence[idx[p]], sound))
    BY <1>5 DEF ReconcileSlot
  <2> DEFINE s   == idx[p]
             new == Reconciled(mem[p].slots[s], evidence[s], sound)
  <2>2. s \in Slots /\ pc[p] \in Loaded
    BY <1>5 DEF ReconcileSlot, Slots
  <2>3. mem'[p].slots = [mem[p].slots EXCEPT ![s] = new]
    BY <2>1 DEF SetSlot, Ledgers
  <2>4. new \in Terminal
    <3>1. mem[p].slots[s] # "pending" /\ mem[p].slots[s] \in SlotStatuses
      BY <1>0, <2>2
    <3>2. evidence[s] \in Evidence
      BY <2>2 DEF RunTypeOK
    <3> QED BY <3>1, <3>2, ReconciledType
  <2> HIDE DEF new, s
  <2> QED BY <1>2, <2>2, <2>3, <2>4
<1>6. CASE FinishReconcile(p) \/ CreateLedger(p)
  BY <1>1, <1>6 DEF FinishReconcile, CreateLedger, memory, Ledgers
<1>7. CASE Announce(p) \/ Finish(p)
  BY <1>1, <1>7 DEF Announce, Finish, Record
<1>8. CASE AppendEvent(p)
  BY <1>1, <1>8 DEF AppendEvent, Ledgers
<1>9. CASE PublishLedger(p) \/ EndCycle(p) \/ SkipTerminal(p) \/ WindowExpired(p)
  BY <1>1, <1>9 DEF PublishLedger, EndCycle, SkipTerminal, WindowExpired, AtSlot, memory
<1>10. CASE Execute(p) \/ ExecutorStep(p) \/ CtrlC(p)
  BY <1>1, <1>10 DEF Execute, ExecutorStep, CtrlC, memory
<1>11. CASE DriftFound(p) \/ StartSlot(p)
  <2>1. idx[p] \in Slots /\ pc[p] \in Loaded /\ mem[p].slots[idx[p]] = "pending"
    BY <1>11 DEF DriftFound, StartSlot, AtSlot, Slots
  <2> QED BY <1>0, <2>1
<1>12. CASE Conclude(p)
  <2>1. idx[p] \in Slots /\ pc[p] \in Loaded
    BY <1>12 DEF Conclude, ControlInv, Own, IdxOf
  <2>2. PICK status \in Terminal : SetSlot(p, idx[p], status)
    BY <1>12, ConcludedStatus
  <2>3. mem'[p].slots = [mem[p].slots EXCEPT ![idx[p]] = status]
    BY <2>2 DEF SetSlot, Ledgers
  <2> QED BY <1>2, <2>1, <2>3
<1> QED BY <1>3, <1>4, <1>5, <1>6, <1>7, <1>8, <1>9, <1>10, <1>11, <1>12 DEF Continue

LEMMA CycleStep ==
    ASSUME TypeOK, ControlInv, PromiseInv, VerdictInv, [Next]_vars
    PROVE  CycleInv'
<1> DEFINE Completed == \E i \in 1..Len(events) : events[i].event = "campaign_cycle_completed"
           Closed(slots) == \A s \in Slots : slots[s] \in Terminal
<1>1. /\ Completed => Closed(ledger.slots)
      /\ \A q \in Controllers : Completed /\ pc[q] \in Loaded => Closed(mem[q].slots)
  BY DEF VerdictInv, CycleInv
<1>2. ASSUME NEW p \in Controllers, Start(p) \/ Continue(p) \/ CtrlC(p) \/ Die(p),
             Completed'
      PROVE  /\ Closed(ledger'.slots)
             /\ \A q \in Controllers : pc'[q] \in Loaded => Closed(mem'[q].slots)
  <2>1. /\ Closed(ledger.slots)
        /\ pc[p] \in Loaded => Closed(mem[p].slots)
        /\ \A q \in Controllers \ {p} : pc[q] \in Loaded => Closed(mem[q].slots)
    <3>1. CASE Completed
      BY <1>1, <3>1
    <3>2. CASE ~Completed
      <4>1. /\ pc[p] = "append"
            /\ events' = Append(events, [seq |-> mem[p].seq + 1, event |-> pend[p].event,
                                         slot |-> pend[p].slot, status |-> pend[p].status])
        BY <1>2, <3>2, PublishedStep
      <4>2. pend[p].event = "campaign_cycle_completed"
        <5>1. PICK i \in 1..Len(events') : events'[i].event = "campaign_cycle_completed"
          BY <1>2
        <5>2. /\ i <= Len(events) => i \in 1..Len(events) /\ events'[i] = events[i]
              /\ i > Len(events) => events'[i].event = pend[p].event
          BY <4>1, <5>1 DEF TypeOK
        <5> QED BY <3>2, <5>1, <5>2 DEF TypeOK
      <4>3. Closed(mem[p].slots) /\ mem[p].slots = ledger.slots
        BY <4>1, <4>2 DEF VerdictInv, PromiseInv, AheadOf, UpToDate, Recording
      <4>4. \A q \in Controllers \ {p} : pc[q] \notin Loaded
        BY <4>1, OthersOutside DEF ControlInv, Loaded, Inside, Pcs
      <4> QED BY <4>3, <4>4
    <3> QED BY <3>1, <3>2
  <2>2. Closed(ledger'.slots)
    BY <1>2, <2>1, PublishedStep
  <2>3. pc'[p] \in Loaded => Closed(mem'[p].slots)
    BY <1>2, <2>1, TerminalStep
  <2>4. \A q \in Controllers \ {p} : pc'[q] = pc[q] /\ mem'[q] = mem[q]
    BY <1>2, Locality
  <2> QED BY <2>1, <2>2, <2>3, <2>4
<1>3. CASE \E p \in Controllers : Start(p) \/ Continue(p) \/ CtrlC(p) \/ Die(p)
  BY <1>2, <1>3 DEF CycleInv, Loaded
<1>4. CASE (\E r \in Directs : DirectStep(r)) \/ CloseWindow \/ UNCHANGED vars
  <2>1. UNCHANGED <<ledger, events, pc, mem>>
    BY <1>4 DEF DirectStep, CloseWindow, vars, disk, memory
  <2> QED BY <1>1, <2>1 DEF CycleInv, Loaded
<1> QED BY <1>3, <1>4 DEF Next

LEMMA VerdictStep ==
    ASSUME TypeOK, ControlInv, BackedInv, PromiseInv, VerdictInv, [Next]_vars
    PROVE  VerdictInv'
<1>1. /\ \A i \in 1..Len(events) :
           events[i].event = "campaign_cycle_completed" => Verdict(events[i].status)
      /\ \A q \in Controllers :
           Recording(q) /\ pend[q].event = "campaign_cycle_completed" =>
             /\ Verdict(pend[q].status)
             /\ \A s \in Slots : mem[q].slots[s] \in Terminal
  BY DEF VerdictInv, VerdictTruthful, Verdict
<1>0. CycleInv' /\ OwnerInv
  BY CycleStep DEF BackedInv
<1>2. ASSUME \A i \in 1..Len(events') :
               events'[i].event = "campaign_cycle_completed" => VerdictNext(events'[i].status),
             \A q \in Controllers :
               Recording(q)' /\ pend'[q].event = "campaign_cycle_completed" =>
                 /\ VerdictNext(pend'[q].status)
                 /\ \A s \in Slots : mem'[q].slots[s] \in Terminal
      PROVE  VerdictInv'
  BY <1>0, <1>2 DEF VerdictInv, VerdictTruthful, Verdict, VerdictNext, Recording
<1>3. CASE \E p \in Controllers : ExecutorStep(p)
  <2>1. PICK p \in Controllers : ExecutorStep(p)
    BY <1>3
  <2>2. /\ pc[p] = "await" /\ idx[p] \in Slots
        /\ ledger.slots[idx[p]] = "running"
        /\ \A q \in Controllers \ {p} : pc[q] \notin Inside
        /\ UNCHANGED <<events, pc, pend>>
    BY <2>1, OwnSlotOnly
  <2>3. ledger.slots[idx[p]] \notin Terminal
    BY <2>2 DEF Terminal, Results, Failures, Success
  <2>4. \A i \in 1..Len(events) : events[i].event # "campaign_cycle_completed"
    BY <2>2, <2>3 DEF VerdictInv, CycleInv
  <2>5. \A q \in Controllers : ~Recording(q)'
    BY <2>2 DEF Recording, Inside, Pcs
  <2> QED BY <1>2, <2>2, <2>4, <2>5
<1>4. CASE \A p \in Controllers : ~ExecutorStep(p)
  <2>0. \A status : Verdict(status) => VerdictNext(status)
    BY <1>0, <1>4, VerdictKept
  <2>1. ASSUME events' = events, pend' = pend, pc' = pc, mem' = mem
        PROVE  VerdictInv'
    BY <1>1, <1>2, <2>0, <2>1 DEF Recording
  <2>2. ASSUME NEW p \in Controllers, Start(p) \/ Continue(p) \/ CtrlC(p) \/ Die(p)
        PROVE  VerdictInv'
    <3>1. ASSUME NEW i \in 1..Len(events'), events'[i].event = "campaign_cycle_completed"
          PROVE  VerdictNext(events'[i].status)
      <4> DEFINE e == [seq |-> mem[p].seq + 1, event |-> pend[p].event, slot |-> pend[p].slot,
                       status |-> pend[p].status]
      <4>1. CASE events' = events
        BY <1>1, <2>0, <3>1, <4>1
      <4>2. CASE pc[p] = "append" /\ events' = Append(events, e)
        <5>1. /\ i <= Len(events) => events'[i] = events[i]
              /\ i > Len(events) => events'[i] = e
          BY <3>1, <4>2 DEF TypeOK
        <5>2. CASE i <= Len(events)
          BY <1>1, <2>0, <3>1, <5>1, <5>2
        <5>3. CASE i > Len(events)
          <6>1. events'[i].event = pend[p].event /\ events'[i].status = pend[p].status
            BY <5>1, <5>3
          <6>2. Verdict(pend[p].status)
            BY <1>1, <3>1, <4>2, <6>1 DEF Recording
          <6> QED BY <2>0, <6>1, <6>2
        <5> QED BY <3>1, <5>2, <5>3
      <4> QED BY <2>2, <4>1, <4>2, PublishedStep
    <3>2. ASSUME NEW q \in Controllers, Recording(q)',
                 pend'[q].event = "campaign_cycle_completed"
          PROVE  /\ VerdictNext(pend'[q].status)
                 /\ \A s \in Slots : mem'[q].slots[s] \in Terminal
      <4>1. CASE q = p /\ Finish(p)
        <5>1. Verdict(pend'[p].status) /\ \A s \in Slots : mem'[p].slots[s] \in Terminal
          BY <3>2, <4>1, FinishVerdict
        <5> QED BY <2>0, <4>1, <5>1
      <4>2. CASE q = p /\ ~Finish(p)
        <5>1. Recording(p) /\ pend'[p] = pend[p]
          BY <2>2, <3>2, <4>2, VerdictRecorded
        <5>2. Verdict(pend[p].status) /\ \A s \in Slots : mem[p].slots[s] \in Terminal
          BY <1>1, <3>2, <4>2, <5>1
        <5>3. mem[p].slots = ledger.slots
          BY <3>2, <4>2, <5>1 DEF PromiseInv, AheadOf, UpToDate
        <5>4. \A s \in Slots : mem'[p].slots[s] \in Terminal
          <6>1. pc'[p] \in Loaded
            BY <3>2, <4>2 DEF Recording, Loaded, Inside, Pcs
          <6> QED BY <2>2, <5>2, <5>3, <6>1, TerminalStep
        <5> QED BY <2>0, <4>2, <5>1, <5>2, <5>4
      <4>3. CASE q # p
        <5>1. pc'[q] = pc[q] /\ pend'[q] = pend[q] /\ mem'[q] = mem[q]
          BY <2>2, <4>3, Locality
        <5> QED BY <1>1, <2>0, <3>2, <5>1 DEF Recording
      <4> QED BY <4>1, <4>2, <4>3
    <3> QED BY <1>2, <3>1, <3>2
  <2>3. ASSUME NEW r \in Directs, DirectStep(r)
        PROVE  VerdictInv'
    BY <2>1, <2>3 DEF DirectStep, disk, memory
  <2>4. ASSUME CloseWindow \/ UNCHANGED vars
        PROVE  VerdictInv'
    BY <2>1, <2>4 DEF CloseWindow, vars, disk, memory
  <2> QED BY <2>2, <2>3, <2>4 DEF Next
<1> QED BY <1>3, <1>4

\* What the journal says of a completed cycle is what the sealed attempts say.
THEOREM VerdictTruthfulCorrect == Spec => []VerdictTruthful
<1>1. Init => BackedInv /\ BudgetInv /\ PromiseInv /\ VerdictInv
  BY BackedInit, BudgetInit, PromiseInit, VerdictInit
<1>2. /\ TypeOK /\ TypeOK' /\ ControlInv /\ BackedInv /\ BudgetInv /\ PromiseInv /\ VerdictInv
      /\ [Next]_vars
      => BackedInv' /\ BudgetInv' /\ PromiseInv' /\ VerdictInv'
  BY BackedStep, BackedKept, BudgetStep, PromiseStep, VerdictStep
<1>3. VerdictInv => VerdictTruthful
  BY DEF VerdictInv
<1> QED BY <1>1, <1>2, <1>3, TypeCorrect, ControlCorrect, PTL DEF Spec

-----------------------------------------------------------------------------
(***************************************************************************)
(* The status command, which looks at one thing after the other without    *)
(* the lock: what it has seen stays true, because files only grow.         *)
(***************************************************************************)

\* The retained attempt shows the result r, or showed it and was taken back.
Shows(e, r) == Proves(e, r) \/ Withdrawn(e, r)

\* Every result among the slots has been there to be seen.
Seen(slots) == \A s \in Slots : slots[s] \in Results => Shows(evidence[s], slots[s])

StatusTypeOK ==
    /\ spc \in {"idle", "ledger", "absent", "journal", "reconcile"}
    /\ view \in Ledgers
    /\ look \in 1..(N + 1)
    /\ since \in [claimed : SUBSET Slots, flagged : SUBSET Slots, created : BOOLEAN]

\* What was so when the command began is so still.
SinceInv ==
    /\ \A s \in since.claimed : evidence[s].stage # "none"
    /\ \A s \in since.flagged : Flags(s, Len(events))
    /\ since.created => created

\* The ledger in memory is as good as one that was read now; and once the journal has been
\* replayed and the slots looked at, none that was flagged or claimed before is pending.
ViewInv ==
    /\ spc \in {"idle", "ledger", "absent"} => view = NewLedger /\ look = 1
    /\ spc = "absent" => ~since.created
    /\ spc = "journal" =>
         /\ look = 1
         /\ view.seq <= Len(events)
         /\ \A s \in Slots : Flags(s, view.seq) => view.slots[s] \in Terminal
    /\ Seen(view.slots)
    /\ spc = "reconcile" =>
         /\ \A s \in since.flagged : view.slots[s] # "pending"
         /\ \A s \in since.claimed : s < look => view.slots[s] # "pending"

StatusInv == StatusTypeOK /\ SinceInv /\ ViewInv

\* The journal is only appended to, and a ledger that exists keeps existing.
LEMMA FilesGrow ==
    ASSUME TypeOK, [Next]_vars
    PROVE  /\ Len(events) \in Nat /\ Len(events') \in Nat /\ Len(events) <= Len(events')
           /\ \A i \in 1..Len(events) : events'[i] = events[i]
           /\ created => created'
<1>1. Len(events) \in Nat
  BY DEF TypeOK
<1>2. CASE UNCHANGED <<events, created>>
  BY <1>1, <1>2
<1>3. CASE UNCHANGED created /\ \E e : events' = Append(events, e)
  BY <1>1, <1>3 DEF TypeOK
<1>4. CASE UNCHANGED events /\ created' = TRUE
  BY <1>1, <1>4
<1>5. ASSUME NEW p \in Controllers, Start(p) \/ Continue(p) \/ CtrlC(p) \/ Die(p)
      PROVE  \/ UNCHANGED <<events, created>>
             \/ UNCHANGED created /\ \E e : events' = Append(events, e)
             \/ UNCHANGED events /\ created' = TRUE
  <2>1. CASE CreateLedger(p)
    BY <2>1 DEF CreateLedger
  <2>2. CASE AppendEvent(p)
    BY <2>2 DEF AppendEvent
  <2>3. CASE \/ Start(p) \/ AcquireLock(p) \/ LockBusy(p) \/ LoadRefused(p) \/ LoadState(p)
             \/ ReconcileSlot(p) \/ FinishReconcile(p) \/ Announce(p) \/ PublishLedger(p)
             \/ EndCycle(p) \/ SkipTerminal(p) \/ WindowExpired(p) \/ DriftFound(p)
             \/ StartSlot(p) \/ Execute(p) \/ ExecutorStep(p) \/ CtrlC(p) \/ Conclude(p)
             \/ Finish(p) \/ Leave(p) \/ Die(p)
    BY <2>3 DEF Start, AcquireLock, LockBusy, LoadRefused, LoadState, ReconcileSlot,
       FinishReconcile, Announce, PublishLedger, EndCycle, SkipTerminal, WindowExpired, DriftFound,
       StartSlot, Execute, ExecutorStep, CtrlC, Conclude, Finish, Leave, Die, disk
  <2> QED BY <1>5, <2>1, <2>2, <2>3 DEF Continue
<1>6. ASSUME (\E r \in Directs : DirectStep(r)) \/ CloseWindow \/ UNCHANGED vars
      PROVE  UNCHANGED <<events, created>>
  BY <1>6 DEF DirectStep, CloseWindow, vars, disk
<1> QED BY <1>2, <1>3, <1>4, <1>5, <1>6 DEF Next

LEMMA ShowsKept ==
    ASSUME RunTypeOK, Kept, NEW s \in Slots, NEW r, Shows(evidence[s], r)
    PROVE  Shows(evidence'[s], r)
<1>1. evidence[s].stage \in {"sealed", "spoiled"}
  BY DEF Shows, Proves, Withdrawn
<1>2. \/ evidence'[s] = evidence[s]
      \/ evidence'[s] = [evidence[s] EXCEPT !.stage = "spoiled"]
  BY <1>1 DEF Kept
<1>3. CASE evidence'[s] = [evidence[s] EXCEPT !.stage = "spoiled"]
  <2>1. evidence[s] \in Evidence
    BY DEF RunTypeOK
  <2>2. /\ evidence'[s].stage = "spoiled"
        /\ evidence'[s].bound = evidence[s].bound
        /\ evidence'[s].status = evidence[s].status
        /\ evidence'[s].attested = evidence[s].attested
    BY <1>3, <2>1 DEF Evidence
  <2> QED BY <2>2 DEF Shows, Proves, Withdrawn
<1> QED BY <1>2, <1>3

LEMMA StatusBegins == StatusInit => StatusInv
<1> SUFFICES ASSUME StatusInit
             PROVE  StatusInv
  OBVIOUS
<1>1. /\ spc = "idle" /\ view = NewLedger /\ look = 1
      /\ since = [claimed |-> {}, flagged |-> {}, created |-> FALSE]
  BY DEF StatusInit, Quiet
<1>2. NewLedger \in Ledgers /\ Seen(NewLedger.slots)
  BY DEF NewLedger, Ledgers, SlotStatuses, Terminal, CampaignStatuses, Seen, Results, Failures, Success
<1>3. since \in [claimed : SUBSET Slots, flagged : SUBSET Slots, created : BOOLEAN]
  BY <1>1
<1> QED BY <1>1, <1>2, <1>3 DEF StatusInv, StatusTypeOK, SinceInv, ViewInv

\* The controllers and runners go on while the command looks.
LEMMA StatusOthers ==
    ASSUME TypeOK, ControlInv, BackedInv, StatusInv, [Next]_vars, UNCHANGED statusVars
    PROVE  StatusInv'
<1>1. UNCHANGED <<spc, view, look, since>> /\ StatusTypeOK
  BY DEF statusVars, StatusInv
<1>2. StatusTypeOK'
  BY <1>1 DEF StatusTypeOK
<1>3. Kept
  BY BackedKept
<1>4. /\ Len(events) \in Nat /\ Len(events') \in Nat /\ Len(events) <= Len(events')
      /\ created => created'
  BY FilesGrow
<1>5. SinceInv'
  <2>1. ASSUME NEW s \in since.flagged
        PROVE  Flags(s, Len(events))'
    <3>1. Flags(s, Len(events))
      BY <2>1 DEF StatusInv, SinceInv
    <3>2. PICK i \in 1..Len(events) : events[i].event = "slot_requires_manual_review" /\ events[i].slot = s
      BY <3>1 DEF Flags
    <3>3. i \in 1..Len(events') /\ events'[i] = events[i]
      BY <1>4, FilesGrow
    <3> QED BY <3>2, <3>3 DEF Flags
  <2>2. ASSUME NEW s \in since.claimed
        PROVE  evidence'[s].stage # "none"
    <3>1. s \in Slots /\ evidence[s].stage # "none"
      BY <1>1, <2>2 DEF StatusInv, StatusTypeOK, SinceInv
    <3> QED BY <1>3, <3>1 DEF Kept
  <2> QED BY <1>1, <1>4, <2>1, <2>2 DEF StatusInv, SinceInv
<1>6. Seen(view.slots)'
  BY <1>1, <1>3, ShowsKept DEF StatusInv, ViewInv, Seen, TypeOK
<1>7. ASSUME spc = "journal"
      PROVE  /\ view.seq <= Len(events')
             /\ \A s \in Slots : Flags(s, view.seq)' => view.slots[s] \in Terminal
  <2>1. view.seq \in Nat /\ view.seq <= Len(events)
    BY <1>1, <1>7 DEF StatusInv, StatusTypeOK, ViewInv, Ledgers
  <2>2. \A s \in Slots : Flags(s, view.seq)' <=> Flags(s, view.seq)
    <3>1. \A i \in 1..view.seq : i \in 1..Len(events) /\ events'[i] = events[i]
      BY <1>4, <2>1, FilesGrow
    <3> QED BY <1>1, <3>1 DEF Flags
  <2> QED BY <1>4, <1>7, <2>1, <2>2 DEF StatusInv, ViewInv
<1>8. ViewInv'
  <2>1. spc' = "journal" => /\ view'.seq <= Len(events')
                            /\ \A s \in Slots : Flags(s, view.seq)' => view'.slots[s] \in Terminal
    BY <1>1, <1>7
  <2>2. /\ spc' \in {"idle", "ledger", "absent"} => view' = NewLedger /\ look' = 1
        /\ spc' = "absent" => ~since'.created
        /\ spc' = "journal" => look' = 1
        /\ spc' = "reconcile" =>
             /\ \A s \in since'.flagged : view'.slots[s] # "pending"
             /\ \A s \in since'.claimed : s < look' => view'.slots[s] # "pending"
    BY <1>1 DEF StatusInv, ViewInv
  <2> QED BY <1>6, <2>1, <2>2 DEF ViewInv
<1> QED BY <1>2, <1>5, <1>8 DEF StatusInv

\* Looking at one slot, or bringing it forward from the journal, leaves a result only if there
\* is one, and a slot pending only if it was.
LEMMA ReconciledSlot ==
    ASSUME NEW e \in Evidence, NEW status \in SlotStatuses, NEW sound \in BOOLEAN
    PROVE  LET new == Reconciled(status, e, sound) IN
           /\ new \in SlotStatuses
           /\ new \in Results => Shows(e, new)
           /\ new = "pending" => status = "pending" /\ e.stage = "none"
<1>1. Reconciled(status, e, sound) \in SlotStatuses
  BY ReconciledType DEF SlotStatuses
<1>2. Reconciled(status, e, sound) \in Results => Shows(e, Reconciled(status, e, sound))
  BY ReconciledBacked DEF Shows
<1>3. SealedResult(e) # "pending"
  BY SealedResultType DEF Results, Failures, Success
<1>4. Reconciled(status, e, sound) = "pending" => status = "pending" /\ e.stage = "none"
  BY <1>3 DEF Reconciled
<1> QED BY <1>1, <1>2, <1>4

\* The command's own steps.
LEMMA StatusOwn ==
    ASSUME TypeOK, ControlInv, BackedInv, StatusInv, StatusStep, UNCHANGED vars
    PROVE  StatusInv'
<1>1. UNCHANGED <<evidence, created, ledger, events>>
  BY DEF vars, disk
<1>2. ledger \in Ledgers /\ Len(events) \in Nat /\ ledger.seq <= Len(events)
  BY DEF TypeOK, ControlInv, Files, JournalInv
<1>3. /\ StatusTypeOK /\ Seen(view.slots) /\ SinceInv
      /\ view.slots \in [Slots -> SlotStatuses]
  BY DEF StatusInv, ViewInv, StatusTypeOK, Ledgers
<1>4. CASE Quietens
  <2>1. /\ spc' = "idle" /\ view' = NewLedger /\ look' = 1
        /\ since' = [claimed |-> {}, flagged |-> {}, created |-> FALSE]
    BY <1>4 DEF Quietens
  <2>2. NewLedger \in Ledgers /\ Seen(NewLedger.slots)'
    BY DEF NewLedger, Ledgers, SlotStatuses, Terminal, CampaignStatuses, Seen, Results, Failures, Success
  <2> QED BY <2>1, <2>2 DEF StatusInv, StatusTypeOK, SinceInv, ViewInv, Seen
<1>5. CASE BeginStatus
  <2>1. PICK claimed, flagged, made :
          /\ since' = [claimed |-> claimed, flagged |-> flagged, created |-> made]
          /\ claimed = {s \in Slots : evidence[s].stage # "none"} /\ flagged = Flagged /\ made = created
    BY <1>5 DEF BeginStatus
  <2>2. claimed \subseteq Slots /\ flagged \subseteq Slots /\ made \in BOOLEAN
    BY <2>1 DEF Flagged, TypeOK
  <2>3. \A s \in flagged : Flags(s, Len(events))'
    BY <1>1, <2>1 DEF Flagged, Flags
  <2>4. spc = "idle" /\ spc' = "ledger" /\ UNCHANGED <<view, look>>
    BY <1>5 DEF BeginStatus
  <2>5. StatusTypeOK'
    BY <1>3, <2>1, <2>2, <2>4 DEF StatusTypeOK
  <2>6. SinceInv'
    BY <1>1, <2>1, <2>3 DEF SinceInv
  <2>7. ViewInv'
    BY <1>1, <2>4 DEF StatusInv, ViewInv, Seen
  <2> QED BY <2>5, <2>6, <2>7 DEF StatusInv
<1>6. ASSUME since' = since
      PROVE  SinceInv'
  BY <1>1, <1>3, <1>6 DEF SinceInv, Flags
<1>7. CASE ReadLedger
  <2>1. spc = "ledger" /\ UNCHANGED <<look, since>> /\ look = 1 /\ view = NewLedger
    BY <1>7 DEF ReadLedger, StatusInv, ViewInv
  <2>2. CASE created
    <3>1. view' = ledger /\ spc' = "journal"
      BY <1>7, <2>2 DEF ReadLedger
    <3>2. \A s \in Slots : Flags(s, ledger.seq) => ledger.slots[s] \in Terminal
      BY DEF ControlInv, Files, FlagInv, Flags, Ends
    <3>3. Seen(ledger.slots)
      BY DEF BackedInv, Backed, Backs, Seen, Shows
    <3>4. StatusTypeOK'
      BY <1>2, <1>3, <2>1, <3>1 DEF StatusTypeOK
    <3>5. ViewInv'
      BY <1>1, <1>2, <2>1, <3>1, <3>2, <3>3 DEF ViewInv, Seen, Flags
    <3> QED BY <1>6, <2>1, <3>4, <3>5 DEF StatusInv
  <2>3. CASE ~created
    <3>1. view' = view /\ spc' = "absent" /\ ~since.created
      BY <1>3, <1>7, <2>3 DEF ReadLedger, SinceInv
    <3> QED BY <1>1, <1>3, <1>6, <2>1, <3>1 DEF StatusInv, StatusTypeOK, ViewInv, Seen
  <2> QED BY <2>2, <2>3
<1>8. CASE LooksForJournal
  <2>1. spc = "absent" /\ spc' = "journal" /\ UNCHANGED <<view, look, since>>
    BY <1>8 DEF LooksForJournal
  <2>2. look = 1 /\ view = NewLedger /\ view.seq = 0
    BY <2>1 DEF StatusInv, ViewInv, NewLedger
  <2>3. \A s : ~Flags(s, 0)'
    BY DEF Flags
  <2> QED BY <1>1, <1>2, <1>3, <1>6, <2>1, <2>2, <2>3 DEF StatusInv, StatusTypeOK, ViewInv, Seen
<1>9. CASE ReadJournal
  <2>1. /\ spc = "journal" /\ spc' = "reconcile" /\ UNCHANGED <<look, since>> /\ look = 1
        /\ view' = ViewReplayed
    BY <1>9 DEF ReadJournal, StatusInv, ViewInv
  <2> DEFINE Ended(s) == \E i \in (view.seq + 1)..Len(events) :
                 events[i].slot = s
                 /\ events[i].event \in {"slot_finished", "slot_requires_manual_review"}
  <2>2. PICK n, slots : /\ view' = [view EXCEPT !.seq = n, !.slots = slots]
                        /\ n = Len(events)
                        /\ slots = [s \in Slots |-> IF Ended(s) THEN "manual_review" ELSE view.slots[s]]
    BY <2>1 DEF ViewReplayed
  <2>3. slots \in [Slots -> SlotStatuses]
    BY <1>3, <2>2 DEF SlotStatuses, Terminal
  <2>4. view' \in Ledgers /\ view'.slots = slots
    BY <1>2, <1>3, <2>2, <2>3 DEF StatusTypeOK, Ledgers
  <2>5. Seen(slots)'
    BY <1>1, <1>3, <2>2 DEF Seen, Results, Failures, Success
  <2>6. ASSUME NEW s \in since.flagged
        PROVE  slots[s] # "pending"
    <3>1. s \in Slots /\ Flags(s, Len(events))
      BY <1>3, <2>6 DEF StatusTypeOK, SinceInv
    <3>2. PICK i \in 1..Len(events) :
            events[i].event = "slot_requires_manual_review" /\ events[i].slot = s
      BY <3>1 DEF Flags
    <3>3. view.seq \in Nat
      BY <1>3 DEF StatusTypeOK, Ledgers
    <3>4. CASE i <= view.seq
      <4>1. view.slots[s] \in Terminal
        BY <2>1, <3>1, <3>2, <3>3, <3>4 DEF StatusInv, ViewInv, Flags
      <4> QED BY <2>2, <3>1, <4>1 DEF Terminal, Results, Failures, Success
    <3>5. CASE ~(i <= view.seq)
      <4>1. Ended(s)
        BY <1>2, <3>2, <3>3, <3>5
      <4> QED BY <2>2, <3>1, <4>1
    <3> QED BY <3>4, <3>5
  <2>7. \A s \in since.claimed : ~(s < 1)
    BY <1>3 DEF StatusTypeOK, Slots
  <2>8. StatusTypeOK'
    BY <1>3, <2>1, <2>4 DEF StatusTypeOK
  <2>9. ViewInv'
    BY <2>1, <2>4, <2>5, <2>6, <2>7 DEF ViewInv, Seen
  <2> QED BY <1>6, <2>1, <2>8, <2>9 DEF StatusInv
<1>10. CASE LookAtSlot
  <2>1. /\ spc = "reconcile" /\ spc' = "reconcile" /\ since' = since /\ look \in Slots /\ look' = look + 1
    BY <1>3, <1>10 DEF LookAtSlot, StatusTypeOK, Slots
  <2>0. PICK sound \in BOOLEAN :
          view' = [view EXCEPT !.slots[look] = Reconciled(@, evidence[look], sound)]
    BY <1>10 DEF LookAtSlot
  <2>2. PICK new : /\ new = Reconciled(view.slots[look], evidence[look], sound)
                   /\ view' = [view EXCEPT !.slots[look] = new]
    BY <2>0
  <2>3. /\ new \in SlotStatuses
        /\ new \in Results => Shows(evidence[look], new)
        /\ new = "pending" => view.slots[look] = "pending" /\ evidence[look].stage = "none"
    <3>1. evidence[look] \in Evidence /\ view.slots[look] \in SlotStatuses
      BY <1>3, <2>1 DEF TypeOK, RunTypeOK
    <3> QED BY <2>2, <3>1, ReconciledSlot
  <2>4. view' \in Ledgers /\ view'.slots = [view.slots EXCEPT ![look] = new]
    BY <1>3, <2>1, <2>2, <2>3 DEF StatusTypeOK, Ledgers
  <2>5. Seen(view.slots)'
    BY <1>1, <1>3, <2>1, <2>3, <2>4 DEF Seen
  <2>6. \A s \in since.flagged : view'.slots[s] # "pending"
    BY <1>3, <2>1, <2>3, <2>4 DEF StatusInv, ViewInv, StatusTypeOK
  <2>7. ASSUME NEW s \in since.claimed, s < look + 1
        PROVE  view'.slots[s] # "pending"
    <3>1. s \in Slots /\ evidence[s].stage # "none"
      BY <1>3, <2>7 DEF StatusTypeOK, SinceInv
    <3>2. s = look \/ (s < look /\ s # look)
      BY <2>1, <2>7, <3>1 DEF Slots
    <3>3. s < look => view.slots[s] # "pending"
      BY <2>1, <2>7 DEF StatusInv, ViewInv
    <3> QED BY <1>3, <2>1, <2>3, <2>4, <3>1, <3>2, <3>3
  <2>8. StatusTypeOK'
    BY <1>3, <2>1, <2>4 DEF StatusTypeOK, Slots
  <2>9. ViewInv'
    BY <2>1, <2>5, <2>6, <2>7 DEF ViewInv
  <2> QED BY <1>6, <2>1, <2>8, <2>9 DEF StatusInv
<1> QED BY <1>4, <1>5, <1>7, <1>8, <1>9, <1>10 DEF StatusStep, RefuseStatus, Report

\* What the status command says holds although it takes no lock (nightwatch: run_campaign
\* without execute), for any number of slots, controllers, runners, deaths and restarts.
THEOREM StatusTruthfulCorrect == StatusSpec => StatusTruthful
<1> DEFINE Good == /\ Report =>
                        /\ \A s \in Slots : view.slots[s] \in Results =>
                              Proves(evidence[s], view.slots[s]) \/ Withdrawn(evidence[s], view.slots[s])
                        /\ WouldExecute \cap (since.claimed \cup since.flagged) = {}
                   /\ RefuseStatus => torn \/ Appending \/ Publishing \/ ~since.created
<1>1. StatusInit => Init /\ BackedInv /\ StatusInv
  BY BackedInit, StatusBegins DEF StatusInit
<1>2. [StatusNext]_<<vars, statusVars>> => [Next]_vars
  BY DEF StatusNext
<1>3. /\ TypeOK /\ ControlInv /\ BackedInv /\ StatusInv /\ [StatusNext]_<<vars, statusVars>>
      => BackedInv' /\ StatusInv'
  <2> SUFFICES ASSUME TypeOK, ControlInv, BackedInv, StatusInv, [StatusNext]_<<vars, statusVars>>
               PROVE  BackedInv' /\ StatusInv'
    OBVIOUS
  <2>1. [Next]_vars /\ BackedInv'
    BY <1>2, BackedStep
  <2>2. CASE StatusStep /\ UNCHANGED vars
    BY <2>1, <2>2, StatusOwn
  <2>3. CASE UNCHANGED statusVars
    BY <2>1, <2>3, StatusOthers
  <2> QED BY <2>1, <2>2, <2>3 DEF StatusNext
<1>4. ASSUME ControlInv, StatusInv, Report
      PROVE  /\ \A s \in Slots : view.slots[s] \in Results =>
                   Proves(evidence[s], view.slots[s]) \/ Withdrawn(evidence[s], view.slots[s])
             /\ WouldExecute \cap (since.claimed \cup since.flagged) = {}
  <2>1. spc = "reconcile" /\ look = N + 1
    BY <1>4 DEF Report
  <2>2. \A s \in since.claimed : s < look
    BY <1>4, <2>1 DEF StatusInv, StatusTypeOK, Slots
  <2> QED BY <1>4, <2>1, <2>2 DEF StatusInv, ViewInv, Seen, Shows, WouldExecute
<1>5. ASSUME ControlInv, StatusInv, RefuseStatus
      PROVE  torn \/ Appending \/ Publishing \/ ~since.created
  <2>1. spc = "absent" => ~since.created
    BY <1>5 DEF StatusInv, ViewInv
  <2>2. ASSUME spc = "journal", ~ViewFits
        PROVE  torn
    BY <1>5, <2>2 DEF StatusInv, ViewInv, ViewFits, JournalReadable, ControlInv, Files, JournalInv
  <2> QED BY <1>5, <2>1, <2>2 DEF RefuseStatus
<1>6. ControlInv /\ StatusInv => [Good]_<<vars, statusVars>>
  BY <1>4, <1>5
<1>7. StatusSpec => []TypeOK /\ []ControlInv
  BY <1>1, <1>2, TypeCorrect, ControlCorrect, PTL DEF StatusSpec, Spec
<1> QED BY <1>1, <1>3, <1>6, <1>7, PTL DEF StatusSpec, StatusTruthful

-----------------------------------------------------------------------------
(***************************************************************************)
(* What can be proved of termination: a started controller has a number of *)
(* steps left that is bounded by the number of slots.  Every step it takes *)
(* uses up at least one, whatever it finds on disk and however its calls   *)
(* of the executor end, and nobody else's step gives it new ones; that it  *)
(* takes them is the fairness under which the runs check Termination.      *)
(***************************************************************************)

\* Steps that a call of the executor has still to take, at most.
CallLeft(phase) ==
    CASE phase = "preflight" -> 10
      [] phase = "claim"     -> 9
      [] phase = "mkdir"     -> 8
      [] phase = "setup"     -> 7
      [] phase = "work"      -> 6
      [] phase = "seal"      -> 5
      [] phase = "sidecar"   -> 4
      [] phase = "sync"      -> 3
      [] phase \in {"returned", "run_error"} -> 2
      [] phase \in {"error", "interrupt"}    -> 1
      [] phase = "idle"      -> 0

\* An allowance for one slot: more than the steps from one head of the loop to the next.
PerSlot == 30

\* Steps left while an event is recorded, before it is appended.
RecordLeft(event, slots) ==
    CASE event \in {"campaign_started", "campaign_reconciled"} -> PerSlot * (N + 1) + 9
      [] event = "slot_started"  -> slots + 4
      [] event = "slot_finished" -> slots - 15
      [] event = "slot_requires_manual_review" -> 6
      [] event \in {"campaign_stopped", "campaign_cycle_completed"} -> 3

\* Steps left at a program point, at most, with the loop at slot s.
StepsAt(point, s, event, phase) ==
    LET slots == PerSlot * (N + 1 - s)
        loop  == PerSlot * (N + 1)
    IN  CASE point = "lock"      -> loop + N + 15
          [] point = "load"      -> loop + N + 14
          [] point = "reconcile" -> loop + 12 + (N + 1 - s)
          [] point = "create"    -> loop + 11
          [] point = "announce"  -> loop + 10
          [] point = "append"    -> RecordLeft(event, slots)
          [] point = "publish"   -> RecordLeft(event, slots) - 1
          [] point = "select"    -> slots + 5
          [] point = "execute"   -> slots + 2
          [] point = "await"     -> slots - 10 + CallLeft(phase)
          [] point \in {"final", "expired"} -> 4
          [] point = "leave"     -> 1
          [] point = "off"       -> 0

\* Steps that controller p has still to take, at most.
StepsLeft(p) == StepsAt(pc[p], idx[p], pend[p].event, call[p].phase)

MaxSteps == PerSlot * (N + 1) + N + 15

LEMMA CallLeftType ==
    ASSUME NEW phase \in Phases
    PROVE  CallLeft(phase) \in 0..10
BY DEF CallLeft, Phases, Outcomes

LEMMA RecordLeftType ==
    ASSUME NEW event \in SlotEvents \cup CampaignEvents, NEW slots \in Nat,
           slots <= PerSlot * N, event = "slot_finished" => slots >= PerSlot
    PROVE  RecordLeft(event, slots) \in 3..(PerSlot * (N + 1) + 9)
BY DEF RecordLeft, SlotEvents, CampaignEvents, PerSlot

\* The table by program point.
LEMMA StepsAtPoint ==
    ASSUME NEW s, NEW event, NEW phase
    PROVE  /\ StepsAt("lock", s, event, phase) = PerSlot * (N + 1) + N + 15
           /\ StepsAt("load", s, event, phase) = PerSlot * (N + 1) + N + 14
           /\ StepsAt("reconcile", s, event, phase) = PerSlot * (N + 1) + 12 + (N + 1 - s)
           /\ StepsAt("create", s, event, phase) = PerSlot * (N + 1) + 11
           /\ StepsAt("announce", s, event, phase) = PerSlot * (N + 1) + 10
           /\ StepsAt("append", s, event, phase) = RecordLeft(event, PerSlot * (N + 1 - s))
           /\ StepsAt("publish", s, event, phase) = RecordLeft(event, PerSlot * (N + 1 - s)) - 1
           /\ StepsAt("select", s, event, phase) = PerSlot * (N + 1 - s) + 5
           /\ StepsAt("execute", s, event, phase) = PerSlot * (N + 1 - s) + 2
           /\ StepsAt("await", s, event, phase) = PerSlot * (N + 1 - s) - 10 + CallLeft(phase)
           /\ StepsAt("final", s, event, phase) = 4
           /\ StepsAt("expired", s, event, phase) = 4
           /\ StepsAt("leave", s, event, phase) = 1
           /\ StepsAt("off", s, event, phase) = 0
BY DEF StepsAt

LEMMA StepsLeftType ==
    ASSUME TypeOK, IdxInv, NEW p \in Controllers
    PROVE  StepsLeft(p) \in 0..MaxSteps /\ (StepsLeft(p) = 0 <=> pc[p] = "off")
<1> DEFINE slots == PerSlot * (N + 1 - idx[p])
           Goal  == StepsLeft(p) \in 0..MaxSteps /\ (StepsLeft(p) = 0 <=> pc[p] = "off")
<1> SUFFICES Goal
  OBVIOUS
<1>1. idx[p] \in 1..(N + 1) /\ slots \in Nat /\ slots <= PerSlot * N
  BY DEF TypeOK, PerSlot
<1>2. pc[p] \in Pcs
  BY DEF TypeOK
<1>3. CASE Recording(p)
  <2>1. pend[p].event \in SlotEvents \cup CampaignEvents
    BY DEF TypeOK, Pending
  <2>2. pend[p].event = "slot_finished" => slots >= PerSlot
    <3>1. pend[p].event \in SlotEvents => pend[p].slot \in Slots
      BY DEF TypeOK, Pending, SlotEvents, CampaignEvents
    <3> QED BY <1>1, <1>3, <3>1 DEF IdxInv, IdxOf, SlotEvents, Slots, PerSlot
  <2>3. RecordLeft(pend[p].event, slots) \in 3..(PerSlot * (N + 1) + 9)
    BY <1>1, <2>1, <2>2, RecordLeftType
  <2> HIDE DEF slots
  <2>4. StepsLeft(p) \in {RecordLeft(pend[p].event, slots), RecordLeft(pend[p].event, slots) - 1}
    BY <1>3, StepsAtPoint DEF StepsLeft, Recording, slots
  <2> QED BY <1>3, <2>3, <2>4 DEF Recording, MaxSteps, PerSlot
<1>4. CASE pc[p] = "await"
  <2>1. CallLeft(call[p].phase) \in 0..10
    BY CallLeftType, ControllersAssumption DEF TypeOK, RunTypeOK, Calls
  <2>2. idx[p] \in Slots
    BY <1>4 DEF IdxInv, IdxOf
  <2> QED BY <1>1, <1>4, <2>1, <2>2, StepsAtPoint DEF StepsLeft, MaxSteps, PerSlot, Slots
<1>5. CASE ~Recording(p) /\ pc[p] # "await"
  BY <1>1, <1>2, <1>5, StepsAtPoint DEF StepsLeft, Pcs, Recording, MaxSteps, PerSlot
<1> HIDE DEF Goal
<1> QED BY <1>3, <1>4, <1>5

LEMMA CallLeftFalls ==
    ASSUME RunTypeOK, NEW r \in Runners,
           CallStep(r) \/ \E result \in Failures : AbsorbInterrupt(r, result)
    PROVE  CallLeft(call'[r].phase) < CallLeft(call[r].phase)
<1>1. call \in [Runners -> Calls]
  BY DEF RunTypeOK
<1>2. /\ call[r].phase \in Phases /\ call'[r].phase \in Phases
      /\ \/ call[r].phase = "preflight" /\ call'[r].phase \in {"claim", "error", "interrupt"}
         \/ call[r].phase = "claim"     /\ call'[r].phase \in {"mkdir", "error", "interrupt"}
         \/ call[r].phase = "mkdir"     /\ call'[r].phase \in {"setup", "error", "interrupt"}
         \/ call[r].phase = "setup"     /\ call'[r].phase \in {"work", "error", "interrupt"}
         \/ call[r].phase = "work"      /\ call'[r].phase \in {"seal", "interrupt"}
         \/ call[r].phase = "seal"      /\ call'[r].phase \in {"sidecar", "run_error", "interrupt"}
         \/ call[r].phase = "sidecar"   /\ call'[r].phase \in {"sync", "run_error"}
         \/ call[r].phase = "sync"      /\ call'[r].phase \in {"returned", "run_error"}
         \/ call[r].phase \in {"returned", "run_error"} /\ call'[r].phase = "interrupt"
  BY <1>1 DEF CallStep, AbsorbInterrupt, OpenClaim, ClaimRefused, WriteClaim, MakeAttemptDir,
     OpenRunLog, Escapes, EndWork, WriteSealedLog, WriteSidecar, Return, SealFails, Move, Calls,
     Phases, Outcomes
<1> QED BY <1>2 DEF CallLeft

LEMMA RecordLeftValues ==
    ASSUME NEW slots
    PROVE  /\ RecordLeft("campaign_started", slots) = PerSlot * (N + 1) + 9
           /\ RecordLeft("campaign_reconciled", slots) = PerSlot * (N + 1) + 9
           /\ RecordLeft("slot_started", slots) = slots + 4
           /\ RecordLeft("slot_finished", slots) = slots - 15
           /\ RecordLeft("slot_requires_manual_review", slots) = 6
           /\ RecordLeft("campaign_stopped", slots) = 3
           /\ RecordLeft("campaign_cycle_completed", slots) = 3
BY DEF RecordLeft

LEMMA OwnStepsFall ==
    ASSUME TypeOK, IdxInv, NEW p \in Controllers, Continue(p) \/ CtrlC(p)
    PROVE  StepsLeft(p)' < StepsLeft(p)
<1> USE DEF Goto
<1> DEFINE Goal == StepsLeft(p)' < StepsLeft(p)
<1> SUFFICES Goal
  OBVIOUS
<1>1. /\ idx \in [Controllers -> 1..(N + 1)]
      /\ pc \in [Controllers -> Pcs]
      /\ pend \in [Controllers -> Pending]
      /\ call \in [Runners -> Calls]
      /\ p \in Runners
      /\ RunTypeOK
  BY ControllersAssumption DEF TypeOK, RunTypeOK
<1>2. StepsLeft(p)' = StepsAt(pc'[p], idx'[p], pend'[p].event, call'[p].phase)
  BY DEF StepsLeft
<1>3. CASE AcquireLock(p) \/ LockBusy(p) \/ LoadRefused(p)
  BY <1>1, <1>2, <1>3, StepsAtPoint
     DEF AcquireLock, LockBusy, LoadRefused, StepsLeft, PerSlot
<1>4. CASE LoadState(p)
  BY <1>1, <1>2, <1>4, StepsAtPoint DEF LoadState, StepsLeft, PerSlot
<1>5. CASE ReconcileSlot(p)
  BY <1>1, <1>2, <1>5, StepsAtPoint DEF ReconcileSlot, StepsLeft, PerSlot
<1>6. CASE FinishReconcile(p)
  BY <1>1, <1>2, <1>6, StepsAtPoint DEF FinishReconcile, StepsLeft, PerSlot
<1>7. CASE CreateLedger(p)
  BY <1>1, <1>2, <1>7, StepsAtPoint DEF CreateLedger, StepsLeft, PerSlot
<1>8. CASE Announce(p)
  <2>1. /\ pc[p] = "announce"
        /\ idx'[p] = 1
        /\ \/ pc'[p] = "append" /\ pend'[p].event \in {"campaign_started", "campaign_reconciled"}
           \/ pc'[p] = "select"
    BY <1>1, <1>8 DEF Announce, Record
  <2> QED BY <1>2, <2>1, StepsAtPoint, RecordLeftValues DEF StepsLeft, PerSlot
<1>9. CASE AppendEvent(p)
  <2>1. pc[p] = "append" /\ pc'[p] = "publish" /\ UNCHANGED <<idx, pend>>
    BY <1>1, <1>9 DEF AppendEvent
  <2>2. RecordLeft(pend[p].event, PerSlot * (N + 1 - idx[p])) \in Int
    BY <1>1, RecordLeftValues DEF Pending, SlotEvents, CampaignEvents, PerSlot
  <2> QED BY <1>2, <2>1, <2>2, StepsAtPoint DEF StepsLeft
<1>10. CASE PublishLedger(p)
  <2>1. pc[p] = "publish" /\ pc'[p] = AfterRecord(p) /\ pend' = pend
    BY <1>1, <1>10 DEF PublishLedger
  <2>2. CASE pend[p].event = "slot_finished"
    <3>1. idx'[p] = idx[p] + 1 /\ idx[p] \in Slots
      <4>1. pend[p].slot \in Slots
        BY <1>1, <2>2 DEF Pending, SlotEvents, CampaignEvents
      <4>2. pend[p].slot = idx[p]
        BY <2>1, <2>2 DEF IdxInv, IdxOf, Recording, SlotEvents
      <4> QED BY <1>1, <1>10, <2>2, <4>1, <4>2 DEF PublishLedger
    <3>2. pc'[p] \in {"leave", "final", "select"}
      BY <2>1, <2>2 DEF AfterRecord
    <3> QED BY <1>1, <1>2, <2>1, <2>2, <3>1, <3>2, StepsAtPoint, RecordLeftValues
            DEF StepsLeft, PerSlot, Slots
  <2>3. CASE pend[p].event # "slot_finished"
    <3>1. idx' = idx
      BY <1>10, <2>3 DEF PublishLedger
    <3>2. \/ pc'[p] = "select" /\ pend[p].event \in {"campaign_started", "campaign_reconciled"}
          \/ pc'[p] = "execute" /\ pend[p].event = "slot_started"
          \/ pc'[p] = "final" /\ pend[p].event = "slot_requires_manual_review"
          \/ pc'[p] = "leave" /\ pend[p].event \in {"campaign_stopped", "campaign_cycle_completed"}
      BY <1>1, <2>1, <2>3 DEF AfterRecord, Pending, SlotEvents, CampaignEvents
    <3> QED BY <1>1, <1>2, <2>1, <3>1, <3>2, StepsAtPoint, RecordLeftValues DEF StepsLeft, PerSlot
  <2> QED BY <2>2, <2>3
<1>11. CASE EndCycle(p) \/ WindowExpired(p)
  <2>1. pc[p] = "select" /\ pc'[p] \in {"final", "expired"}
    BY <1>1, <1>11 DEF EndCycle, WindowExpired, AtSlot
  <2> QED BY <1>1, <1>2, <2>1, StepsAtPoint DEF StepsLeft, PerSlot
<1>12. CASE SkipTerminal(p)
  BY <1>1, <1>2, <1>12, StepsAtPoint DEF SkipTerminal, AtSlot, StepsLeft, PerSlot
<1>13. CASE DriftFound(p) \/ StartSlot(p)
  <2>1. /\ pc[p] = "select" /\ pc'[p] = "append" /\ idx' = idx /\ idx[p] <= N
        /\ pend'[p].event \in {"slot_started", "slot_requires_manual_review"}
    BY <1>1, <1>13 DEF DriftFound, StartSlot, AtSlot, Record
  <2> QED BY <1>1, <1>2, <2>1, StepsAtPoint, RecordLeftValues DEF StepsLeft, PerSlot
<1>14. CASE Execute(p)
  <2>1. pc[p] = "execute" /\ pc'[p] = "await" /\ idx' = idx /\ call'[p].phase = "preflight"
    BY <1>1, <1>14 DEF Execute, Invoke, memory
  <2>2. CallLeft("preflight") = 10
    BY DEF CallLeft
  <2> QED BY <1>1, <1>2, <2>1, <2>2, StepsAtPoint DEF StepsLeft, PerSlot
<1>15. CASE ExecutorStep(p) \/ CtrlC(p)
  <2>1. /\ pc[p] = "await" /\ UNCHANGED <<pc, idx>>
        /\ CallLeft(call'[p].phase) < CallLeft(call[p].phase)
    BY <1>1, <1>15, CallLeftFalls DEF ExecutorStep, CtrlC, memory
  <2>2. CallLeft(call'[p].phase) \in Int /\ CallLeft(call[p].phase) \in Int
    <3>1. call' \in [Runners -> Calls]
      BY <1>1, <1>15, RunTypesKept DEF ExecutorStep, CtrlC, RunTypeOK
    <3> QED BY <1>1, <3>1, CallLeftType DEF Calls
  <2> QED BY <1>1, <1>2, <2>1, <2>2, StepsAtPoint DEF StepsLeft, PerSlot
<1>16. CASE Conclude(p)
  <2>1. /\ pc[p] = "await" /\ pc'[p] = "append" /\ idx' = idx
        /\ pend'[p].event = "slot_finished" /\ call[p].phase \in Outcomes
    BY <1>1, <1>16 DEF Conclude, Record, runVars
  <2>2. CallLeft(call[p].phase) \in Nat
    BY <1>1, CallLeftType DEF Calls
  <2> QED BY <1>1, <1>2, <2>1, <2>2, StepsAtPoint, RecordLeftValues DEF StepsLeft, PerSlot
<1>17. CASE Finish(p)
  <2>1. /\ pc[p] \in {"final", "expired"} /\ pc'[p] = "append"
        /\ pend'[p].event \in {"campaign_stopped", "campaign_cycle_completed"}
    BY <1>1, <1>17 DEF Finish, Record
  <2> QED BY <1>2, <2>1, StepsAtPoint, RecordLeftValues DEF StepsLeft
<1>18. CASE Leave(p)
  <2>1. pc[p] = "leave" /\ pc'[p] = "off"
    BY <1>1, <1>18 DEF Leave, Forget
  <2> QED BY <1>2, <2>1, StepsAtPoint DEF StepsLeft
<1> HIDE DEF Goal
<1> QED BY <1>3, <1>4, <1>5, <1>6, <1>7, <1>8, <1>9, <1>10, <1>11, <1>12, <1>13, <1>14, <1>15,
           <1>16, <1>17, <1>18 DEF Continue

LEMMA OthersStepsKept ==
    ASSUME TypeOK, IdxInv, NEW p \in Controllers, [Next]_vars,
           ~(Start(p) \/ Continue(p) \/ CtrlC(p) \/ Die(p))
    PROVE  StepsLeft(p)' = StepsLeft(p)
<1> SUFFICES /\ pc'[p] = pc[p] /\ idx'[p] = idx[p] /\ pend'[p] = pend[p]
             /\ call'[p] = call[p]
  BY DEF StepsLeft
<1>1. RunTypeOK /\ p \in Runners
  BY ControllersAssumption DEF TypeOK
<1>2. ASSUME NEW q \in Controllers, Start(q) \/ Continue(q) \/ CtrlC(q) \/ Die(q)
      PROVE  pc'[p] = pc[p] /\ idx'[p] = idx[p] /\ pend'[p] = pend[p] /\ call'[p] = call[p]
  <2>1. p \in Controllers \ {q}
    BY <1>2
  <2>2. pc'[p] = pc[p] /\ idx'[p] = idx[p] /\ pend'[p] = pend[p]
    BY <1>2, <2>1, Locality
  <2>3. call'[p] = call[p]
    BY <1>1, <1>2, <2>1, ControllerMove, CallLocality, ControllersAssumption DEF runVars
  <2> QED BY <2>2, <2>3
<1>3. ASSUME NEW r \in Directs, DirectStep(r)
      PROVE  pc'[p] = pc[p] /\ idx'[p] = idx[p] /\ pend'[p] = pend[p] /\ call'[p] = call[p]
  <2>1. RunnerStep(r) /\ r \in Runners /\ r # p
    BY <1>3 DEF DirectStep, CallEnds, Killed, RunnerStep, Directs
  <2>2. call'[p] = call[p]
    BY <1>1, <2>1, CallLocality
  <2> QED BY <1>3, <2>2 DEF DirectStep, memory
<1>4. CASE CloseWindow \/ UNCHANGED vars
  BY <1>4 DEF CloseWindow, vars, runVars, memory
<1> QED BY <1>2, <1>3, <1>4 DEF Next

\* Every step of a controller's own brings it closer to its end, Ctrl-C's included; only a new
\* start gives it steps.
StepsUsedUp ==
    [][\A p \in Controllers :
         /\ Continue(p) \/ CtrlC(p) => StepsLeft(p)' < StepsLeft(p)
         /\ StepsLeft(p)' > StepsLeft(p) => Start(p)]_vars

\* A controller has steps left exactly as long as it is running, and never more than MaxSteps.
StepsBound ==
    \A p \in Controllers : StepsLeft(p) \in 0..MaxSteps /\ (StepsLeft(p) = 0 <=> pc[p] = "off")

\* A started controller leaves run_campaign after at most MaxSteps = 31 * N + 45 steps of its own,
\* whatever the journal, its rivals and the executor's calls do: no loop of run_campaign, no
\* recorded event and no call of the executor can be repeated without end.
THEOREM StepsBounded == Spec => []StepsBound /\ StepsUsedUp
<1>1. TypeOK /\ IdxInv => StepsBound
  BY StepsLeftType DEF StepsBound
<1>2. ASSUME TypeOK, IdxInv, StepsBound, StepsBound', [Next]_vars, NEW p \in Controllers
      PROVE  /\ Continue(p) \/ CtrlC(p) => StepsLeft(p)' < StepsLeft(p)
             /\ StepsLeft(p)' > StepsLeft(p) => Start(p)
  <2>1. CASE Continue(p) \/ CtrlC(p)
    <3>1. StepsLeft(p)' < StepsLeft(p)
      BY <1>2, <2>1, OwnStepsFall
    <3>2. StepsLeft(p) \in Int /\ StepsLeft(p)' \in Int
      BY <1>2 DEF StepsBound, MaxSteps, PerSlot
    <3> QED BY <3>1, <3>2
  <2>2. CASE Die(p) /\ ~(Continue(p) \/ CtrlC(p))
    <3>1. StepsLeft(p)' = 0
      <4>1. pc'[p] = "off"
        BY <1>2, <2>2 DEF Die, Forget, Goto, TypeOK
      <4> QED BY <4>1, StepsAtPoint DEF StepsLeft
    <3>2. StepsLeft(p) \in Nat
      BY <1>2, StepsLeftType DEF MaxSteps, PerSlot
    <3> QED BY <2>2, <3>1, <3>2
  <2>3. CASE Start(p) /\ ~(Continue(p) \/ CtrlC(p))
    BY <2>3
  <2>4. CASE ~(Start(p) \/ Continue(p) \/ CtrlC(p) \/ Die(p))
    <3>1. StepsLeft(p)' = StepsLeft(p) /\ StepsLeft(p) \in Int
      BY <1>2, <2>4, OthersStepsKept, StepsLeftType DEF MaxSteps, PerSlot
    <3> QED BY <2>4, <3>1
  <2> QED BY <2>1, <2>2, <2>3, <2>4
<1>3. TypeOK /\ IdxInv /\ StepsBound /\ StepsBound' /\ [Next]_vars
        => [\A p \in Controllers :
              /\ Continue(p) \/ CtrlC(p) => StepsLeft(p)' < StepsLeft(p)
              /\ StepsLeft(p)' > StepsLeft(p) => Start(p)]_vars
  BY <1>2
<1>4. ControlInv => IdxInv
  BY DEF ControlInv, Own, IdxInv
<1> QED BY <1>1, <1>3, <1>4, TypeCorrect, ControlCorrect, PTL DEF Spec, StepsUsedUp
=============================================================================
