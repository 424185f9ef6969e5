--------------------------- MODULE NightwatchProofs ---------------------------
(***************************************************************************)
(* Theorems about Nightwatch for any number of controllers, direct runners *)
(* and slots, any threshold and any bound on starts: the types, ControlInv *)
(* and the safety properties that follow from it.                          *)
(***************************************************************************)
EXTENDS NightwatchInv, SlotRunProofs

USE NAssumption, ControllersAssumption, StrayDirsAssumption

-----------------------------------------------------------------------------
(* What the pure operators return. *)

LEMMA CampaignStatusType ==
    ASSUME NEW slots
    PROVE  CampaignStatus(slots) \in CampaignStatuses
BY DEF CampaignStatus, CampaignStatuses

LEMMA SealedResultType ==
    ASSUME NEW e \in Evidence
    PROVE  SealedResult(e) \in Results \cup {"none"}
BY DEF SealedResult, ShownResult, Evidence, Results, Failures, Success

LEMMA ReconciledType ==
    ASSUME NEW e \in Evidence, NEW status \in SlotStatuses, NEW sound \in BOOLEAN
    PROVE  /\ Reconciled(status, e, sound) \in Terminal \cup {"pending"}
           /\ status # "pending" => Reconciled(status, e, sound) \in Terminal
BY SealedResultType DEF Reconciled, Terminal, SlotStatuses, Results, Failures, Success

-----------------------------------------------------------------------------
(* Type correctness. *)

LEMMA RunTypesKept ==
    ASSUME RunTypeOK, NEW r \in Runners
    PROVE  /\ \A s \in Slots : Invoke(r, s) => RunTypeOK'
           /\ CallStep(r) => RunTypeOK'
           /\ \A result \in Failures \cap Endings : AbsorbInterrupt(r, result) => RunTypeOK'
           /\ Collect(r) /\ UNCHANGED evidence => RunTypeOK'
BY RunTypes DEF RunnerStep, AbsorbInterrupt, CallStep

LEMMA ReplayedType ==
    ASSUME TypeOK
    PROVE  Replayed \in Ledgers
<1> DEFINE slots == [s \in Slots |-> IF EndedUnpublished(s) THEN "manual_review"
                                        ELSE ledger.slots[s]]
<1>1. ledger \in Ledgers /\ Len(events) \in Nat
  BY DEF TypeOK
<1>2. slots \in [Slots -> SlotStatuses]
  BY <1>1 DEF Ledgers, SlotStatuses, Terminal
<1>3. [ledger EXCEPT !.seq = Len(events), !.slots = slots] \in Ledgers
  BY <1>1, <1>2 DEF Ledgers
<1> QED BY <1>3 DEF Replayed

(* Every slot value the loop writes is a slot status, every event it records   *)
(* is a pending event. *)
LEMMA RecordType ==
    ASSUME TypeOK, NEW p \in Controllers, NEW event, NEW slot, NEW status,
           \/ event \in SlotEvents /\ slot \in Slots /\ status \in SlotStatuses
           \/ event \in CampaignEvents /\ slot = 0 /\ status \in CampaignStatuses,
           Record(p, event, slot, status)
    PROVE  /\ pend' \in [Controllers -> Pending]
           /\ pc' \in [Controllers -> Pcs]
BY DEF TypeOK, Record, Goto, Pending, Pcs

LEMMA SetSlotType ==
    ASSUME TypeOK, NEW p \in Controllers, NEW s \in Slots, NEW status \in SlotStatuses,
           SetSlot(p, s, status)
    PROVE  mem' \in [Controllers -> Ledgers]
BY DEF TypeOK, SetSlot, Ledgers

(* A slot that was handed over ends with a terminal status. *)
LEMMA ConcludedStatus ==
    ASSUME NEW p \in Controllers, Conclude(p)
    PROVE  \E status \in Terminal :
             SetSlot(p, idx[p], status) /\ Record(p, "slot_finished", idx[p], status)
<1> DEFINE found(sound)  == Reconciled(mem[p].slots[idx[p]], evidence[idx[p]], sound)
           status(sound) == IF found(sound) \in Results THEN found(sound) ELSE "manual_review"
<1>1. PICK sound \in BOOLEAN :
        SetSlot(p, idx[p], status(sound)) /\ Record(p, "slot_finished", idx[p], status(sound))
  BY DEF Conclude
<1>2. status(sound) \in Terminal
  BY DEF Terminal
<1> QED BY <1>1, <1>2

LEMMA TypeInit == Init => TypeOK
<1> SUFFICES ASSUME Init
             PROVE  TypeOK
  OBVIOUS
<1>1. RunTypeOK
  BY DEF Init, RunInit, RunTypeOK, Evidence, Blank, Stages, Results, Failures, Calls, Idle,
         Phases, Slots
<1>2. NewLedger \in Ledgers
  BY DEF NewLedger, Ledgers, CampaignStatuses, SlotStatuses
<1>3. NoEvent \in Pending
  BY DEF NoEvent, Pending, CampaignEvents, CampaignStatuses
<1>4. /\ starts \in 0..MaxStarts
      /\ idx \in [Controllers -> 1..(N + 1)]
      /\ dispatches \in [Slots -> Nat]
  BY MaxStartsAssumption DEF Init
<1>5. events \in Seq(Events)
  BY DEF Init
<1>6. /\ pc \in [Controllers -> Pcs]
      /\ mem \in [Controllers -> Ledgers]
      /\ pend \in [Controllers -> Pending]
      /\ dirty \in [Controllers -> BOOLEAN]
  BY <1>2, <1>3 DEF Init, Pcs
<1> QED BY <1>1, <1>2, <1>4, <1>5, <1>6 DEF Init, TypeOK

LEMMA TypeStep == TypeOK /\ IdxInv /\ [Next]_vars => TypeOK'
<1> SUFFICES ASSUME TypeOK, IdxInv, [Next]_vars
             PROVE  TypeOK'
  OBVIOUS
<1> USE DEF TypeOK
<1> DEFINE Rest == UNCHANGED runVars
<1>0. Rest => RunTypeOK'
  BY DEF RunTypeOK, runVars
<1>1. ASSUME NEW p \in Controllers, Start(p)
      PROVE  TypeOK'
  BY <1>0, <1>1, MaxStartsAssumption DEF Start, Goto, Pcs, disk, memory
<1>2. ASSUME NEW p \in Controllers, AcquireLock(p)
      PROVE  TypeOK'
  BY <1>0, <1>2 DEF AcquireLock, Goto, Pcs, disk, memory
<1>3. ASSUME NEW p \in Controllers, LockBusy(p) \/ LoadRefused(p) \/ EndCycle(p) \/ WindowExpired(p)
      PROVE  TypeOK'
  BY <1>0, <1>3 DEF LockBusy, LoadRefused, EndCycle, WindowExpired, Goto, Pcs, disk, memory, frame
<1>4. ASSUME NEW p \in Controllers, LoadState(p)
      PROVE  TypeOK'
  BY <1>0, <1>4, ReplayedType DEF LoadState, Goto, Pcs, disk, frame
<1>5. ASSUME NEW p \in Controllers, ReconcileSlot(p)
      PROVE  TypeOK'
  <2> DEFINE s == idx[p]
  <2>1. s \in Slots
    BY <1>5 DEF ReconcileSlot, Slots
  <2>2. PICK sound \in BOOLEAN : SetSlot(p, s, Reconciled(mem[p].slots[s], evidence[s], sound))
    BY <1>5 DEF ReconcileSlot
  <2>7. evidence[s] \in Evidence /\ mem[p].slots[s] \in SlotStatuses
    BY <2>1 DEF RunTypeOK, Ledgers
  <2>6. Reconciled(mem[p].slots[s], evidence[s], sound) \in SlotStatuses
    BY <2>7, ReconciledType DEF SlotStatuses
  <2>3. mem' \in [Controllers -> Ledgers]
    BY <2>1, <2>2, <2>6, SetSlotType
  <2>4. dirty' \in [Controllers -> BOOLEAN]
    BY <1>5 DEF ReconcileSlot
  <2>5. idx' \in [Controllers -> 1..(N + 1)]
    BY <1>5, <2>1 DEF ReconcileSlot, Slots
  <2> QED BY <1>0, <1>5, <2>3, <2>4, <2>5 DEF ReconcileSlot, disk, frame
<1>6. ASSUME NEW p \in Controllers, FinishReconcile(p)
      PROVE  TypeOK'
  <2>1. mem' \in [Controllers -> Ledgers]
    BY <1>6, CampaignStatusType DEF FinishReconcile, Ledgers
  <2>2. dirty' \in [Controllers -> BOOLEAN]
    BY <1>6 DEF FinishReconcile
  <2> QED BY <1>0, <1>6, <2>1, <2>2 DEF FinishReconcile, Goto, Pcs, disk, frame
<1>7. ASSUME NEW p \in Controllers, CreateLedger(p)
      PROVE  TypeOK'
  BY <1>0, <1>7 DEF CreateLedger, Goto, Pcs, memory, frame
<1>8. ASSUME NEW p \in Controllers, Announce(p)
      PROVE  TypeOK'
  <2> DEFINE status == CampaignStatus(mem[p].slots)
  <2>1. status \in CampaignStatuses
    BY CampaignStatusType
  <2>2. pend' \in [Controllers -> Pending] /\ pc' \in [Controllers -> Pcs]
    <3>1. CASE Record(p, "campaign_started", 0, status)
      BY <2>1, <3>1, RecordType DEF CampaignEvents
    <3>2. CASE Record(p, "campaign_reconciled", 0, status)
      BY <2>1, <3>2, RecordType DEF CampaignEvents
    <3>3. CASE Goto(p, "select") /\ UNCHANGED pend
      BY <3>3 DEF Goto, Pcs
    <3> QED BY <1>8, <3>1, <3>2, <3>3 DEF Announce
  <2>3. idx' \in [Controllers -> 1..(N + 1)]
    BY <1>8 DEF Announce
  <2> QED BY <1>0, <1>8, <2>2, <2>3 DEF Announce, disk, frame
<1>9. ASSUME NEW p \in Controllers, AppendEvent(p)
      PROVE  TypeOK'
  <2> DEFINE e   == pend[p]
             new == [seq |-> mem[p].seq + 1, event |-> e.event, slot |-> e.slot,
                     status |-> e.status]
  <2>1. e \in Pending /\ mem[p].seq + 1 \in Nat
    BY DEF Ledgers
  <2>2. new \in Events
    BY <2>1 DEF Pending, Events
  <2>3. events' \in Seq(Events)
    BY <1>9, <2>2 DEF AppendEvent
  <2>4. mem' \in [Controllers -> Ledgers]
    <3>1. (IF e.slot = 0 THEN e.status ELSE CampaignStatus(mem[p].slots)) \in CampaignStatuses
      <4>1. CASE e.slot = 0
        BY <2>1, <4>1 DEF Pending, Slots
      <4>2. CASE e.slot # 0
        BY <4>2, CampaignStatusType
      <4> QED BY <4>1, <4>2
    <3> QED BY <1>9, <2>1, <3>1 DEF AppendEvent, Ledgers
  <2> QED BY <1>0, <1>9, <2>3, <2>4 DEF AppendEvent, Goto, Pcs, frame
<1>10. ASSUME NEW p \in Controllers, PublishLedger(p)
       PROVE  TypeOK'
  <2>1. AfterRecord(p) \in Pcs
    BY DEF AfterRecord, Pcs, Pending, SlotEvents, CampaignEvents
  <2>2. pc' \in [Controllers -> Pcs]
    BY <1>10, <2>1 DEF PublishLedger, Goto
  <2>3. ledger' \in Ledgers
    BY <1>10 DEF PublishLedger
  <2>4. RunTypeOK' /\ idx' \in [Controllers -> 1..(N + 1)]
    <3>1. CASE pend[p].event = "slot_finished"
      <4>1. pend[p].slot \in Slots
        BY <3>1 DEF Pending, CampaignEvents
      <4>2. pend[p].slot + 1 \in 1..(N + 1)
        BY <4>1 DEF Slots
      <4> QED BY <1>10, <3>1, <4>2, RunTypesKept DEF PublishLedger
    <3>2. CASE pend[p].event # "slot_finished"
      BY <1>10, <3>2 DEF PublishLedger, RunTypeOK
    <3> QED BY <3>1, <3>2
  <2> QED BY <1>10, <2>2, <2>3, <2>4 DEF PublishLedger, frame
<1>11. ASSUME NEW p \in Controllers, SkipTerminal(p)
       PROVE  TypeOK'
  <2>1. idx[p] + 1 \in 1..(N + 1)
    BY <1>11 DEF SkipTerminal, AtSlot
  <2> QED BY <1>0, <1>11, <2>1 DEF SkipTerminal, disk, frame
<1>12. ASSUME NEW p \in Controllers, DriftFound(p)
       PROVE  TypeOK'
  <2>1. idx[p] \in Slots
    BY <1>12 DEF DriftFound, AtSlot, Slots
  <2>2. mem' \in [Controllers -> Ledgers]
    BY <1>12, <2>1, SetSlotType DEF DriftFound, SlotStatuses, Terminal
  <2>3. pend' \in [Controllers -> Pending] /\ pc' \in [Controllers -> Pcs]
    BY <1>12, <2>1, RecordType DEF DriftFound, SlotEvents, SlotStatuses, Terminal
  <2> QED BY <1>0, <1>12, <2>2, <2>3 DEF DriftFound, disk, frame
<1>13. ASSUME NEW p \in Controllers, StartSlot(p)
       PROVE  TypeOK'
  <2>1. idx[p] \in Slots
    BY <1>13 DEF StartSlot, AtSlot, Slots
  <2>2. mem' \in [Controllers -> Ledgers]
    BY <1>13, <2>1, SetSlotType DEF StartSlot, SlotStatuses
  <2>3. pend' \in [Controllers -> Pending] /\ pc' \in [Controllers -> Pcs]
    BY <1>13, <2>1, RecordType DEF StartSlot, SlotEvents, SlotStatuses
  <2> QED BY <1>0, <1>13, <2>2, <2>3 DEF StartSlot, disk, frame
<1>14. ASSUME NEW p \in Controllers, Execute(p)
       PROVE  TypeOK'
  <2>1. idx[p] \in Slots
    BY <1>14 DEF Execute, IdxInv, IdxOf
  <2>2. RunTypeOK'
    BY <1>14, <2>1, RunTypesKept DEF Execute
  <2>3. dispatches' \in [Slots -> Nat]
    <3>1. dispatches' = [dispatches EXCEPT ![idx[p]] = @ + 1]
      BY <1>14 DEF Execute
    <3>2. dispatches \in [Slots -> Nat]
      OBVIOUS
    <3>3. dispatches[idx[p]] + 1 \in Nat
      BY <2>1, <3>2
    <3> HIDE DEF TypeOK, Slots
    <3> QED BY <2>1, <3>1, <3>2, <3>3
  <2>4. pc' \in [Controllers -> Pcs]
    BY <1>14 DEF Execute, Goto, Pcs
  <2> QED BY <1>14, <2>2, <2>3, <2>4 DEF Execute, disk, memory
<1>15. ASSUME NEW p \in Controllers, ExecutorStep(p)
       PROVE  TypeOK'
  BY <1>15, RunTypesKept DEF ExecutorStep, disk, memory, frame
<1>16. ASSUME NEW p \in Controllers, CtrlC(p)
       PROVE  TypeOK'
  BY <1>16, RunTypesKept DEF CtrlC, disk, memory
<1>17. ASSUME NEW p \in Controllers, Conclude(p)
       PROVE  TypeOK'
  <2>1. idx[p] \in Slots
    BY <1>17 DEF Conclude, IdxInv, IdxOf
  <2>2. PICK status \in Terminal :
          SetSlot(p, idx[p], status) /\ Record(p, "slot_finished", idx[p], status)
    BY <1>17, ConcludedStatus
  <2>5. status \in SlotStatuses
    BY DEF SlotStatuses
  <2>3. mem' \in [Controllers -> Ledgers]
    BY <2>1, <2>2, <2>5, SetSlotType
  <2>4. pend' \in [Controllers -> Pending] /\ pc' \in [Controllers -> Pcs]
    BY <2>1, <2>2, <2>5, RecordType DEF SlotEvents
  <2> QED BY <1>0, <1>17, <2>3, <2>4 DEF Conclude, disk, frame
<1>18. ASSUME NEW p \in Controllers, Finish(p)
       PROVE  TypeOK'
  <2> DEFINE status == IF pc[p] = "expired" THEN "stopped" ELSE CampaignStatus(mem[p].slots)
             event  == IF status \in {"stopped", "manual_review"} THEN "campaign_stopped"
                       ELSE "campaign_cycle_completed"
  <2>1. status \in CampaignStatuses /\ event \in CampaignEvents
    BY CampaignStatusType DEF CampaignStatuses, CampaignEvents
  <2>2. Record(p, event, 0, status)
    BY <1>18 DEF Finish
  <2>3. pend' \in [Controllers -> Pending] /\ pc' \in [Controllers -> Pcs]
    BY <2>1, <2>2, RecordType
  <2> QED BY <1>0, <1>18, <2>3 DEF Finish, disk, frame
<1>19. ASSUME NEW p \in Controllers, Forget(p)
       PROVE  /\ mem' \in [Controllers -> Ledgers]
              /\ idx' \in [Controllers -> 1..(N + 1)]
              /\ dirty' \in [Controllers -> BOOLEAN]
              /\ pend' \in [Controllers -> Pending]
              /\ cancelled' \subseteq Controllers
              /\ pc' \in [Controllers -> Pcs]
  <2>1. NewLedger \in Ledgers
    BY DEF NewLedger, Ledgers, CampaignStatuses, SlotStatuses
  <2>2. NoEvent \in Pending
    BY DEF NoEvent, Pending, CampaignEvents, CampaignStatuses
  <2> QED BY <1>19, <2>1, <2>2 DEF Forget, Goto, Pcs
<1>20. ASSUME NEW p \in Controllers, Leave(p)
       PROVE  TypeOK'
  BY <1>0, <1>19, <1>20 DEF Leave, disk
<1>21. ASSUME NEW p \in Controllers, Die(p)
       PROVE  TypeOK'
  <2>1. RunTypeOK'
    BY <1>21, RunTypesKept DEF Die
  <2>2. torn' \in BOOLEAN
    BY <1>21 DEF Die
  <2> QED BY <1>19, <1>21, <2>1, <2>2 DEF Die
<1>22. ASSUME NEW r \in Directs, DirectStep(r)
       PROVE  TypeOK'
  <2>1. RunTypeOK'
    BY <1>22, RunTypesKept DEF DirectStep, Directs, CallEnds, Killed
  <2> QED BY <1>22, <2>1 DEF DirectStep, disk, memory, frame
<1>23. ASSUME CloseWindow
       PROVE  TypeOK'
  BY <1>0, <1>23 DEF CloseWindow, disk, memory
<1>24. ASSUME UNCHANGED vars
       PROVE  TypeOK'
  BY <1>0, <1>24 DEF vars, runVars, disk, memory, frame
<1> QED
  BY <1>1, <1>2, <1>3, <1>4, <1>5, <1>6, <1>7, <1>8, <1>9, <1>10, <1>11, <1>12, <1>13,
     <1>14, <1>15, <1>16, <1>17, <1>18, <1>20, <1>21, <1>22, <1>23, <1>24
     DEF Next, Continue

LEMMA IdxInit == Init => IdxInv
BY DEF Init, IdxInv, IdxOf, Recording

LEMMA IdxStep == TypeOK /\ IdxInv /\ [Next]_vars => IdxInv'
<1> SUFFICES ASSUME TypeOK, IdxInv, [Next]_vars
             PROVE  IdxInv'
  OBVIOUS
<1> USE DEF IdxInv, IdxOf, Recording
<1>1. ASSUME NEW p \in Controllers,
             pc' = [pc EXCEPT ![p] = pc'[p]],
             \A q \in Controllers \ {p} : pend'[q] = pend[q] /\ idx'[q] = idx[q],
             pc'[p] \notin {"append", "publish", "execute", "await"}
      PROVE  IdxInv'
  BY <1>1 DEF TypeOK
<1>2. ASSUME NEW p \in Controllers,
             \/ Start(p) \/ AcquireLock(p) \/ LockBusy(p) \/ LoadRefused(p) \/ EndCycle(p)
             \/ WindowExpired(p) \/ LoadState(p) \/ FinishReconcile(p) \/ CreateLedger(p)
      PROVE  IdxInv'
  BY <1>1, <1>2 DEF TypeOK, Start, AcquireLock, LockBusy, LoadRefused, EndCycle, WindowExpired,
       LoadState, FinishReconcile, CreateLedger, Goto, memory
<1>3. ASSUME NEW p \in Controllers, ReconcileSlot(p) \/ SkipTerminal(p)
      PROVE  IdxInv'
  BY <1>1, <1>3 DEF TypeOK, ReconcileSlot, SkipTerminal, AtSlot
<1>4. ASSUME NEW p \in Controllers, Forget(p)
      PROVE  IdxInv'
  BY <1>1, <1>4 DEF TypeOK, Forget, Goto
<1>5. ASSUME NEW p \in Controllers, Leave(p) \/ Die(p)
      PROVE  IdxInv'
  BY <1>4, <1>5 DEF Leave, Die
<1>6. ASSUME NEW p \in Controllers, NEW event, NEW status, NEW slot,
             Record(p, event, slot, status),
             event \in SlotEvents => slot = idx'[p],
             \A q \in Controllers \ {p} : idx'[q] = idx[q]
      PROVE  IdxInv'
  BY <1>6 DEF TypeOK, Record, Goto
<1>7. ASSUME NEW p \in Controllers, Announce(p)
      PROVE  IdxInv'
  BY <1>1, <1>6, <1>7 DEF TypeOK, Announce, Goto, SlotEvents
<1>8. ASSUME NEW p \in Controllers, DriftFound(p) \/ StartSlot(p) \/ Conclude(p)
      PROVE  IdxInv'
  BY <1>6, <1>8 DEF DriftFound, StartSlot, Conclude
<1>9. ASSUME NEW p \in Controllers, Finish(p)
      PROVE  IdxInv'
  BY <1>6, <1>9 DEF Finish, SlotEvents
<1>10. ASSUME NEW p \in Controllers, AppendEvent(p)
       PROVE  IdxInv'
  BY <1>10 DEF TypeOK, AppendEvent, Goto
<1>11. ASSUME NEW p \in Controllers, PublishLedger(p)
       PROVE  IdxInv'
  <2>1. pc' = [pc EXCEPT ![p] = AfterRecord(p)]
    BY <1>11 DEF PublishLedger, Goto
  <2>2. CASE pend[p].event = "slot_started"
    <3>1. idx'[p] \in Slots
      BY <1>11, <2>2 DEF TypeOK, PublishLedger, Pending, SlotEvents, CampaignEvents
    <3> QED BY <1>11, <2>1, <2>2, <3>1 DEF TypeOK, PublishLedger, AfterRecord
  <2>3. CASE pend[p].event # "slot_started"
    <3>1. AfterRecord(p) \in {"select", "final", "leave"}
      BY <2>3 DEF TypeOK, AfterRecord, Pending, SlotEvents, CampaignEvents
    <3>2. \A q \in Controllers \ {p} : pend'[q] = pend[q] /\ idx'[q] = idx[q]
      BY <1>11 DEF TypeOK, PublishLedger
    <3> QED BY <1>1, <2>1, <3>1, <3>2 DEF TypeOK
  <2> QED BY <2>2, <2>3
<1>12. ASSUME NEW p \in Controllers, Execute(p)
       PROVE  IdxInv'
  BY <1>12 DEF TypeOK, Execute, Goto, memory
<1>13. ASSUME NEW p \in Controllers, ExecutorStep(p) \/ CtrlC(p)
       PROVE  IdxInv'
  BY <1>13 DEF ExecutorStep, CtrlC, memory
<1>14. ASSUME NEW r \in Directs, DirectStep(r)
       PROVE  IdxInv'
  BY <1>14 DEF DirectStep, memory
<1>15. ASSUME CloseWindow \/ UNCHANGED vars
       PROVE  IdxInv'
  BY <1>15 DEF CloseWindow, vars, memory
<1> QED
  BY <1>2, <1>3, <1>5, <1>7, <1>8, <1>9, <1>10, <1>11, <1>12, <1>13, <1>14, <1>15
     DEF Next, Continue

\* Every reachable state is a state of the declared types: every slot status,
\* campaign status and event that run_campaign writes is one that the validators
\* of the ledger and the journal know, with a slot where one is required.
THEOREM TypeCorrect == Spec => []TypeOK
<1>1. Init => TypeOK /\ IdxInv
  BY TypeInit, IdxInit
<1>2. TypeOK /\ IdxInv /\ [Next]_vars => TypeOK' /\ IdxInv'
  BY TypeStep, IdxStep
<1> QED BY <1>1, <1>2, PTL DEF Spec

-----------------------------------------------------------------------------
(***************************************************************************)
(* ControlInv.  The steps of a controller inside the locked region are     *)
(* treated alike: <1>k shows Files' and Own(p)' for the stepping           *)
(* controller p; LockStep and OthersOutside show that every other          *)
(* controller is outside the region, where Own says nothing.               *)
(***************************************************************************)

HIDE StrayDirsAssumption

-----------------------------------------------------------------------------
(* The lock. *)

LEMMA LockInit == Init => LockInv
BY DEF Init, LockInv, Inside

LEMMA LockStep == TypeOK /\ LockInv /\ [Next]_vars => LockInv'
<1> SUFFICES ASSUME TypeOK, LockInv, [Next]_vars
             PROVE  LockInv'
  OBVIOUS
<1> USE DEF LockInv, Inside, Pcs, Goto
<1>1. pc \in [Controllers -> Pcs] /\ locked \subseteq Controllers
  BY DEF TypeOK
<1>2. ASSUME NEW p \in Controllers, Start(p) \/ LockBusy(p)
      PROVE  LockInv'
  BY <1>1, <1>2 DEF Start, LockBusy, frame
<1>3. ASSUME NEW p \in Controllers, AcquireLock(p)
      PROVE  LockInv'
  BY <1>1, <1>3 DEF AcquireLock
<1>4. ASSUME NEW p \in Controllers,
             \/ LoadRefused(p) \/ LoadState(p) \/ ReconcileSlot(p) \/ FinishReconcile(p)
             \/ CreateLedger(p) \/ AppendEvent(p) \/ EndCycle(p) \/ SkipTerminal(p)
             \/ WindowExpired(p) \/ Execute(p) \/ ExecutorStep(p) \/ CtrlC(p)
      PROVE  LockInv'
  BY <1>1, <1>4 DEF LoadRefused, LoadState, ReconcileSlot, FinishReconcile, CreateLedger,
       AppendEvent, EndCycle, SkipTerminal, WindowExpired, Execute, ExecutorStep, CtrlC,
       AtSlot, frame
<1>5. ASSUME NEW p \in Controllers,
             Announce(p) \/ DriftFound(p) \/ StartSlot(p) \/ Conclude(p) \/ Finish(p)
      PROVE  LockInv'
  BY <1>1, <1>5 DEF Announce, DriftFound, StartSlot, Conclude, Finish, Record, AtSlot, frame
<1>6. ASSUME NEW p \in Controllers, PublishLedger(p)
      PROVE  LockInv'
  <2>1. AfterRecord(p) \in {"select", "execute", "final", "leave"}
    BY DEF TypeOK, AfterRecord, Pending, SlotEvents, CampaignEvents
  <2> QED BY <1>1, <1>6, <2>1 DEF PublishLedger, frame
<1>7. ASSUME NEW p \in Controllers, Leave(p) \/ Die(p)
      PROVE  LockInv'
  BY <1>1, <1>7 DEF Leave, Die, Forget
<1>8. ASSUME NEW r \in Directs, DirectStep(r)
      PROVE  LockInv'
  BY <1>8 DEF DirectStep, frame
<1>9. ASSUME CloseWindow \/ UNCHANGED vars
      PROVE  LockInv'
  BY <1>9 DEF CloseWindow, vars, frame
<1> QED
  BY <1>2, <1>3, <1>4, <1>5, <1>6, <1>7, <1>8, <1>9 DEF Next, Continue

LEMMA OthersOutside ==
    ASSUME LockInv, NEW p \in Controllers, pc[p] \in Inside
    PROVE  \A q \in Controllers \ {p} : pc[q] \notin Inside
BY DEF LockInv

-----------------------------------------------------------------------------
(* The verdicts of _campaign_status that the slot loop relies on. *)

LEMMA StatusFacts ==
    ASSUME NEW slots
    PROVE  /\ (\E s \in Slots : slots[s] = "manual_review")
                => CampaignStatus(slots) = "manual_review"
           /\ /\ CampaignStatus(slots) \notin {"manual_review", "stopped"}
              /\ \A s \in Slots : slots[s] \in Terminal
              => CampaignStatus(slots) \in {"completed_ungraded", "completed_with_failures"}
BY DEF CampaignStatus

LEMMA ControlInit == Init => ControlInv
<1> SUFFICES ASSUME Init
             PROVE  ControlInv
  OBVIOUS
<1>1. Files
  BY DEF Init, Files, JournalInv, DispatchInv, FlagInv, Flags, Ends, NewLedger
<1>2. ASSUME NEW p \in Controllers
      PROVE  Own(p)
  BY <1>2 DEF Init, Own, MemoryOf, IdxOf, PendOf, LoopOf, RunningOf, BusyOf, DispatchOf,
     FlagOf, Loaded, Published, Inside, Recording, Starting, Busy
<1> QED BY <1>1, <1>2, LockInit DEF ControlInv

-----------------------------------------------------------------------------
(* The steps of the controller that holds the lock. *)

LEMMA HolderStep ==
    ASSUME TypeOK, TypeOK', Files, NEW p \in Controllers, Own(p), pc[p] \in Inside,
           Continue(p) \/ CtrlC(p)
    PROVE  Files' /\ Own(p)'
<1> USE DEF Files, Own, Loaded, Published, Inside, Goto
<1> DEFINE Parts == /\ MemoryOf(p)'
                    /\ IdxOf(p)'
                    /\ PendOf(p)'
                    /\ LoopOf(p)'
                    /\ RunningOf(p)'
                    /\ BusyOf(p)'
                    /\ DispatchOf(p)'
                    /\ FlagOf(p)'
<1>1. ASSUME disk' = disk, dispatches' = dispatches
      PROVE  Files'
  BY <1>1 DEF disk, JournalInv, DispatchInv, FlagInv, Flags, Ends
<1>2. ASSUME pc'[p] \in {"off", "lock", "load", "leave"}
      PROVE  Own(p)'
  BY <1>2 DEF MemoryOf, IdxOf, PendOf, LoopOf, RunningOf, BusyOf, DispatchOf, FlagOf,
     Recording, Starting, Busy
<1>3. CASE LoadRefused(p)
  BY <1>1, <1>2, <1>3 DEF LoadRefused, frame, TypeOK
<1>4. CASE LoadState(p)
  <2>1. Files'
    BY <1>1, <1>4 DEF LoadState, frame
  <2>2. /\ pc'[p] = "reconcile"
        /\ mem'[p] = Replayed
        /\ idx'[p] = 1
        /\ UNCHANGED <<events, created, ledger, dispatches>>
    BY <1>4 DEF LoadState, TypeOK, disk, frame
  <2>3. /\ Replayed.seq = Len(events)
        /\ \A s \in Slots : Replayed.slots[s] =
             IF EndedUnpublished(s) THEN "manual_review" ELSE ledger.slots[s]
    BY DEF Replayed, TypeOK, Ledgers
  <2>4. DispatchOf(p)'
    BY <2>2, <2>3 DEF DispatchOf, DispatchInv, Starting, Recording
  <2>5. FlagOf(p)'
    <3> SUFFICES ASSUME NEW s \in Slots, Ends(s, Len(events))
                 PROVE  Replayed.slots[s] \in Terminal
      BY <2>2 DEF FlagOf, Ends
    <3>1. CASE EndedUnpublished(s)
      BY <2>3, <3>1 DEF Terminal
    <3>2. CASE ~EndedUnpublished(s)
      <4>1. PICK i \in 1..Len(events) :
              /\ events[i].event \in {"slot_finished", "slot_requires_manual_review"}
              /\ events[i].slot = s
        BY DEF Ends
      <4>2. ledger.seq \in Nat /\ Len(events) \in Nat
        BY DEF TypeOK, Ledgers
      <4>3. i \in 1..ledger.seq
        BY <3>2, <4>1, <4>2 DEF EndedUnpublished
      <4>4. Ends(s, ledger.seq)
        BY <4>1, <4>3 DEF Ends
      <4> QED BY <2>3, <3>2, <4>4 DEF FlagInv
    <3> QED BY <3>1, <3>2
  <2>6. /\ MemoryOf(p)'
        /\ IdxOf(p)'
        /\ PendOf(p)'
        /\ LoopOf(p)'
        /\ RunningOf(p)'
        /\ BusyOf(p)'
    BY <2>2, <2>3 DEF MemoryOf, IdxOf, PendOf, LoopOf, RunningOf, BusyOf, Recording, Starting,
       Busy, Slots
  <2> QED BY <2>1, <2>4, <2>5, <2>6
<1>5. CASE ReconcileSlot(p)
  <2> DEFINE s == idx[p]
  <2>1. Files'
    BY <1>1, <1>5 DEF ReconcileSlot, frame
  <2>2. s \in Slots
    BY <1>5 DEF ReconcileSlot, TypeOK, Slots
  <2>10. PICK sound \in BOOLEAN : SetSlot(p, s, Reconciled(mem[p].slots[s], evidence[s], sound))
    BY <1>5 DEF ReconcileSlot
  <2> DEFINE new == Reconciled(mem[p].slots[s], evidence[s], sound)
  <2>3. /\ new \in Terminal \cup {"pending"}
        /\ mem[p].slots[s] # "pending" => new \in Terminal
    BY <2>2, ReconciledType DEF TypeOK, RunTypeOK, Ledgers
  <2>4. /\ mem'[p].seq = mem[p].seq
        /\ mem'[p].slots = [mem[p].slots EXCEPT ![s] = new]
        /\ idx'[p] = s + 1
        /\ pc'[p] = "reconcile"
        /\ UNCHANGED <<pc, events, created, ledger, dispatches>>
    BY <1>5, <2>10 DEF ReconcileSlot, SetSlot, TypeOK, Ledgers, disk, frame
  <2> HIDE DEF new
  <2>5. mem[p].slots \in [Slots -> SlotStatuses] /\ dispatches \in [Slots -> Nat]
    BY DEF TypeOK, Ledgers
  <2>6. RunningOf(p)'
    <3>1. new # "running"
      BY <2>3 DEF Terminal, Results, Failures, Success
    <3>2. \A j \in Slots : j < s + 1 => j < s \/ j = s
      BY <2>2 DEF Slots
    <3>3. \A j \in Slots : j < s + 1 => mem'[p].slots[j] # "running"
      BY <1>5, <2>2, <2>4, <2>5, <3>1, <3>2 DEF RunningOf, ReconcileSlot
    <3> QED BY <2>4, <3>3 DEF RunningOf
  <2>7. DispatchOf(p)'
    BY <2>2, <2>3, <2>4, <2>5 DEF DispatchOf, Starting, Recording, Terminal, Results,
       Failures, Success
  <2>8. FlagOf(p)'
    BY <2>2, <2>3, <2>4, <2>5 DEF FlagOf, Ends, Terminal, Results, Failures, Success
  <2>9. /\ MemoryOf(p)'
        /\ IdxOf(p)'
        /\ PendOf(p)'
        /\ LoopOf(p)'
        /\ BusyOf(p)'
    BY <2>4 DEF MemoryOf, IdxOf, PendOf, LoopOf, BusyOf, Recording, Starting, Busy
  <2> QED BY <2>1, <2>6, <2>7, <2>8, <2>9
<1>6. CASE FinishReconcile(p)
  <2>1. Files'
    BY <1>1, <1>6 DEF FinishReconcile, frame
  <2>2. /\ pc[p] = "reconcile" /\ idx[p] = N + 1
        /\ pc'[p] = IF created THEN "announce" ELSE "create"
        /\ mem'[p].seq = mem[p].seq
        /\ mem'[p].slots = mem[p].slots
        /\ UNCHANGED <<events, created, ledger, dispatches>>
    BY <1>6 DEF FinishReconcile, TypeOK, Ledgers, disk, frame
  <2>3. /\ MemoryOf(p)'
        /\ IdxOf(p)'
        /\ PendOf(p)'
        /\ LoopOf(p)'
        /\ BusyOf(p)'
        /\ DispatchOf(p)'
        /\ FlagOf(p)'
    BY <2>2 DEF MemoryOf, IdxOf, PendOf, LoopOf, BusyOf, DispatchOf, FlagOf, Ends, Recording,
       Starting, Busy
  <2>4. RunningOf(p)'
    <3>1. \A j \in Slots : j < idx[p]
      BY <2>2 DEF Slots
    <3>2. \A j \in Slots : mem'[p].slots[j] # "running"
      BY <2>2, <3>1 DEF RunningOf
    <3> QED BY <2>2, <3>2 DEF RunningOf
  <2> QED BY <2>1, <2>3, <2>4
<1>7. CASE CreateLedger(p)
  <2>1. /\ pc[p] = "create" /\ pc'[p] = "announce"
        /\ ledger' = mem[p]
        /\ created' = TRUE
        /\ UNCHANGED <<events, dispatches, mem, idx, pend>>
    BY <1>7 DEF CreateLedger, TypeOK, memory, frame
  <2>2. Files'
    BY <2>1 DEF JournalInv, DispatchInv, FlagInv, Flags, Ends, MemoryOf, DispatchOf, FlagOf, TypeOK
  <2>3. Own(p)'
    BY <2>1 DEF MemoryOf, IdxOf, PendOf, LoopOf, RunningOf, BusyOf, DispatchOf, FlagOf, Ends,
       Recording, Starting, Busy
  <2> QED BY <2>2, <2>3
<1>8. CASE Announce(p)
  <2> DEFINE status == CampaignStatus(mem[p].slots)
  <2>1. Files'
    BY <1>1, <1>8 DEF Announce, frame
  <2>2. /\ pc[p] = "announce"
        /\ idx'[p] = 1
        /\ UNCHANGED <<events, created, ledger, dispatches, mem>>
        /\ \/ pc'[p] = "select"
           \/ /\ pc'[p] = "append"
              /\ pend'[p] \in [event : {"campaign_started", "campaign_reconciled"},
                               slot : {0}, status : {status}]
    BY <1>8 DEF Announce, Record, TypeOK, disk, frame
  <2>3. Own(p)'
    BY <2>2 DEF MemoryOf, IdxOf, PendOf, ValidEvent, SlotEvents, LoopOf, RunningOf, BusyOf,
       DispatchOf, FlagOf, Ends, Recording, Starting, Busy, Slots
  <2> QED BY <2>1, <2>3
<1>9. CASE AppendEvent(p)
  <2> DEFINE e == pend[p]
             n == Len(events)
             new == [seq |-> n + 1, event |-> e.event, slot |-> e.slot, status |-> e.status]
  <2>1. /\ pc[p] = "append" /\ pc'[p] = "publish"
        /\ events' = Append(events, new)
        /\ mem'[p].seq = n + 1
        /\ mem'[p].slots = mem[p].slots
        /\ UNCHANGED <<created, ledger, idx, pend, dispatches>>
    BY <1>9 DEF AppendEvent, MemoryOf, TypeOK, Ledgers, frame
  <2>2. /\ n \in Nat
        /\ Len(events') = n + 1
        /\ \A i \in 1..n : events'[i] = events[i]
        /\ events'[n + 1] = new
    BY <2>1 DEF TypeOK
  <2>3. ValidEvent(new) /\ created
    BY <2>1 DEF MemoryOf, PendOf, Recording, ValidEvent
  <2>4. \A s \in Slots, m \in 0..n : Ends(s, m)' => Ends(s, m)
    BY <2>2 DEF Ends
  <2>5. ASSUME NEW s \in Slots, Flags(s, Len(events))'
        PROVE  Flags(s, n) \/ (e.event = "slot_requires_manual_review" /\ s = idx[p])
    <3>1. PICK i \in 1..(n + 1) :
            events'[i].event = "slot_requires_manual_review" /\ events'[i].slot = s
      BY <2>2, <2>5 DEF Flags
    <3>2. CASE i \in 1..n
      BY <2>2, <3>1, <3>2 DEF Flags
    <3>3. CASE i = n + 1
      BY <2>1, <2>2, <3>1, <3>3 DEF IdxOf, Recording, SlotEvents
    <3> QED BY <2>2, <3>2, <3>3
  <2>11. ASSUME NEW s \in Slots, Ends(s, Len(events))'
         PROVE  \/ Ends(s, n)
                \/ /\ e.event \in {"slot_finished", "slot_requires_manual_review"}
                   /\ s = idx[p]
    <3>1. PICK i \in 1..(n + 1) :
            /\ events'[i].event \in {"slot_finished", "slot_requires_manual_review"}
            /\ events'[i].slot = s
      BY <2>2, <2>11 DEF Ends
    <3>2. CASE i \in 1..n
      BY <2>2, <3>1, <3>2 DEF Ends
    <3>3. CASE i = n + 1
      BY <2>1, <2>2, <3>1, <3>3 DEF IdxOf, Recording, SlotEvents
    <3> QED BY <2>2, <3>2, <3>3
  <2>6. JournalInv'
    <3>1. \A i \in 1..(n + 1) : i \in 1..n \/ i = n + 1
      BY <2>2
    <3>2. \A i \in 1..(n + 1) : events'[i].seq = i /\ ValidEvent(events'[i])
      BY <2>2, <2>3, <3>1 DEF JournalInv
    <3>3. ledger.seq <= n + 1
      BY <2>2 DEF JournalInv, TypeOK, Ledgers
    <3> QED BY <2>1, <2>2, <2>3, <3>2, <3>3 DEF JournalInv, ValidEvent
  <2>7. DispatchInv'
    BY <2>1 DEF DispatchInv
  <2>8. FlagInv'
    <3>1. ledger.seq \in 0..n
      BY <2>2 DEF JournalInv, TypeOK, Ledgers
    <3>2. \A s \in Slots : Ends(s, ledger.seq)' => ledger.slots[s] \in Terminal
      BY <2>1, <2>4, <3>1 DEF FlagInv, Ends
    <3>3. \A s \in Slots : Flags(s, Len(events))' => dispatches[s] = 0
      BY <2>1, <2>5 DEF FlagInv, DispatchOf
    <3> QED BY <2>1, <2>2, <3>2, <3>3 DEF FlagInv, Flags, Ends
  <2>9. FlagOf(p)'
    <3>1. e.event \in {"slot_finished", "slot_requires_manual_review"}
            => mem[p].slots[idx[p]] \in Terminal
      BY <2>1 DEF PendOf, Recording, ValidEvent, Terminal
    <3>2. \A s \in Slots : Ends(s, Len(events))' => mem[p].slots[s] \in Terminal
      BY <2>1, <2>11, <3>1 DEF FlagOf
    <3> QED BY <2>1, <2>2, <3>2 DEF FlagOf, Ends
  <2>10. /\ MemoryOf(p)'
         /\ IdxOf(p)'
         /\ PendOf(p)'
         /\ LoopOf(p)'
         /\ RunningOf(p)'
         /\ BusyOf(p)'
         /\ DispatchOf(p)'
    BY <2>1, <2>2, <2>3 DEF MemoryOf, IdxOf, PendOf, LoopOf, RunningOf, BusyOf, DispatchOf,
       Recording, Starting, Busy, ValidEvent
  <2> QED BY <2>6, <2>7, <2>8, <2>9, <2>10
<1>10. CASE PublishLedger(p)
  <2> DEFINE e == pend[p]
  <2>1. /\ pc[p] = "publish" /\ pc'[p] = AfterRecord(p)
        /\ ledger' = mem[p]
        /\ UNCHANGED <<created, events, mem, pend, dispatches>>
        /\ idx'[p] = IF e.event = "slot_finished" THEN e.slot + 1 ELSE idx[p]
    BY <1>10 DEF PublishLedger, TypeOK, frame
  <2>2. Files'
    BY <2>1 DEF JournalInv, DispatchInv, FlagInv, Flags, Ends, MemoryOf, DispatchOf, FlagOf, TypeOK
  <2>3. e \in Pending
    BY DEF TypeOK
  <2>4. CASE e.event = "slot_started"
    <3>1. pc'[p] = "execute" /\ idx'[p] = idx[p] /\ Starting(p)
      BY <2>1, <2>4 DEF AfterRecord, Starting, Recording
    <3>2. idx[p] \in Slots
      BY <2>3, <2>4, <3>1 DEF IdxOf, Starting, Recording, SlotEvents, Pending, CampaignEvents
    <3> QED BY <2>1, <2>2, <3>1, <3>2 DEF MemoryOf, IdxOf, PendOf, LoopOf, RunningOf, BusyOf,
         DispatchOf, FlagOf, Ends, Recording, Starting, Busy
  <2>5. CASE e.event \in {"campaign_started", "campaign_reconciled"}
    <3>1. pc'[p] = "select" /\ idx'[p] = 1
      BY <2>1, <2>5 DEF AfterRecord, PendOf, Recording
    <3> QED BY <2>1, <2>2, <2>5, <3>1 DEF MemoryOf, IdxOf, PendOf, LoopOf, RunningOf, BusyOf,
         DispatchOf, FlagOf, Ends, Recording, Starting, Busy, Slots
  <2>6. CASE e.event = "slot_requires_manual_review" \/ e.event = "slot_finished"
    <3>1. e.slot = idx[p] /\ idx[p] \in Slots /\ mem[p].slots[idx[p]] = e.status
      BY <2>1, <2>3, <2>6 DEF IdxOf, PendOf, Recording, SlotEvents, Pending, CampaignEvents
    <3>2. \A j \in Slots : mem[p].slots[j] # "running"
      BY <2>1, <2>6 DEF RunningOf, Busy, Starting, Recording
    <3>3. CASE pc'[p] = "final" /\ e.status = "manual_review"
      <4>1. Stopping(p)
        BY <3>1, <3>3, StatusFacts DEF Stopping
      <4> QED BY <2>1, <2>2, <3>2, <3>3, <4>1 DEF MemoryOf, IdxOf, PendOf, LoopOf, RunningOf,
           BusyOf, DispatchOf, FlagOf, Ends, Recording, Starting, Busy, Stopping
    <3>4. CASE pc'[p] = "select" /\ e.event = "slot_finished"
      <4>1. \A j \in Slots : j < idx'[p] => mem[p].slots[j] \in Terminal
        <5>1. \A j \in Slots : j < idx[p] + 1 => j <= idx[p]
          BY <3>1 DEF Slots
        <5> QED BY <2>1, <3>1, <3>4, <5>1 DEF LoopOf, Recording
      <4> QED BY <2>1, <2>2, <3>2, <3>4, <4>1 DEF MemoryOf, IdxOf, PendOf, LoopOf, RunningOf,
           BusyOf, DispatchOf, FlagOf, Ends, Recording, Starting, Busy
    <3>5. CASE pc'[p] = "leave"
      BY <1>2, <2>2, <3>5
    <3>6. \/ pc'[p] = "final" /\ e.status = "manual_review"
          \/ pc'[p] = "select" /\ e.event = "slot_finished"
          \/ pc'[p] = "leave"
      <4>1. e.event = "slot_requires_manual_review" => e.status = "manual_review"
        BY <2>1 DEF PendOf, Recording, ValidEvent
      <4> QED BY <2>1, <2>6, <4>1 DEF AfterRecord
    <3> QED BY <3>3, <3>4, <3>5, <3>6
  <2>7. CASE e.event \in {"campaign_stopped", "campaign_cycle_completed"}
    <3>1. pc'[p] = "leave"
      BY <2>1, <2>7 DEF AfterRecord
    <3> QED BY <1>2, <2>2, <3>1
  <2> QED BY <2>3, <2>4, <2>5, <2>6, <2>7 DEF Pending, SlotEvents, CampaignEvents
<1>11. CASE EndCycle(p)
  <2>1. /\ pc[p] = "select" /\ pc'[p] = "final"
        /\ Stopping(p) \/ idx[p] = N + 1
        /\ UNCHANGED <<disk, mem, idx, pend, dispatches>>
    BY <1>11 DEF EndCycle, TypeOK, memory, frame
  <2>2. Files'
    BY <1>1, <2>1
  <2>3. Stopping(p) \/ \A j \in Slots : mem[p].slots[j] \in Terminal
    <3>1. idx[p] = N + 1 => \A j \in Slots : j < idx[p]
      BY DEF Slots
    <3> QED BY <2>1, <3>1 DEF LoopOf
  <2> QED BY <2>1, <2>2, <2>3 DEF MemoryOf, IdxOf, PendOf, LoopOf, RunningOf, BusyOf,
       DispatchOf, FlagOf, Ends, Recording, Starting, Busy, Stopping, disk
<1>12. CASE SkipTerminal(p)
  <2>1. /\ pc[p] = "select" /\ pc'[p] = "select"
        /\ idx[p] \in Slots
        /\ idx'[p] = idx[p] + 1
        /\ mem[p].slots[idx[p]] \in Terminal
        /\ UNCHANGED <<disk, mem, pend, dispatches>>
    BY <1>12 DEF SkipTerminal, AtSlot, TypeOK, Slots, frame
  <2>2. Files'
    BY <1>1, <2>1
  <2>3. \A j \in Slots : j < idx[p] + 1 => mem[p].slots[j] \in Terminal
    <3>1. \A j \in Slots : j < idx[p] + 1 => j < idx[p] \/ j = idx[p]
      BY <2>1 DEF Slots
    <3> QED BY <2>1, <3>1 DEF LoopOf
  <2> QED BY <2>1, <2>2, <2>3 DEF MemoryOf, IdxOf, PendOf, LoopOf, RunningOf, BusyOf,
       DispatchOf, FlagOf, Ends, Recording, Starting, Busy, disk
<1>13. CASE WindowExpired(p)
  <2>1. /\ pc[p] = "select" /\ pc'[p] = "expired"
        /\ UNCHANGED <<disk, mem, idx, pend, dispatches>>
    BY <1>13 DEF WindowExpired, AtSlot, TypeOK, memory, frame
  <2>2. Files'
    BY <1>1, <2>1
  <2> QED BY <2>1, <2>2 DEF MemoryOf, IdxOf, PendOf, LoopOf, RunningOf, BusyOf,
       DispatchOf, FlagOf, Ends, Recording, Starting, Busy, disk
<1>14. ASSUME NEW new \in SlotStatuses, NEW event \in SlotEvents,
              pc[p] \in {"select", "await"},
              idx[p] \in Slots,
              SetSlot(p, idx[p], new),
              Record(p, event, idx[p], new),
              UNCHANGED <<disk, idx, dispatches>>
       PROVE  /\ pc'[p] = "append" /\ idx'[p] = idx[p]
              /\ pend'[p] = [event |-> event, slot |-> idx[p], status |-> new]
              /\ mem'[p].seq = mem[p].seq
              /\ mem'[p].slots = [mem[p].slots EXCEPT ![idx[p]] = new]
              /\ mem[p].slots \in [Slots -> SlotStatuses]
              /\ UNCHANGED <<created, ledger, events, dispatches>>
              /\ Files'
  BY <1>1, <1>14 DEF SetSlot, Record, TypeOK, Ledgers, disk
<1>15. CASE DriftFound(p)
  <2>1. /\ pc[p] = "select" /\ idx[p] \in Slots
        /\ mem[p].slots[idx[p]] = "pending"
        /\ SetSlot(p, idx[p], "manual_review")
        /\ Record(p, "slot_requires_manual_review", idx[p], "manual_review")
        /\ UNCHANGED <<disk, idx, dispatches>>
    BY <1>15 DEF DriftFound, AtSlot, TypeOK, Slots, frame
  <2>2. /\ pc'[p] = "append" /\ idx'[p] = idx[p]
        /\ pend'[p] = [event |-> "slot_requires_manual_review", slot |-> idx[p],
                       status |-> "manual_review"]
        /\ mem'[p].seq = mem[p].seq
        /\ mem'[p].slots = [mem[p].slots EXCEPT ![idx[p]] = "manual_review"]
        /\ mem[p].slots \in [Slots -> SlotStatuses]
        /\ UNCHANGED <<created, ledger, events, dispatches>>
        /\ Files'
    BY <1>14, <2>1 DEF SlotStatuses, Terminal, SlotEvents
  <2>3. dispatches[idx[p]] = 0
    BY <2>1 DEF DispatchOf, TypeOK
  <2>4. DispatchOf(p)'
    BY <2>1, <2>2, <2>3 DEF DispatchOf, Starting, Recording
  <2>5. FlagOf(p)'
    BY <2>1, <2>2 DEF FlagOf, Ends, Terminal
  <2>6. PendOf(p)' /\ IdxOf(p)'
    BY <2>1, <2>2 DEF PendOf, IdxOf, ValidEvent, SlotEvents, Recording, Slots
  <2>7. RunningOf(p)' /\ MemoryOf(p)'
    BY <2>1, <2>2 DEF RunningOf, MemoryOf, Busy, Starting, Recording
  <2>8. LoopOf(p)' /\ BusyOf(p)'
    BY <2>2 DEF LoopOf, BusyOf, Busy, Starting, Recording
  <2> QED BY <2>2, <2>4, <2>5, <2>6, <2>7, <2>8
<1>16. CASE StartSlot(p)
  <2>1. /\ pc[p] = "select" /\ idx[p] \in Slots /\ ~Stopping(p)
        /\ mem[p].slots[idx[p]] = "pending"
        /\ SetSlot(p, idx[p], "running")
        /\ Record(p, "slot_started", idx[p], "running")
        /\ UNCHANGED <<disk, idx, dispatches>>
    BY <1>16 DEF StartSlot, AtSlot, TypeOK, Slots, frame
  <2>2. /\ pc'[p] = "append" /\ idx'[p] = idx[p]
        /\ pend'[p] = [event |-> "slot_started", slot |-> idx[p], status |-> "running"]
        /\ mem'[p].seq = mem[p].seq
        /\ mem'[p].slots = [mem[p].slots EXCEPT ![idx[p]] = "running"]
        /\ mem[p].slots \in [Slots -> SlotStatuses]
        /\ UNCHANGED <<created, ledger, events, dispatches>>
        /\ Files'
    BY <1>14, <2>1 DEF SlotStatuses, SlotEvents
  <2>3. dispatches[idx[p]] = 0
    BY <2>1 DEF DispatchOf, TypeOK
  <2>4. \A j \in Slots : j < idx[p] => mem[p].slots[j] \in Results
    <3>1. \A j \in Slots : mem[p].slots[j] # "manual_review"
      BY <2>1, StatusFacts DEF Stopping
    <3> QED BY <2>1, <3>1 DEF LoopOf, Terminal
  <2>5. ~(idx[p] < idx[p])
    BY <2>1 DEF Slots
  <2>6. DispatchOf(p)'
    BY <2>1, <2>2, <2>3 DEF DispatchOf, Starting, Recording
  <2>7. FlagOf(p)'
    <3>1. ~Ends(idx[p], Len(events))
      BY <2>1 DEF FlagOf, Terminal, Results, Failures, Success
    <3> QED BY <2>1, <2>2, <3>1 DEF FlagOf, Ends
  <2>8. PendOf(p)' /\ IdxOf(p)'
    BY <2>1, <2>2 DEF PendOf, IdxOf, ValidEvent, SlotEvents, Recording, Slots
  <2>9. RunningOf(p)' /\ MemoryOf(p)'
    BY <2>1, <2>2 DEF RunningOf, MemoryOf, Busy, Starting, Recording
  <2>10. LoopOf(p)' /\ BusyOf(p)'
    BY <2>1, <2>2, <2>4, <2>5 DEF LoopOf, BusyOf, Busy, Starting, Recording, Terminal
  <2> QED BY <2>2, <2>6, <2>7, <2>8, <2>9, <2>10
<1>17. CASE Execute(p)
  <2>1. /\ pc[p] = "execute" /\ pc'[p] = "await" /\ idx[p] \in Slots
        /\ dispatches' = [dispatches EXCEPT ![idx[p]] = @ + 1]
        /\ UNCHANGED <<created, ledger, events, mem, idx, pend>>
    BY <1>17 DEF Execute, IdxOf, TypeOK, disk, memory
  <2>2. dispatches[idx[p]] = 0 /\ dispatches'[idx[p]] = 1
    BY <2>1 DEF DispatchOf, TypeOK
  <2>3. /\ mem[p].slots[idx[p]] = "running"
        /\ ledger.slots = mem[p].slots
    BY <2>1 DEF BusyOf, Busy
  <2>4. ~Flags(idx[p], Len(events))
    <3>1. ~Ends(idx[p], Len(events))
      BY <2>1, <2>3 DEF FlagOf, Terminal, Results, Failures, Success
    <3> QED BY <3>1 DEF Ends, Flags
  <2>5. \A s \in Slots : s # idx[p] => dispatches'[s] = dispatches[s]
    BY <2>1 DEF TypeOK
  <2>6. Files'
    BY <2>1, <2>2, <2>3, <2>4, <2>5 DEF JournalInv, DispatchInv, FlagInv, Flags, Ends
  <2>7. DispatchOf(p)'
    BY <2>1, <2>2, <2>3, <2>5 DEF DispatchOf, Starting, Recording
  <2> QED BY <2>1, <2>6, <2>7 DEF MemoryOf, IdxOf, PendOf, LoopOf, RunningOf, BusyOf,
       FlagOf, Ends, Recording, Starting, Busy
<1>18. CASE ExecutorStep(p) \/ CtrlC(p)
  <2>1. UNCHANGED <<disk, pc, mem, idx, pend, dispatches>>
    BY <1>18 DEF ExecutorStep, CtrlC, memory, frame
  <2>2. Files'
    BY <1>1, <2>1
  <2> QED BY <2>1, <2>2 DEF MemoryOf, IdxOf, PendOf, LoopOf, RunningOf, BusyOf,
       DispatchOf, FlagOf, Ends, Recording, Starting, Busy, Stopping, disk
<1>19. CASE Conclude(p)
  <2>2. PICK status \in Terminal :
          SetSlot(p, idx[p], status) /\ Record(p, "slot_finished", idx[p], status)
    BY <1>19, ConcludedStatus
  <2>1. /\ pc[p] = "await" /\ idx[p] \in Slots
        /\ SetSlot(p, idx[p], status)
        /\ Record(p, "slot_finished", idx[p], status)
        /\ UNCHANGED <<disk, idx, dispatches>>
    BY <1>19, <2>2 DEF Conclude, IdxOf, frame
  <2>3. /\ pc'[p] = "append" /\ idx'[p] = idx[p]
        /\ pend'[p] = [event |-> "slot_finished", slot |-> idx[p], status |-> status]
        /\ mem'[p].seq = mem[p].seq
        /\ mem'[p].slots = [mem[p].slots EXCEPT ![idx[p]] = status]
        /\ mem[p].slots \in [Slots -> SlotStatuses]
        /\ UNCHANGED <<created, ledger, events, dispatches>>
        /\ Files'
    BY <1>14, <2>1, <2>2 DEF SlotStatuses, SlotEvents
  <2>4. status \notin {"pending", "running"}
    BY <2>2 DEF Terminal, Results, Failures, Success
  <2>5. DispatchOf(p)'
    BY <2>1, <2>3, <2>4 DEF DispatchOf, Starting, Recording
  <2>6. FlagOf(p)'
    BY <2>1, <2>2, <2>3 DEF FlagOf, Ends
  <2>7. PendOf(p)' /\ IdxOf(p)'
    BY <2>1, <2>2, <2>3 DEF PendOf, IdxOf, ValidEvent, SlotEvents, Recording, Slots
  <2>8. RunningOf(p)' /\ MemoryOf(p)'
    BY <2>1, <2>3, <2>4 DEF RunningOf, MemoryOf, Busy, Starting, Recording
  <2>9. LoopOf(p)' /\ BusyOf(p)'
    <3>1. \A j \in Slots : j <= idx[p] => j < idx[p] \/ j = idx[p]
      BY <2>1 DEF Slots
    <3>2. \A j \in Slots : j <= idx[p] => mem'[p].slots[j] \in Terminal
      BY <2>1, <2>2, <2>3, <3>1 DEF LoopOf
    <3> QED BY <2>3, <3>2 DEF LoopOf, BusyOf, Busy, Starting, Recording
  <2> QED BY <2>3, <2>5, <2>6, <2>7, <2>8, <2>9
<1>20. CASE Finish(p)
  <2> DEFINE verdict == CampaignStatus(mem[p].slots)
             status  == IF pc[p] = "expired" THEN "stopped" ELSE verdict
             event   == IF status \in {"stopped", "manual_review"} THEN "campaign_stopped"
                        ELSE "campaign_cycle_completed"
  <2>1. /\ pc[p] \in {"final", "expired"} /\ pc'[p] = "append"
        /\ pend'[p] = [event |-> event, slot |-> 0, status |-> status]
        /\ UNCHANGED <<disk, mem, idx, dispatches>>
    BY <1>20 DEF Finish, Record, TypeOK, frame
  <2>2. Files'
    BY <1>1, <2>1
  <2>3. event = "campaign_cycle_completed"
          => status \in {"completed_ungraded", "completed_with_failures"}
    BY <2>1, StatusFacts DEF LoopOf, Stopping
  <2>4. event \in {"campaign_stopped", "campaign_cycle_completed"}
    OBVIOUS
  <2>5. PendOf(p)' /\ IdxOf(p)'
    BY <2>1, <2>3 DEF PendOf, IdxOf, ValidEvent, SlotEvents, Recording
  <2> HIDE DEF event, status, verdict
  <2> QED BY <2>1, <2>2, <2>4, <2>5 DEF MemoryOf, LoopOf, RunningOf, BusyOf,
       DispatchOf, FlagOf, Ends, Recording, Starting, Busy, disk
<1>21. CASE Leave(p)
  BY <1>1, <1>2, <1>21 DEF Leave, Forget, TypeOK
<1> QED
  BY <1>3, <1>4, <1>5, <1>6, <1>7, <1>8, <1>9, <1>10, <1>11, <1>12, <1>13, <1>15, <1>16,
     <1>17, <1>18, <1>19, <1>20, <1>21 DEF Continue, AcquireLock, LockBusy

-----------------------------------------------------------------------------
(* Every step. *)

LEMMA Locality ==
    ASSUME TypeOK, NEW p \in Controllers,
           Start(p) \/ Continue(p) \/ CtrlC(p) \/ Die(p)
    PROVE  \A q \in Controllers \ {p} :
             /\ pc'[q] = pc[q]
             /\ mem'[q] = mem[q]
             /\ idx'[q] = idx[q]
             /\ dirty'[q] = dirty[q]
             /\ pend'[q] = pend[q]
<1> USE DEF TypeOK, Goto, memory
<1>1. CASE Start(p) \/ AcquireLock(p) \/ LockBusy(p) \/ LoadRefused(p) \/ LoadState(p)
  BY <1>1 DEF Start, AcquireLock, LockBusy, LoadRefused, LoadState
<1>2. CASE ReconcileSlot(p) \/ FinishReconcile(p) \/ CreateLedger(p) \/ AppendEvent(p)
  BY <1>2 DEF ReconcileSlot, SetSlot, FinishReconcile, CreateLedger, AppendEvent
<1>3. CASE PublishLedger(p) \/ EndCycle(p) \/ SkipTerminal(p) \/ WindowExpired(p)
  BY <1>3 DEF PublishLedger, EndCycle, SkipTerminal, WindowExpired
<1>4. CASE Announce(p) \/ DriftFound(p) \/ StartSlot(p) \/ Conclude(p) \/ Finish(p)
  BY <1>4 DEF Announce, DriftFound, StartSlot, Conclude, Finish, SetSlot, Record
<1>5. CASE Execute(p) \/ ExecutorStep(p) \/ CtrlC(p)
  BY <1>5 DEF Execute, ExecutorStep, CtrlC
<1>6. CASE Leave(p) \/ Die(p)
  BY <1>6 DEF Leave, Die, Forget
<1> QED BY <1>1, <1>2, <1>3, <1>4, <1>5, <1>6 DEF Continue

\* Outside the locked region a controller only waits for the lock.
LEMMA OutsideStep ==
    ASSUME TypeOK, NEW p \in Controllers, Continue(p) \/ CtrlC(p), pc[p] \notin Inside
    PROVE  AcquireLock(p) \/ LockBusy(p)
<1> USE DEF Inside, Pcs
<1>1. pc[p] \in {"off", "lock"}
  BY DEF TypeOK
<1> QED BY <1>1 DEF Continue, LoadRefused, LoadState, ReconcileSlot, FinishReconcile,
     CreateLedger, Announce, AppendEvent, PublishLedger, EndCycle, SkipTerminal, WindowExpired,
     DriftFound, StartSlot, AtSlot, Execute, ExecutorStep, Conclude, Finish, Leave, CtrlC

LEMMA ControlStep == TypeOK /\ TypeOK' /\ ControlInv /\ [Next]_vars => ControlInv'
<1> SUFFICES ASSUME TypeOK, TypeOK', ControlInv, [Next]_vars
             PROVE  Files' /\ \A p \in Controllers : Own(p)'
  BY LockStep DEF ControlInv
<1>1. LockInv /\ Files /\ \A p \in Controllers : Own(p)
  BY DEF ControlInv
<1>2. ASSUME UNCHANGED <<disk, dispatches>>
      PROVE  Files'
  BY <1>1, <1>2 DEF Files, disk, JournalInv, DispatchInv, FlagInv, Flags, Ends
<1>3. ASSUME NEW q \in Controllers, pc'[q] \notin Inside
      PROVE  Own(q)'
  BY <1>3 DEF Own, MemoryOf, IdxOf, PendOf, LoopOf, RunningOf, BusyOf, DispatchOf, FlagOf,
     Recording, Starting, Busy, Inside, Loaded, Published, Pcs
<1>4. ASSUME NEW q \in Controllers, UNCHANGED <<disk, dispatches>>,
             UNCHANGED <<pc[q], mem[q], idx[q], pend[q]>>
      PROVE  Own(q)'
  BY <1>1, <1>4 DEF Own, disk, MemoryOf, IdxOf, PendOf, LoopOf, RunningOf, BusyOf, DispatchOf,
     FlagOf, Ends, Stopping, Recording, Starting, Busy
<1>5. ASSUME UNCHANGED <<disk, pc, mem, idx, pend, dispatches>>
      PROVE  Files' /\ \A p \in Controllers : Own(p)'
  BY <1>2, <1>4, <1>5
<1>6. ASSUME NEW p \in Controllers, Start(p) \/ LockBusy(p) \/ (AcquireLock(p) /\ locked = {})
      PROVE  Files' /\ \A q \in Controllers : Own(q)'
  <2>1. UNCHANGED <<disk, mem, idx, pend, dispatches>>
    BY <1>6 DEF Start, LockBusy, AcquireLock, memory, frame
  <2>2. \A q \in Controllers \ {p} : pc'[q] = pc[q]
    BY <1>6, Locality DEF Continue
  <2>3. Own(p)'
    <3>1. pc'[p] \in {"off", "lock", "load"}
      BY <1>6 DEF Start, LockBusy, AcquireLock, Goto, TypeOK
    <3> QED BY <3>1 DEF Own, MemoryOf, IdxOf, PendOf, LoopOf, RunningOf, BusyOf, DispatchOf,
         FlagOf, Recording, Starting, Busy, Inside, Loaded, Published
  <2> QED BY <1>2, <1>4, <2>1, <2>2, <2>3
<1>7. ASSUME NEW p \in Controllers, pc[p] \in Inside, Continue(p) \/ CtrlC(p)
      PROVE  Files' /\ \A q \in Controllers : Own(q)'
  <2>1. Files' /\ Own(p)'
    BY <1>1, <1>7, HolderStep
  <2>2. \A q \in Controllers \ {p} : pc'[q] \notin Inside
    BY <1>1, <1>7, OthersOutside, Locality
  <2> QED BY <1>3, <2>1, <2>2
<1>8. ASSUME NEW p \in Controllers, Continue(p) \/ CtrlC(p), pc[p] \notin Inside
      PROVE  AcquireLock(p) \/ LockBusy(p)
  BY <1>8, OutsideStep
<1>9. ASSUME NEW p \in Controllers, Die(p)
      PROVE  Files' /\ \A q \in Controllers : Own(q)'
  <2>1. /\ UNCHANGED <<created, ledger, events, dispatches>>
        /\ pc'[p] = "off"
    BY <1>9 DEF Die, Forget, Goto, TypeOK
  <2>2. Files'
    BY <1>1, <2>1 DEF Files, JournalInv, DispatchInv, FlagInv, Flags, Ends
  <2>3. ASSUME NEW q \in Controllers \ {p}
        PROVE  Own(q)'
    <3>1. UNCHANGED <<pc[q], mem[q], idx[q], pend[q]>>
      BY <1>9, Locality
    <3> QED BY <1>1, <2>1, <3>1 DEF Own, MemoryOf, IdxOf, PendOf, LoopOf, RunningOf, BusyOf,
         DispatchOf, FlagOf, Ends, Stopping, Recording, Starting, Busy
  <2> QED BY <1>3, <2>1, <2>2, <2>3 DEF Inside
<1>10. ASSUME NEW r \in Directs, DirectStep(r)
       PROVE  Files' /\ \A q \in Controllers : Own(q)'
  BY <1>5, <1>10 DEF DirectStep, memory, frame
<1>11. ASSUME CloseWindow \/ UNCHANGED vars
       PROVE  Files' /\ \A q \in Controllers : Own(q)'
  BY <1>5, <1>11 DEF CloseWindow, vars, memory, frame
<1> QED
  BY <1>6, <1>7, <1>8, <1>9, <1>10, <1>11 DEF Next, AcquireLock

-----------------------------------------------------------------------------
(* The theorems. *)

\* The inductive invariant: in every reachable state the lock, the lock holder's
\* memory, the ledger and the journal agree as ControlInv says.
THEOREM ControlCorrect == Spec => []ControlInv
<1>1. Init => TypeOK /\ ControlInv
  BY TypeInit, ControlInit
<1>2. ControlInv => IdxInv
  BY DEF ControlInv, Own, IdxInv
<1>3. TypeOK /\ ControlInv /\ [Next]_vars => TypeOK' /\ ControlInv'
  BY <1>2, TypeStep, ControlStep
<1> QED BY <1>1, <1>3, PTL DEF Spec

\* run_campaign never hands a slot to the executor twice, whatever the number of
\* controllers, deaths and restarts.
THEOREM NoRedispatchCorrect == Spec => []NoRedispatch
<1>1. ControlInv => NoRedispatch
  BY DEF ControlInv, Files, DispatchInv, NoRedispatch
<1> QED BY <1>1, ControlCorrect, PTL

\* A controller that dies between any two steps leaves files the next one loads,
\* unless it died in the middle of a line of the journal.
THEOREM JournalLoadableCorrect == Spec => []JournalLoadable
<1>1. ControlInv => JournalLoadable
  BY DEF ControlInv, Files, JournalInv, JournalLoadable, Loadable, JournalReadable
<1> QED BY <1>1, ControlCorrect, PTL

\* A slot that the journal sent to manual review for drift is never executed.
THEOREM FlaggedNeverDispatchedCorrect == Spec => []FlaggedNeverDispatched
<1>1. TypeOK /\ ControlInv => FlaggedNeverDispatched
  <2> SUFFICES ASSUME TypeOK, ControlInv, NEW i \in 1..Len(events),
                      events[i].event = "slot_requires_manual_review"
               PROVE  dispatches[events[i].slot] = 0
    BY DEF FlaggedNeverDispatched
  <2>1. events[i] \in Events
    BY DEF TypeOK
  <2>2. events[i].slot \in Slots
    BY <2>1 DEF Events, CampaignEvents
  <2>3. Flags(events[i].slot, Len(events))
    BY DEF Flags
  <2> QED BY <2>2, <2>3 DEF ControlInv, Files, FlagInv
<1> QED BY <1>1, TypeCorrect, ControlCorrect, PTL

\* At most one controller waits for the executor, its slot is published as
\* running and every earlier one with a result.
THEOREM SerialDispatchCorrect == Spec => []SerialDispatch
<1>1. TypeOK /\ ControlInv => SerialDispatch
  <2> SUFFICES ASSUME TypeOK, ControlInv, NEW p \in Controllers, pc[p] = "await"
               PROVE  /\ \A q \in Controllers : pc[q] = "await" => q = p
                      /\ ledger.slots[idx[p]] = "running"
                      /\ \A j \in 1..(idx[p] - 1) : ledger.slots[j] \in Results
    BY DEF SerialDispatch
  <2>1. \A q \in Controllers : pc[q] = "await" => q = p
    BY DEF ControlInv, LockInv, Inside, Pcs
  <2>2. BusyOf(p) /\ idx[p] \in Slots
    BY DEF ControlInv, Own, IdxOf
  <2>3. \A j \in 1..(idx[p] - 1) : j \in Slots /\ j < idx[p]
    BY <2>2 DEF Slots
  <2> QED BY <2>1, <2>2, <2>3 DEF BusyOf, Busy
<1> QED BY <1>1, TypeCorrect, ControlCorrect, PTL

\* The slot loop never meets a slot that is running.
THEOREM NothingRunningAtSelectCorrect == Spec => []NothingRunningAtSelect
<1>1. ControlInv => NothingRunningAtSelect
  BY DEF ControlInv, Own, RunningOf, NothingRunningAtSelect, Loaded, Inside, Pcs, Busy,
     Starting, Recording
<1> QED BY <1>1, ControlCorrect, PTL
=============================================================================
