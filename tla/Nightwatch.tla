------------------------------ MODULE Nightwatch ------------------------------
(***************************************************************************)
(* The serial campaign controller, harness/nightwatch.py: run_campaign     *)
(* under the campaign writer lock, its ledger snapshot (ledger.json), its  *)
(* append-only event journal (events.jsonl) and the reconciliation of both *)
(* with the claims and sealed logs the executor leaves under runs/.        *)
(*                                                                         *)
(* Several controllers may be started on the same campaign; each may die   *)
(* at any step (kill, power loss, or an I/O error that leaves run_campaign *)
(* as an exception) and be started again.  Other runners call the executor *)
(* directly for the same slots.  Files survive a death, memory and the OS  *)
(* lock do not.                                                            *)
(*                                                                         *)
(* Bounds: MaxStarts limits the number of controller starts.               *)
(***************************************************************************)
EXTENDS SlotRun, Sequences, FiniteSets

CONSTANTS
    Controllers,  \* runners that are Nightwatch controllers of this campaign
    Threshold,    \* limits.failure_stop_threshold
    MaxStarts     \* bound: how often a controller process is started

ASSUME ControllersAssumption == Controllers \subseteq Runners \ Foreign
ASSUME ThresholdAssumption == Threshold \in 1..N
ASSUME MaxStartsAssumption == MaxStarts \in Nat

Directs == Runners \ Controllers

VARIABLES
    open,        \* the campaign's approved window has not expired
    created,     \* ledger.json exists
    ledger,      \* its content (a fresh ledger while it does not exist)
    events,      \* the complete lines of events.jsonl
    torn,        \* events.jsonl ends in an incomplete line
    locked,      \* controllers that hold the writer lock
    pc,          \* controller -> where it is in run_campaign
    mem,         \* controller -> its ledger in memory
    idx,         \* controller -> slot its current loop is at
    dirty,       \* controller -> loading changed the ledger
    pend,        \* controller -> event being recorded
    cancelled,   \* controllers whose Ctrl-C the executor absorbed (history)
    starts,      \* number of starts so far
    dispatches   \* slot -> times a controller handed it to the executor (history)

disk  == <<created, ledger, events, torn>>
memory == <<mem, idx, dirty, pend>>
frame == <<open, locked, cancelled, starts, dispatches>>
vars  == <<evidence, call, disk, pc, memory, frame>>

Terminal         == Results \cup {"manual_review"}
SlotStatuses     == Terminal \cup {"pending", "running"}
CampaignStatuses == {"ready", "running", "stopped", "completed_ungraded",
                     "completed_with_failures", "manual_review"}

SlotEvents     == {"slot_started", "slot_finished", "slot_requires_manual_review"}
CampaignEvents == {"campaign_started", "campaign_reconciled", "campaign_stopped",
                   "campaign_cycle_completed"}

Ledgers == [seq    : Nat,
            status : CampaignStatuses,
            slots  : [Slots -> SlotStatuses]]

\* slot 0 stands for slot_ordinal = None.
Pending ==
    [event : SlotEvents, slot : Slots, status : SlotStatuses]
        \cup [event : CampaignEvents, slot : {0}, status : CampaignStatuses]

Events ==
    [seq : Nat, event : SlotEvents, slot : Slots, status : SlotStatuses]
        \cup [seq : Nat, event : CampaignEvents, slot : {0}, status : CampaignStatuses]

NewLedger == [seq |-> 0, status |-> "ready", slots |-> [s \in Slots |-> "pending"]]

NoEvent == [event |-> "campaign_started", slot |-> 0, status |-> "ready"]

Pcs == {"off", "lock", "load", "reconcile", "create", "announce", "append",
        "publish", "select", "execute", "await", "final", "expired", "leave"}

\* Where a controller is inside "with _campaign_writer_lock(...)".
Inside == Pcs \ {"off", "lock"}

TypeOK ==
    /\ RunTypeOK
    /\ open \in BOOLEAN
    /\ created \in BOOLEAN
    /\ ledger \in Ledgers
    /\ events \in Seq(Events)
    /\ torn \in BOOLEAN
    /\ locked \subseteq Controllers
    /\ pc \in [Controllers -> Pcs]
    /\ mem \in [Controllers -> Ledgers]
    /\ idx \in [Controllers -> 1..(N + 1)]
    /\ dirty \in [Controllers -> BOOLEAN]
    /\ pend \in [Controllers -> Pending]
    /\ cancelled \subseteq Controllers
    /\ starts \in 0..MaxStarts
    /\ dispatches \in [Slots -> Nat]

Init ==
    /\ RunInit
    /\ open = TRUE
    /\ created = FALSE
    /\ ledger = NewLedger
    /\ events = <<>>
    /\ torn = FALSE
    /\ locked = {}
    /\ pc = [p \in Controllers |-> "off"]
    /\ mem = [p \in Controllers |-> NewLedger]
    /\ idx = [p \in Controllers |-> 1]
    /\ dirty = [p \in Controllers |-> FALSE]
    /\ pend = [p \in Controllers |-> NoEvent]
    /\ cancelled = {}
    /\ starts = 0
    /\ dispatches = [s \in Slots |-> 0]

-----------------------------------------------------------------------------
(***************************************************************************)
(* Pure parts.                                                             *)
(***************************************************************************)

\* Fault: the attempt's plan and authorization digests are not compared.
SealedResultUnbound(e) ==
    IF e.stage = "sealed" /\ (e.status = Success => e.attested) THEN e.status ELSE "none"

\* The result an attempt of this campaign shows to whoever finds it sealed, or
\* showed before it was taken back; "none" if there is nothing to import.
ShownResult(e) ==
    IF /\ e.stage \in {"sealed", "spoiled"}
       /\ e.bound
       /\ e.status = Success => e.attested
    THEN e.status ELSE "none"

\* The result Nightwatch may import from a slot's evidence, or "none".
SealedResult(e) == IF e.stage = "sealed" THEN ShownResult(e) ELSE "none"

\* Fault: a slot found running without a claim is offered again.
ReconciledRetrying(status, e, sound) ==
    IF ~sound THEN "manual_review"
    ELSE IF e.stage = "none" /\ status \in {"pending", "running"} THEN "pending"
    ELSE IF SealedResult(e) # "none" THEN SealedResult(e)
    ELSE "manual_review"

\* Fault: without a claim the ledger status is believed as it is.
ReconciledBelieving(status, e, sound) ==
    IF ~sound THEN "manual_review"
    ELSE IF e.stage = "none" THEN status
    ELSE IF SealedResult(e) # "none" THEN SealedResult(e)
    ELSE "manual_review"

\* _reconcile_slot: without a claim or directory a pending slot stays
\* pending; a sealed matching attempt gives its own status, also to a slot
\* that was in manual review; everything else needs manual review.  So does
\* whatever is not sound: the retained model profile is read again and no
\* longer passes its verification or matches the log, a file changes or fails
\* while it is read, or .slot-claims is not a directory.
Reconciled(status, e, sound) ==
    IF ~sound THEN "manual_review"
    ELSE IF e.stage = "none" /\ status = "pending" THEN "pending"
    ELSE IF SealedResult(e) # "none" THEN SealedResult(e)
    ELSE "manual_review"

FailedSlots(slots) == {s \in Slots : slots[s] \in Failures}

\* Fault: the threshold is compared with ">".
CampaignStatusLate(slots) ==
    IF \E s \in Slots : slots[s] = "manual_review" THEN "manual_review"
    ELSE IF Cardinality(FailedSlots(slots)) > Threshold THEN "stopped"
    ELSE IF \A s \in Slots : slots[s] = Success THEN "completed_ungraded"
    ELSE IF \A s \in Slots : slots[s] \in Terminal THEN "completed_with_failures"
    ELSE IF \E s \in Slots : slots[s] = "running" THEN "running"
    ELSE "ready"

\* Fault: "every slot is terminal" is decided before manual review.
CampaignStatusReordered(slots) ==
    IF \A s \in Slots : slots[s] \in Terminal THEN "completed_with_failures"
    ELSE IF \E s \in Slots : slots[s] = "manual_review" THEN "manual_review"
    ELSE IF Cardinality(FailedSlots(slots)) >= Threshold THEN "stopped"
    ELSE IF \E s \in Slots : slots[s] = "running" THEN "running"
    ELSE "ready"

\* _campaign_status
CampaignStatus(slots) ==
    IF \E s \in Slots : slots[s] = "manual_review" THEN "manual_review"
    ELSE IF Cardinality(FailedSlots(slots)) >= Threshold THEN "stopped"
    ELSE IF \A s \in Slots : slots[s] = Success THEN "completed_ungraded"
    ELSE IF \A s \in Slots : slots[s] \in Terminal THEN "completed_with_failures"
    ELSE IF \E s \in Slots : slots[s] = "running" THEN "running"
    ELSE "ready"

\* The event checks of _read_events.
ValidEvent(e) ==
    /\ e.event \in SlotEvents <=> e.slot # 0
    /\ e.event = "slot_started" => e.status = "running"
    /\ e.event = "slot_finished" => e.status \in Terminal
    /\ e.event = "slot_requires_manual_review" => e.status = "manual_review"
    /\ e.event = "campaign_stopped" => e.status \in {"stopped", "manual_review"}
    /\ e.event = "campaign_cycle_completed"
         => e.status \in {"completed_ungraded", "completed_with_failures"}

JournalReadable ==
    /\ ~torn
    /\ \A i \in 1..Len(events) : events[i].seq = i /\ ValidEvent(events[i])

\* The conditions under which _load_state accepts the two files.
Loadable ==
    /\ JournalReadable
    /\ ~created => events = <<>>
    /\ ledger.seq <= Len(events)

\* _replay_unpublished_events: an event flushed after the last snapshot that
\* ends a slot sends the slot to manual review.
EndedUnpublished(s) ==
    \E i \in (ledger.seq + 1)..Len(events) :
        /\ events[i].slot = s
        /\ events[i].event \in {"slot_finished", "slot_requires_manual_review"}

\* Fault: the sequence number stays that of the snapshot.
ReplayedStale ==
    [ledger EXCEPT
        !.slots = [s \in Slots |->
                     IF EndedUnpublished(s) THEN "manual_review" ELSE ledger.slots[s]]]

\* Fault: only the sequence number is brought forward.
ReplayedSequenceOnly == [ledger EXCEPT !.seq = Len(events)]

Replayed ==
    [ledger EXCEPT
        !.seq = Len(events),
        !.slots = [s \in Slots |->
                     IF EndedUnpublished(s) THEN "manual_review" ELSE ledger.slots[s]]]

-----------------------------------------------------------------------------
(***************************************************************************)
(* Actions.  run_campaign's memory is mem[p]; idx[p] is the loop position. *)
(***************************************************************************)
Goto(p, label) == pc' = [pc EXCEPT ![p] = label]

SetSlot(p, s, status) == mem' = [mem EXCEPT ![p].slots[s] = status]

\* A controller that is gone has no memory.
Forget(p) ==
    /\ mem' = [mem EXCEPT ![p] = NewLedger]
    /\ idx' = [idx EXCEPT ![p] = 1]
    /\ dirty' = [dirty EXCEPT ![p] = FALSE]
    /\ pend' = [pend EXCEPT ![p] = NoEvent]
    /\ cancelled' = cancelled \ {p}
    /\ Goto(p, "off")

\* Enter _record_transition: the event is appended next.
Record(p, event, slot, status) ==
    /\ pend' = [pend EXCEPT ![p] = [event |-> event, slot |-> slot, status |-> status]]
    /\ Goto(p, "append")

\* The checks before the lock need a current window; a controller that fails
\* them changes nothing.
Start(p) ==
    /\ pc[p] = "off"
    /\ starts < MaxStarts
    /\ open
    /\ starts' = starts + 1
    /\ Goto(p, "lock")
    /\ UNCHANGED <<runVars, disk, memory, open, locked, cancelled, dispatches>>

\* Fault: the lock is not exclusive.
AcquireLockShared(p) ==
    /\ pc[p] = "lock"
    /\ locked' = locked \cup {p}
    /\ Goto(p, "load")
    /\ UNCHANGED <<runVars, disk, memory, open, cancelled, starts, dispatches>>

\* The nonblocking OS lock.
AcquireLock(p) ==
    /\ pc[p] = "lock"
    /\ locked = {}
    /\ locked' = {p}
    /\ Goto(p, "load")
    /\ UNCHANGED <<runVars, disk, memory, open, cancelled, starts, dispatches>>

LockBusy(p) ==
    /\ pc[p] = "lock"
    /\ locked # {}
    /\ Goto(p, "off")
    /\ UNCHANGED <<runVars, disk, memory, frame>>

\* Fault: files that cannot be read are read again.
LoadRefusedRetrying(p) ==
    /\ pc[p] = "load"
    /\ ~open
    /\ Goto(p, "leave")
    /\ UNCHANGED <<runVars, disk, memory, frame>>

\* The window expired while the lock was awaited, or the files are refused.
LoadRefused(p) ==
    /\ pc[p] = "load"
    /\ ~open \/ ~Loadable
    /\ Goto(p, "leave")
    /\ UNCHANGED <<runVars, disk, memory, frame>>

LoadState(p) ==
    /\ pc[p] = "load"
    /\ open
    /\ Loadable
    /\ mem' = [mem EXCEPT ![p] = Replayed]
    /\ dirty' = [dirty EXCEPT ![p] = ~created \/ ledger.seq < Len(events)]
    /\ idx' = [idx EXCEPT ![p] = 1]
    /\ Goto(p, "reconcile")
    /\ UNCHANGED <<runVars, disk, pend, frame>>

\* _reconcile_ledger compares one slot with runs/.  The claim, directory, log
\* and sidecar are read one after the other; they are only ever added in that
\* order, and a log that is rewritten after its sidecar fails the comparison of
\* the two, so the reads see the evidence as it was at one moment between them.
\* A slot that stays in manual review may still change its failure category.
ReconcileSlot(p) ==
    LET s == idx[p]
    IN  /\ pc[p] = "reconcile"
        /\ s <= N
        /\ \E sound, recategorised \in BOOLEAN :
             LET new == Reconciled(mem[p].slots[s], evidence[s], sound)
             IN  /\ SetSlot(p, s, new)
                 /\ dirty' = [dirty EXCEPT ![p] = @ \/ new # mem[p].slots[s]
                                                   \/ (recategorised /\ new = "manual_review")]
        /\ idx' = [idx EXCEPT ![p] = s + 1]
        /\ UNCHANGED <<runVars, disk, pc, pend, frame>>

FinishReconcile(p) ==
    LET status == CampaignStatus(mem[p].slots)
    IN  /\ pc[p] = "reconcile"
        /\ idx[p] = N + 1
        /\ mem' = [mem EXCEPT ![p].status = status]
        /\ dirty' = [dirty EXCEPT ![p] = @ \/ status # mem[p].status]
        /\ Goto(p, IF created THEN "announce" ELSE "create")
        /\ UNCHANGED <<runVars, disk, idx, pend, frame>>

\* The first ledger snapshot, before any event.
CreateLedger(p) ==
    /\ pc[p] = "create"
    /\ created' = TRUE
    /\ ledger' = mem[p]
    /\ Goto(p, "announce")
    /\ UNCHANGED <<runVars, events, torn, memory, frame>>

Announce(p) ==
    LET status == CampaignStatus(mem[p].slots)
    IN  /\ pc[p] = "announce"
        /\ idx' = [idx EXCEPT ![p] = 1]
        /\ \/ /\ events = <<>>
              /\ Record(p, "campaign_started", 0, status)
           \/ /\ events # <<>>
              /\ dirty[p]
              /\ Record(p, "campaign_reconciled", 0, status)
           \/ /\ events # <<>>
              /\ ~dirty[p]
              /\ Goto(p, "select")
              /\ UNCHANGED pend
        /\ UNCHANGED <<runVars, disk, mem, dirty, frame>>

-----------------------------------------------------------------------------
\* _append_event, and the sequence and status _record_transition then sets.
AppendEvent(p) ==
    LET e   == pend[p]
        seq == mem[p].seq + 1
    IN  /\ pc[p] = "append"
        /\ events' = Append(events, [seq |-> seq, event |-> e.event, slot |-> e.slot,
                                     status |-> e.status])
        /\ mem' = [mem EXCEPT ![p].seq = seq,
                              ![p].status = IF e.slot = 0 THEN e.status
                                            ELSE CampaignStatus(mem[p].slots)]
        /\ Goto(p, "publish")
        /\ UNCHANGED <<runVars, created, ledger, torn, idx, dirty, pend, frame>>

\* Where the controller goes once the ledger snapshot is replaced.
AfterRecord(p) ==
    LET e == pend[p] IN
    CASE e.event \in {"campaign_started", "campaign_reconciled"} -> "select"
      [] e.event = "slot_started" -> "execute"
      [] e.event = "slot_requires_manual_review" -> "final"
      [] e.event = "slot_finished" /\ call[p].phase = "interrupt" -> "leave"
      [] e.event = "slot_finished" /\ call[p].phase # "interrupt"
            -> IF e.status = "manual_review" THEN "final" ELSE "select"
      [] e.event \in {"campaign_stopped", "campaign_cycle_completed"} -> "leave"

\* _write_canonical_atomic: the snapshot is replaced in one step or not at all.
PublishLedger(p) ==
    LET finished == pend[p].event = "slot_finished"
    IN  /\ pc[p] = "publish"
        /\ ledger' = mem[p]
        /\ Goto(p, AfterRecord(p))
        /\ IF finished
           THEN Collect(p) /\ idx' = [idx EXCEPT ![p] = pend[p].slot + 1]
           ELSE UNCHANGED <<call, idx>>
        /\ UNCHANGED <<evidence, created, events, torn, mem, dirty, pend, frame>>

-----------------------------------------------------------------------------
\* Fault: the loop does not look at the campaign status.
AtSlotUnchecked(p, s) ==
    /\ pc[p] = "select"
    /\ idx[p] = s
    /\ s <= N

\* The head of the slot loop.
Stopping(p) == CampaignStatus(mem[p].slots) \in {"manual_review", "stopped"}

AtSlot(p, s) ==
    /\ pc[p] = "select"
    /\ idx[p] = s
    /\ s <= N
    /\ ~Stopping(p)

EndCycle(p) ==
    /\ pc[p] = "select"
    /\ Stopping(p) \/ idx[p] = N + 1
    /\ Goto(p, "final")
    /\ UNCHANGED <<runVars, disk, memory, frame>>

SkipTerminal(p) ==
    LET s == idx[p]
    IN  /\ AtSlot(p, s)
        /\ mem[p].slots[s] \in Terminal
        /\ idx' = [idx EXCEPT ![p] = s + 1]
        /\ UNCHANGED <<runVars, disk, pc, mem, dirty, pend, frame>>

\* The branch for a slot that is neither terminal nor pending is not modelled:
\* NothingRunningAtSelect shows that no controller reaches it.
WindowExpired(p) ==
    LET s == idx[p]
    IN  /\ AtSlot(p, s)
        /\ mem[p].slots[s] = "pending"
        /\ ~open
        /\ Goto(p, "expired")
        /\ UNCHANGED <<runVars, disk, memory, frame>>

\* A plan, profile or authorization no longer passes _validate_slot_inputs.
DriftFound(p) ==
    LET s == idx[p]
    IN  /\ AtSlot(p, s)
        /\ mem[p].slots[s] = "pending"
        /\ open
        /\ SetSlot(p, s, "manual_review")
        /\ Record(p, "slot_requires_manual_review", s, "manual_review")
        /\ UNCHANGED <<runVars, disk, idx, dirty, frame>>

StartSlot(p) ==
    LET s == idx[p]
    IN  /\ AtSlot(p, s)
        /\ mem[p].slots[s] = "pending"
        /\ open
        /\ SetSlot(p, s, "running")
        /\ Record(p, "slot_started", s, "running")
        /\ UNCHANGED <<runVars, disk, idx, dirty, frame>>

\* The slot is handed to the executor, which binds it to this campaign.
Execute(p) ==
    /\ pc[p] = "execute"
    /\ Invoke(p, idx[p])
    /\ dispatches' = [dispatches EXCEPT ![idx[p]] = @ + 1]
    /\ Goto(p, "await")
    /\ UNCHANGED <<disk, memory, open, locked, cancelled, starts>>

ExecutorStep(p) ==
    /\ pc[p] = "await"
    /\ CallStep(p)
    /\ UNCHANGED <<disk, pc, memory, frame>>

\* Ctrl-C while the executor's guarded region runs.
CtrlC(p) ==
    /\ pc[p] = "await"
    /\ \E result \in Failures \cap Endings : AbsorbInterrupt(p, result)
    /\ cancelled' = cancelled \cup {p}
    /\ UNCHANGED <<disk, pc, memory, open, locked, starts, dispatches>>

\* Whatever the executor did, the slot's evidence decides.
Conclude(p) ==
    LET s == idx[p]
    IN  /\ pc[p] = "await"
        /\ call[p].phase \in Outcomes
        /\ \E sound \in BOOLEAN :
             LET found  == Reconciled(mem[p].slots[s], evidence[s], sound)
                 status == IF found \in Results THEN found ELSE "manual_review"
             IN  SetSlot(p, s, status) /\ Record(p, "slot_finished", s, status)
        /\ UNCHANGED <<runVars, disk, idx, dirty, frame>>

\* The final event; "stopped" when the window expired before a slot.
Finish(p) ==
    LET status == IF pc[p] = "expired" THEN "stopped" ELSE CampaignStatus(mem[p].slots)
        event  == IF status \in {"stopped", "manual_review"} THEN "campaign_stopped"
                  ELSE "campaign_cycle_completed"
    IN  /\ pc[p] \in {"final", "expired"}
        /\ Record(p, event, 0, status)
        /\ UNCHANGED <<runVars, disk, mem, idx, dirty, frame>>

Leave(p) ==
    /\ pc[p] = "leave"
    /\ locked' = locked \ {p}
    /\ Forget(p)
    /\ UNCHANGED <<runVars, disk, open, starts, dispatches>>

\* The process ends: the OS drops the lock and the executor call dies with it.
\* In the middle of an append the journal may keep part of a line.
Die(p) ==
    /\ pc[p] # "off"
    /\ locked' = locked \ {p}
    /\ Collect(p)
    /\ Forget(p)
    /\ torn' \in {torn, torn \/ pc[p] = "append"}
    /\ UNCHANGED <<evidence, created, ledger, events, open, starts, dispatches>>

\* Direct command-line calls of the executor.
DirectStep(r) ==
    /\ \/ \E s \in Slots : Invoke(r, s)
       \/ CallStep(r)
       \/ CallEnds(r)
       \/ Killed(r)
    /\ UNCHANGED <<disk, pc, memory, frame>>

CloseWindow ==
    /\ open
    /\ open' = FALSE
    /\ UNCHANGED <<runVars, disk, pc, memory, locked, cancelled, starts, dispatches>>

\* The steps a started controller takes by itself.
Continue(p) ==
    \/ AcquireLock(p)     \/ LockBusy(p)
    \/ LoadRefused(p)     \/ LoadState(p)     \/ ReconcileSlot(p)
    \/ FinishReconcile(p) \/ CreateLedger(p)  \/ Announce(p)
    \/ AppendEvent(p)     \/ PublishLedger(p)
    \/ EndCycle(p)        \/ SkipTerminal(p)  \/ WindowExpired(p)
    \/ DriftFound(p)      \/ StartSlot(p)     \/ Execute(p)
    \/ ExecutorStep(p)    \/ Conclude(p)      \/ Finish(p)        \/ Leave(p)

Next ==
    \/ \E p \in Controllers : Start(p) \/ Continue(p) \/ CtrlC(p) \/ Die(p)
    \/ \E r \in Directs : DirectStep(r)
    \/ CloseWindow

Spec == Init /\ [][Next]_vars

\* A live controller process keeps being scheduled, and the executor's calls
\* are bounded by its own deadline; nobody has to start one or keep it alive.
Fairness == \A p \in Controllers : WF_vars(Continue(p))

FairSpec == Spec /\ Fairness

-----------------------------------------------------------------------------
(***************************************************************************)
(* Properties.                                                             *)
(***************************************************************************)

\* Nothing a controller writes can make the campaign unloadable except a line
\* torn by a death in mid-append: sequence numbers stay contiguous, every event
\* passes the pairing checks of _read_events, and the snapshot is never ahead
\* of the journal, across deaths between the two writes.
JournalLoadable == torn \/ Loadable

\* The attempt retained for a slot proves the result r for this campaign.
Proves(e, r) ==
    /\ e.stage = "sealed"
    /\ e.bound
    /\ e.status = r
    /\ r = Success => e.attested

\* It proved r for a moment: its executor took it back after it could be read as
\* sealed and before the call returned.
Withdrawn(e, r) ==
    /\ e.stage = "spoiled"
    /\ e.bound
    /\ e.status = r
    /\ r = Success => e.attested

\* Only the attempt of a direct caller of this campaign can be imported before it
\* is taken back: a controller waits for its own call.
Backs(e, r) == Proves(e, r) \/ (Directs \ Foreign # {} /\ Withdrawn(e, r))

\* A result in the published ledger, or in a slot_finished event, is the result
\* of an attempt that is sealed, bound to this campaign and, for a completed
\* slot, attested - also when it was imported after a death or from another
\* runner's attempt.  A direct caller of this campaign may have taken it back
\* since; without one the attempt still is what it was.
ResultsBacked ==
    /\ \A s \in Slots :
         ledger.slots[s] \in Results => Backs(evidence[s], ledger.slots[s])
    /\ \A i \in 1..Len(events) :
         events[i].event = "slot_finished" /\ events[i].status \in Results
           => Backs(evidence[events[i].slot], events[i].status)

\* The no-retry rule: over all controllers, deaths and restarts, a slot is
\* handed to the executor at most once.
NoRedispatch == \A s \in Slots : dispatches[s] <= 1

\* A slot the journal has sent to manual review because its inputs drifted is
\* never handed to the executor, even if the controller died before the ledger
\* said so.
FlaggedNeverDispatched ==
    \A i \in 1..Len(events) :
        events[i].event = "slot_requires_manual_review" => dispatches[events[i].slot] = 0

\* max_concurrency 1: while a controller waits for the executor no other
\* controller does, the slot is published as running and every earlier slot is
\* published with a result.
SerialDispatch ==
    \A p \in Controllers : pc[p] = "await" =>
        /\ \A q \in Controllers : pc[q] = "await" => q = p
        /\ ledger.slots[idx[p]] = "running"
        /\ \A j \in 1..(idx[p] - 1) : ledger.slots[j] \in Results

\* limits.failure_stop_threshold bounds what a campaign can spend on attempts
\* that bring no completed slot, manual reviews and restarts included.
FailureBudget ==
    Cardinality({s \in Slots : dispatches[s] > 0 /\ ~Backs(evidence[s], Success)})
        <= Threshold

\* The verdict of a finished cycle: completed_ungraded is journalled only when
\* every slot has a sealed completed attempt, completed_with_failures only when
\* every slot has a sealed attempt and the failures stay below the threshold.
VerdictTruthful ==
    \A i \in 1..Len(events) : events[i].event = "campaign_cycle_completed" =>
        /\ \A s \in Slots : Backs(evidence[s], evidence[s].status)
        /\ events[i].status = Success => \A s \in Slots : evidence[s].status = Success
        /\ Cardinality({s \in Slots : evidence[s].status \in Failures}) < Threshold

\* Loading leaves no slot running in memory, so the slot loop never meets one:
\* the nonterminal_ledger_state_requires_review branch is unreachable.
NothingRunningAtSelect ==
    \A p \in Controllers : pc[p] = "select" =>
        \A s \in Slots : mem[p].slots[s] # "running"

\* A controller that is started ends its cycle and gives the lock back.
Termination == \A p \in Controllers : pc[p] # "off" ~> pc[p] = "off"

\* An operator who restarts the controller while the window is open gets every
\* slot out of "running": it is published with a result or for manual review.
\* (The bound on starts may run out first, and a torn journal stops every load.)
RunningResolved ==
    (\A p \in Controllers : WF_vars(Start(p))) =>
        \A s \in Slots : ledger.slots[s] = "running" ~>
            \/ ledger.slots[s] # "running"
            \/ torn \/ ~open
            \/ starts = MaxStarts /\ \A p \in Controllers : pc[p] = "off"

\* test_operator_cancellation_is_journaled_and_propagated: after Ctrl-C in a
\* slot's run that controller hands over no further slot.
CancellationStopsCampaign ==
    [][\A p \in Controllers : Execute(p) => p \notin cancelled]_vars

\* The campaign keeps the promise of CampaignPromise.
Promise == INSTANCE CampaignPromise WITH
    outcome <- ledger.slots,
    sealed  <- [s \in Slots |-> ShownResult(evidence[s])],
    given   <- {s \in Slots : dispatches[s] > 0}

KeepsPromise == Promise!Spec

=============================================================================
