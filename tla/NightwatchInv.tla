---------------------------- MODULE NightwatchInv ----------------------------
(***************************************************************************)
(* The inductive invariant of Nightwatch.  The properties of that module   *)
(* speak of the files and of one program point each; what makes them       *)
(* inductive is the relation between the lock, the lock holder's memory    *)
(* and the two files at every program point.                               *)
(*                                                                         *)
(* The invariant has a part about the lock, a part about the files and a   *)
(* part Own(p) per controller that says nothing unless p is inside the     *)
(* locked region: a step of the lock holder cannot disturb the others'.    *)
(***************************************************************************)
EXTENDS Nightwatch

\* The program points at which mem[p] holds the loaded campaign.
Loaded == Inside \ {"load", "leave"}

\* The points at which ledger.json is known to exist.
Published == Loaded \ {"reconcile", "create"}

\* An event, or a slot_started event, is being recorded.
Recording(p) == pc[p] \in {"append", "publish"}
Starting(p) == Recording(p) /\ pend[p].event = "slot_started"

\* The slot idx[p] has been published as running, or is about to be.
Busy(p) == Starting(p) \/ pc[p] \in {"execute", "await"}

\* The writer lock has at most one holder, and the holder is the controller
\* inside the locked region.
LockInv ==
    /\ \A p \in Controllers : pc[p] \in Inside <=> p \in locked
    /\ \A p, q \in locked : p = q

\* The journal is contiguous and well formed, the snapshot is not ahead of it,
\* and there is no journal without a snapshot.
JournalInv ==
    /\ \A i \in 1..Len(events) : events[i].seq = i /\ ValidEvent(events[i])
    /\ ledger.seq <= Len(events)
    /\ ~created => events = <<>>

\* No slot was handed over twice, and one that was is not pending in the ledger.
DispatchInv ==
    \A s \in Slots :
        /\ dispatches[s] <= 1
        /\ dispatches[s] > 0 => ledger.slots[s] # "pending"

\* The first n events flag slot s for drift.
Flags(s, n) ==
    \E i \in 1..n : events[i].event = "slot_requires_manual_review" /\ events[i].slot = s

\* The first n events end slot s.
Ends(s, n) ==
    \E i \in 1..n :
        /\ events[i].event \in {"slot_finished", "slot_requires_manual_review"}
        /\ events[i].slot = s

\* A flagged slot was never handed over, and a slot that has ended is terminal in
\* a ledger that is as recent as its end.
FlagInv ==
    \A s \in Slots :
        /\ Flags(s, Len(events)) => dispatches[s] = 0
        /\ Ends(s, ledger.seq) => ledger.slots[s] \in Terminal

\* The lock holder's memory is exactly as recent as the journal.
MemoryOf(p) ==
    /\ pc[p] \in Loaded => mem[p].seq = Len(events)
    /\ pc[p] \in Published => created

\* A slot event being recorded is about the slot the loop is at, and only slots
\* are executed.
IdxOf(p) ==
    /\ Recording(p) /\ pend[p].event \in SlotEvents => pend[p].slot = idx[p]
    /\ pc[p] \in {"execute", "await"} => idx[p] \in Slots

IdxInv == \A p \in Controllers : IdxOf(p)

\* The event being recorded is well formed and agrees with memory.
PendOf(p) ==
    Recording(p) =>
        /\ ValidEvent(pend[p])
        /\ pend[p].event \in {"slot_finished", "slot_requires_manual_review"}
             => mem[p].slots[idx[p]] = pend[p].status
        /\ pend[p].event \in {"campaign_started", "campaign_reconciled"} => idx[p] = 1

\* The slot loop has left only terminal slots behind, and goes to the end of the
\* cycle only when it must stop or has been through all slots.
LoopOf(p) ==
    /\ pc[p] \in {"select", "execute", "await"} \/ Starting(p)
         => \A j \in Slots : j < idx[p] => mem[p].slots[j] \in Terminal
    /\ Recording(p) /\ pend[p].event = "slot_finished"
         => \A j \in Slots : j <= idx[p] => mem[p].slots[j] \in Terminal
    /\ pc[p] = "final" => Stopping(p) \/ \A j \in Slots : mem[p].slots[j] \in Terminal

\* No slot of a reconciled ledger is running but the one that is executed.
RunningOf(p) ==
    /\ pc[p] = "reconcile"
         => \A j \in Slots : j < idx[p] => mem[p].slots[j] # "running"
    /\ pc[p] \in Loaded \ {"reconcile"}
         => \A j \in Slots : mem[p].slots[j] = "running" => Busy(p) /\ j = idx[p]

\* While a slot is executed it is running in memory, every earlier slot has a
\* result, and the published ledger says the same.
BusyOf(p) ==
    Busy(p) =>
        /\ mem[p].slots[idx[p]] = "running"
        /\ \A j \in Slots : j < idx[p] => mem[p].slots[j] \in Results
        /\ pc[p] \in {"execute", "await"} => ledger.slots = mem[p].slots

\* A slot that was handed over is not pending in memory, and one that is about
\* to be handed over, or flagged, never was.
DispatchOf(p) ==
    /\ pc[p] \in Loaded
         => \A s \in Slots : dispatches[s] > 0 => mem[p].slots[s] # "pending"
    /\ Starting(p) \/ pc[p] = "execute" => dispatches[idx[p]] = 0
    /\ pc[p] = "append" /\ pend[p].event = "slot_requires_manual_review"
         => dispatches[idx[p]] = 0

\* A slot that has ended is terminal in memory.
FlagOf(p) ==
    pc[p] \in Loaded
      => \A s \in Slots : Ends(s, Len(events)) => mem[p].slots[s] \in Terminal

Own(p) ==
    /\ MemoryOf(p)
    /\ IdxOf(p)
    /\ PendOf(p)
    /\ LoopOf(p)
    /\ RunningOf(p)
    /\ BusyOf(p)
    /\ DispatchOf(p)
    /\ FlagOf(p)

Files == JournalInv /\ DispatchInv /\ FlagInv

ControlInv ==
    /\ LockInv
    /\ Files
    /\ \A p \in Controllers : Own(p)

-----------------------------------------------------------------------------
(***************************************************************************)
(* What the campaign's promise, its failure budget and its verdict rest on *)
(* beyond ControlInv.                                                      *)
(***************************************************************************)

\* A controller has the executor at work only while it waits for it.
Calling(p) ==
    call[p].phase \notin {"idle"} \cup Outcomes => pc[p] = "await" /\ call[p].slot = idx[p]

CallingInv == \A p \in Controllers : Calling(p)

\* The points at which p has published all it knows of the slots.
UpToDate(p) ==
    \/ pc[p] \in {"select", "final"}
    \/ pc[p] \in {"reconcile", "announce"} /\ ~dirty[p]
    \/ Recording(p) /\ pend[p].event = "campaign_cycle_completed"

\* Whatever p has in memory it may publish, and it goes through the slots, and
\* ends the cycle, with the published ledger.
AheadOf(p) ==
    /\ pc[p] \in Loaded => \A s \in Slots : Promise!MayBecome(s, mem[p].slots)
    /\ UpToDate(p) => mem[p].slots = ledger.slots
    /\ pc[p] = "reconcile"
         => \A s \in Slots : mem[p].slots[s] = "running" => ledger.slots[s] = "running"

PromiseInv == \A p \in Controllers : AheadOf(p)

\* A slot is published as running, and executed, only below the threshold and
\* while no slot is in manual review.
BudgetOf(p) ==
    Busy(p) =>
        /\ \A s \in Slots : mem[p].slots[s] # "manual_review"
        /\ Cardinality(FailedSlots(mem[p].slots)) < Threshold

BudgetInv == FailureBudget /\ \A p \in Controllers : BudgetOf(p)

\* What a cycle that ended with this status says of the sealed attempts.
Verdict(status) ==
    /\ \A s \in Slots : Backs(evidence[s], evidence[s].status)
    /\ status = Success => \A s \in Slots : evidence[s].status = Success
    /\ Cardinality({s \in Slots : evidence[s].status \in Failures}) < Threshold

\* No slot is open again after the event of a completed cycle.
CycleInv ==
    (\E i \in 1..Len(events) : events[i].event = "campaign_cycle_completed") =>
        /\ \A s \in Slots : ledger.slots[s] \in Terminal
        /\ \A p \in Controllers :
             pc[p] \in Loaded => \A s \in Slots : mem[p].slots[s] \in Terminal

\* The verdict is true from the moment it is about to be recorded.
VerdictInv ==
    /\ VerdictTruthful
    /\ CycleInv
    /\ \A p \in Controllers :
         Recording(p) /\ pend[p].event = "campaign_cycle_completed" =>
             /\ Verdict(pend[p].status)
             /\ \A s \in Slots : mem[p].slots[s] \in Terminal
=============================================================================
