--------------------------- MODULE NightwatchStatus ---------------------------
(***************************************************************************)
(* The read-only status command of harness/nightwatch.py, run_campaign     *)
(* without execute, beside the controllers of Nightwatch.  It takes no     *)
(* lock and changes nothing: it looks at the ledger, then at the journal,  *)
(* then at the evidence of one slot after the other, while the controllers *)
(* and the executor go on, and says what it has seen.                      *)
(***************************************************************************)
EXTENDS Nightwatch

VARIABLES
    spc,   \* where the command is
    view,  \* the ledger it has in memory
    look,  \* the slot it looks at next
    since  \* what was so when it began (history)

statusVars == <<spc, view, look, since>>

\* No command runs.
Quiet ==
    /\ spc = "idle" /\ view = NewLedger /\ look = 1
    /\ since = [claimed |-> {}, flagged |-> {}, created |-> FALSE]

\* Slots that the journal has sent to manual review.
Flagged == {s \in Slots : \E i \in 1..Len(events) :
                events[i].event = "slot_requires_manual_review" /\ events[i].slot = s}

Quietens == spc' = "idle" /\ view' = NewLedger /\ look' = 1
            /\ since' = [claimed |-> {}, flagged |-> {}, created |-> FALSE]

StatusInit == Init /\ Quiet

BeginStatus ==
    /\ spc = "idle"
    /\ spc' = "ledger"
    /\ since' = [claimed |-> {s \in Slots : evidence[s].stage # "none"},
                 flagged |-> Flagged, created |-> created]
    /\ UNCHANGED <<view, look>>

ReadLedger ==
    /\ spc = "ledger"
    /\ IF created THEN view' = ledger /\ spc' = "journal" ELSE view' = view /\ spc' = "absent"
    /\ UNCHANGED <<look, since>>

\* There was no ledger: then there must not be a journal.
JournalWithoutLedger == events # <<>> \/ torn

LooksForJournal ==
    /\ spc = "absent" /\ ~JournalWithoutLedger
    /\ spc' = "journal"
    /\ UNCHANGED <<view, look, since>>

\* _read_events and _load_state accept the journal for the ledger that was read.
ViewFits == JournalReadable /\ view.seq <= Len(events)

\* Fault: only the sequence number is brought forward.
ViewReplayedSequenceOnly == [view EXCEPT !.seq = Len(events)]

\* _replay_unpublished_events, on the ledger that was read.
ViewReplayed ==
    [view EXCEPT
        !.seq = Len(events),
        !.slots = [s \in Slots |->
            IF \E i \in (view.seq + 1)..Len(events) :
                 events[i].slot = s
                 /\ events[i].event \in {"slot_finished", "slot_requires_manual_review"}
            THEN "manual_review" ELSE view.slots[s]]]

ReadJournal ==
    /\ spc = "journal" /\ ViewFits
    /\ view' = ViewReplayed
    /\ spc' = "reconcile"
    /\ UNCHANGED <<look, since>>

\* A line that is being appended may be seen in part.
Appending == \E p \in Controllers : pc[p] = "append"

\* _stable_read does not accept a ledger that is replaced while it is read.
Publishing == \E p \in Controllers : pc[p] = "publish"

RefuseStatus ==
    /\ \/ spc = "ledger" /\ created /\ Publishing
       \/ spc = "absent" /\ (JournalWithoutLedger \/ Appending)
       \/ spc = "journal" /\ (~ViewFits \/ Appending)
    /\ Quietens

LookAtSlot ==
    /\ spc = "reconcile" /\ look <= N
    /\ \E sound \in BOOLEAN :
         view' = [view EXCEPT !.slots[look] = Reconciled(@, evidence[look], sound)]
    /\ look' = look + 1
    /\ UNCHANGED <<spc, since>>

\* The view, and the slots that would be executed.
WouldExecute == {s \in Slots : view.slots[s] = "pending"}

Report ==
    /\ spc = "reconcile" /\ look = N + 1
    /\ Quietens

StatusStep ==
    \/ BeginStatus \/ ReadLedger \/ LooksForJournal \/ ReadJournal \/ RefuseStatus
    \/ LookAtSlot \/ Report

StatusNext ==
    \/ StatusStep /\ UNCHANGED vars
    \/ Next /\ UNCHANGED statusVars

StatusSpec == StatusInit /\ [][StatusNext]_<<vars, statusVars>>

-----------------------------------------------------------------------------
(* Properties. *)

\* What the command says holds although it takes no lock: a result that it reports for a slot
\* is that of an attempt of this campaign that is sealed, or was when the command looked; a slot
\* that it would execute was not claimed, and not sent to manual review by the journal, when the
\* command began; and, I/O errors and edits by hand aside, it refuses the files of a live campaign
\* only while a line is appended or the ledger replaced, or if there was no ledger yet when it
\* began.
StatusTruthful ==
    [][/\ Report =>
            /\ \A s \in Slots : view.slots[s] \in Results =>
                  Proves(evidence[s], view.slots[s]) \/ Withdrawn(evidence[s], view.slots[s])
            /\ WouldExecute \cap (since.claimed \cup since.flagged) = {}
       /\ RefuseStatus => torn \/ Appending \/ Publishing \/ ~since.created]_<<vars, statusVars>>
=============================================================================
