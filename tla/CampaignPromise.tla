--------------------------- MODULE CampaignPromise ---------------------------
(***************************************************************************)
(* What a Nightwatch campaign promises its operator, whatever crashes,     *)
(* races or restarts happen: NIGHTWATCH.md's "Reconciliation and no-retry  *)
(* rule" as a state machine over the published ledger.                     *)
(*                                                                         *)
(*   - a slot is published as running before it is handed to the executor, *)
(*     and handed over at most once;                                       *)
(*   - it is published as running only when every earlier slot has a       *)
(*     result, no slot awaits manual review and the failure budget is not  *)
(*     exhausted;                                                          *)
(*   - a result is published only from an attempt that was sealed with it, *)
(*     and no slot is ever published with two different results: at most   *)
(*     it goes back to manual review, which ends only in such a result.    *)
(***************************************************************************)
EXTENDS Integers, FiniteSets

CONSTANTS N, Threshold

Slots     == 1..N
Success   == "completed_ungraded"
Failures  == {"failed", "partial"}
Results   == Failures \cup {Success}

VARIABLES
    outcome,   \* slot -> status in the published ledger
    sealed,    \* slot -> result the attempt for it was sealed with, or "none"
    given      \* slots handed to the executor

promiseVars == <<outcome, sealed, given>>

Failed(o) == {s \in Slots : o[s] \in Failures}

MayStart(o, s) ==
    /\ \A j \in 1..(s - 1) : o[j] \in Results
    /\ \A j \in Slots : o[j] # "manual_review"
    /\ Cardinality(Failed(o)) < Threshold

MayBecome(s, new) ==
    \/ new[s] = outcome[s]
    \/ new[s] = "running" /\ outcome[s] = "pending" /\ MayStart(new, s)
    \/ new[s] = "manual_review"
    \/ new[s] \in Results /\ sealed[s] = new[s]

Init ==
    /\ outcome = [s \in Slots |-> "pending"]
    /\ sealed = [s \in Slots |-> "none"]
    /\ given = {}

\* A new ledger snapshot is published.
Publish ==
    /\ outcome' \in [Slots -> {"pending", "running", "manual_review"} \cup Results]
    /\ \A s \in Slots : MayBecome(s, outcome')
    /\ UNCHANGED <<sealed, given>>

\* A running slot is handed to the executor.
Give(s) ==
    /\ outcome[s] = "running"
    /\ given' = given \cup {s}
    /\ s \notin given
    /\ UNCHANGED <<outcome, sealed>>

\* Somebody seals an attempt for the slot.
Seal(s) ==
    /\ sealed[s] = "none"
    /\ \E r \in Results : sealed' = [sealed EXCEPT ![s] = r]
    /\ UNCHANGED <<outcome, given>>

Next == Publish \/ \E s \in Slots : Give(s) \/ Seal(s)

Spec == Init /\ [][Next]_promiseVars
=============================================================================
