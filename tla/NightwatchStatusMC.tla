-------------------------- MODULE NightwatchStatusMC --------------------------
(* Instances of NightwatchStatus for TLC. *)
EXTENDS NightwatchStatus

\* Bound: one direct call at a time races with the controller, and none while the status command
\* runs.  What direct callers have left behind, attempts that died included, is there to be seen.
Resting == {r \in Directs : call[r].phase = "idle"}

OneDirectCall == \A q, r \in Directs \ Resting : q = r

DirectsRest == Resting = Directs

\* Bound: direct calls of this campaign are for the first slot, those of another for the last.
EachItsSlot == \A r \in Directs \ Resting : call[r].slot = IF r \in Foreign THEN N ELSE 1

RestingNext == StatusNext /\ OneDirectCall' /\ EachItsSlot' /\ (spc' = "idle" \/ DirectsRest')

RestingSpec == StatusInit /\ [][RestingNext]_<<vars, statusVars>>
=============================================================================
