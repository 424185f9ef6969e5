---------------------------- MODULE H2bExecutorMC ----------------------------
EXTENDS H2bExecutor, TLC

\* A slot whose claim exists and that no live call works on is never touched
\* again: of its files only what callers see of them tells states apart.
OutsideView ==
    <<[s \in Slots |->
         IF \E r \in Runners : slot[r] = s /\ pc[r] \notin {"idle", "preflight"} \cup Outcomes
         THEN disk[s]
         ELSE <<disk[s].claim, disk[s].dir, EvidenceOnDisk(disk[s])>>],
      pc, memory>>
=============================================================================
