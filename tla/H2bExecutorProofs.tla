--------------------------- MODULE H2bExecutorProofs ---------------------------
(***************************************************************************)
(* The executor's promises about what it seals, for any number of runners, *)
(* slots and turns.                                                        *)
(*                                                                         *)
(* The inductive invariant says who may write where (the claim is          *)
(* exclusive), and for each point of a call what its memory and the files  *)
(* of its slot look like.  A slot that nobody holds no longer changes, so  *)
(* what is to be shown of sealed attempts is a property of the files alone.*)
(***************************************************************************)
EXTENDS H2bExecutor, TLAPS

\* The points from the exclusive creation of the claim on.
Holding == {"claim", "mkdir", "clock"} \cup Setup \cup Guarded \cup Finalizing \cup Sealing
             \cup FailClosedStates \cup {"fail_digest", "returned", "run_error"}

ClaimInv ==
    /\ \A r \in Runners : pc[r] \in Holding => Mine(r).claim # "none"
    /\ \A q, r \in Runners :
         pc[q] \in Holding /\ pc[r] \in Holding /\ slot[q] = slot[r] => q = r
    /\ \A s \in Slots : disk[s].claim = "none" => disk[s] = NoFiles(s)

\* Nothing of the attempt has been written.
Untouched(d) == d.log = NoLog /\ d.events = <<>> /\ d.digest = NoLog /\ d.files = {}

\* The points at which the run log is a log in memory that is saved from time to time.
Logging == Setup \cup Guarded \cup Finalizing \cup Sealing \cup FailClosedStates

\* Where the call is in its script, and its sandbox.
StepInv(r) ==
    /\ pc[r] \in {"idle"} \cup Allocating \cup Setup => step[r] = 0 /\ box[r] = "none"
    /\ pc[r] \in Guarded => step[r] > 0
    /\ pc[r] \in Guarded \ {"work"} => Script[step[r]] # "complete"
    /\ pc[r] \in {"answer", "raise"} => Script[step[r]] = "converse"
    /\ pc[r] \in Guarded \ {"work"} /\ Script[step[r]] = "converse" => log[r].calls # <<>>
    /\ pc[r] \in Guarded /\ (step[r] > 2 \/ (step[r] = 2 /\ pc[r] # "work")) => box[r] = "made"
    /\ pc[r] \in {"scrub", "close"} /\ log[r].status = Success => box[r] = "made"
    /\ pc[r] \in Guarded \cup {"scrub", "close"} => box[r] \in {"none", "made"}
    /\ pc[r] \in {"tally"} \cup Sealing =>
         /\ box[r] # "made"
         /\ log[r].status = Success => box[r] = "closed"
    /\ pc[r] \in FailClosedStates \cup {"fail_digest", "run_error"} => box[r] # "made"
    /\ pc[r] = "returned" => box[r] = "closed"

\* The result is settled.
Settled(l) ==
    /\ l.status \in Results
    /\ l.status = Success <=> l.failure = "none"
    /\ l.status = Success => l.artifacts = Required

\* The log in memory.
LogInv(r) ==
    /\ pc[r] \in Setup \cup Guarded =>
         /\ log[r].status = "running" /\ log[r].failure = "none" /\ log[r].journal = "none"
    /\ pc[r] \in Setup =>
         log[r].calls = <<>> /\ log[r].artifacts = {} /\ log[r].usage = "not_incurred"
    /\ pc[r] \in Finalizing \cup Sealing => Settled(log[r])
    /\ pc[r] \in Finalizing \cup (Sealing \ {"digest", "sync"}) => log[r].journal = "none"
    /\ pc[r] \in {"close", "tally"} \cup Sealing =>
         (log[r].status = Success => log[r].guard = "passed")
    /\ pc[r] \in Sealing => log[r].usage \in {UsageSummary(log[r].calls), "unknown"}

\* The inventory lists what is there.
Listed(d) ==
    /\ d.inventory.made
    /\ d.inventory.files = d.files
    /\ d.inventory.events = d.events

\* What a sealed log promises of the files around it.
Whole(d) ==
    /\ Listed(d)
    /\ d.log.artifacts \subseteq d.files
    /\ Settled(d.log)
    /\ d.log.status = Success => d.log.guard = "passed"
    /\ d.log.usage \in {UsageSummary(d.log.calls), "unknown"}
    /\ Rising(d.events)

\* The files d are those of a call with run log l that has numbered its events up to n.
Logged(d, l, n) ==
    /\ l.artifacts \subseteq d.files
    /\ d.log.artifacts \subseteq l.artifacts
    /\ Rising(d.events)
    /\ \A i \in DOMAIN d.events : d.events[i] <= n

Fresh(l)    == l.journal = "none" /\ l.status # Success
Unsealed(l) == l.journal # "sealed" /\ l.status # Success

\* The files of a held slot.
HeldInv(r) ==
    /\ pc[r] \in {"claim", "mkdir", "clock", "first"} => Untouched(Mine(r))
    /\ pc[r] = "created" => Mine(r).events = <<>>
    /\ pc[r] \in Logging => Logged(Mine(r), log[r], seq[r])
    /\ pc[r] \in Logging \ ({"digest", "sync"} \cup FailClosedStates) => Fresh(Mine(r).log)
    /\ pc[r] = "seal" => Listed(Mine(r))
    /\ pc[r] \in {"digest", "sync"} => Mine(r).log = log[r] /\ log[r].journal = "sealed"
    /\ pc[r] \in {"sync", "returned"} => SealedEvidence(slot[r])

\* The files, whoever holds them or nobody.
WholeInv ==
    \A s \in Slots :
        /\ disk[s].log.status = Success => disk[s].log.journal = "sealed"
        /\ disk[s].log.journal = "sealed" => Whole(disk[s])

RunnerInv(r) == StepInv(r) /\ LogInv(r) /\ HeldInv(r)

Inv == ClaimInv /\ WholeInv /\ \A r \in Runners : RunnerInv(r)

-----------------------------------------------------------------------------
(* The script, and the types of what is written. *)

USE NAssumption, ForeignAssumption, StrayDirsAssumption, ChangeLoopAssumption

\* The connection is the second step, the completion the last.
LEMMA ScriptFacts ==
    /\ 1 \in Steps /\ Steps \subseteq Nat \ {0}
    /\ \A i \in Steps :
         /\ Script[i] # "complete" => i + 1 \in Steps
         /\ Script[i] = "connect" <=> i = 2
         /\ Script[i] = "complete" => i > 2
<1>1. CASE ChangeLoop
  <2>1. Script = <<"stage", "connect", "converse", "capture", "capture", "freeze",
                   "reveal", "converse", "capture", "capture", "complete">>
    BY <1>1 DEF Script
  <2> QED BY <2>1 DEF Steps
<1>2. CASE ~ChangeLoop
  <2>1. Script = <<"stage", "connect", "converse", "capture", "capture", "freeze",
                   "capture", "capture", "complete">>
    BY <1>2 DEF Script
  <2> QED BY <2>1 DEF Steps
<1> QED BY <1>1, <1>2

LEMMA LogTypes ==
    ASSUME NEW l \in Logs
    PROVE  /\ \A c \in Categories : Failed(l, c) \in Logs /\ Marked(l, c) \in Logs
           /\ \A g \in {"pending", "not_started", "passed", "not_passed"} :
                [l EXCEPT !.guard = g] \in Logs
           /\ \A u \in {"not_incurred", "attempted_not_reported", "reported", "unknown"} :
                [l EXCEPT !.usage = u] \in Logs
           /\ [l EXCEPT !.status = Success] \in Logs
           /\ [l EXCEPT !.calls = Append(@, "attempted")] \in Logs
           /\ l.calls # <<>> => \A a \in Answers : [l EXCEPT !.calls[Len(l.calls)] = a] \in Logs
           /\ \A i \in Steps : [l EXCEPT !.artifacts = @ \cup {i}] \in Logs
           /\ \A j \in {"none", "sealed"} \cup FailClosedStates, n \in Nat :
                [l EXCEPT !.journal = j, !.final = n] \in Logs
<1> USE DEF Logs, Results, Failures
<1>1. \A c \in Categories : Failed(l, c) \in Logs
  BY DEF Failed
<1>2. \A c \in Categories : Marked(l, c) \in Logs
  BY <1>1 DEF Marked
<1>3. \A g \in {"pending", "not_started", "passed", "not_passed"} : [l EXCEPT !.guard = g] \in Logs
  OBVIOUS
<1>4. \A u \in {"not_incurred", "attempted_not_reported", "reported", "unknown"} :
        [l EXCEPT !.usage = u] \in Logs
  OBVIOUS
<1>5. [l EXCEPT !.status = Success] \in Logs
  OBVIOUS
<1>6. [l EXCEPT !.calls = Append(@, "attempted")] \in Logs
  <2>1. Append(l.calls, "attempted") \in Seq(Answers \cup {"attempted"})
    OBVIOUS
  <2>2. \A c \in Seq(Answers \cup {"attempted"}) : [l EXCEPT !.calls = c] \in Logs
    OBVIOUS
  <2> QED BY <2>1, <2>2
<1>7. ASSUME l.calls # <<>>, NEW a \in Answers
      PROVE  [l EXCEPT !.calls[Len(l.calls)] = a] \in Logs
  <2>1. [l.calls EXCEPT ![Len(l.calls)] = a] \in Seq(Answers \cup {"attempted"})
    BY <1>7
  <2>2. \A c \in Seq(Answers \cup {"attempted"}) : [l EXCEPT !.calls = c] \in Logs
    OBVIOUS
  <2> QED BY <2>1, <2>2
<1>8. \A i \in Steps : [l EXCEPT !.artifacts = @ \cup {i}] \in Logs
  <2>1. \A a \in SUBSET Steps : [l EXCEPT !.artifacts = a] \in Logs
    OBVIOUS
  <2> QED BY <2>1
<1>9. \A j \in {"none", "sealed"} \cup FailClosedStates, n \in Nat :
        [l EXCEPT !.journal = j, !.final = n] \in Logs
  OBVIOUS
<1> HIDE DEF Logs, Results, Failures
<1> QED BY <1>1, <1>2, <1>3, <1>4, <1>5, <1>6, <1>7, <1>8, <1>9

LEMMA NoLogTypes ==
    /\ NoLog \in Logs /\ Garbled \in Logs
    /\ \A r \in Runners : Running(r) \in Logs
<1>1. NoLog \in Logs
  BY DEF NoLog, Logs, Categories
<1>2. \A l \in Logs, b \in BOOLEAN :
        [l EXCEPT !.status = "garbled"] \in Logs
          /\ [l EXCEPT !.status = "running", !.bound = b] \in Logs
  BY DEF Logs
<1> QED BY <1>1, <1>2 DEF Garbled, Running

LEMMA DiskTypes ==
    ASSUME NEW d \in Disk
    PROVE  /\ \A c \in {"open", "written"} : [d EXCEPT !.claim = c] \in Disk
           /\ [d EXCEPT !.dir = TRUE] \in Disk
           /\ \A l \in Logs : /\ [d EXCEPT !.log = l] \in Disk
                              /\ [d EXCEPT !.digest = l] \in Disk
                              /\ Replaced(d, l) \in Disk
           /\ \A b \in BOOLEAN : [d EXCEPT !.torn = b] \in Disk /\ [d EXCEPT !.tmp = b] \in Disk
           /\ \A n \in Nat : Appended(d, n) \in Disk
           /\ \A i \in Steps : [d EXCEPT !.files = @ \cup {i}] \in Disk
           /\ Inventoried(d) \in Disk
<1> USE DEF Disk
<1>1. /\ \A c \in {"open", "written"} : [d EXCEPT !.claim = c] \in Disk
      /\ [d EXCEPT !.dir = TRUE] \in Disk
  OBVIOUS
<1>2. \A l \in Logs : [d EXCEPT !.log = l] \in Disk
  OBVIOUS
<1>3. \A l \in Logs : [d EXCEPT !.digest = l] \in Disk
  OBVIOUS
<1>4. \A l \in Logs : Replaced(d, l) \in Disk
  BY DEF Replaced
<1>5. \A b \in BOOLEAN : [d EXCEPT !.torn = b] \in Disk /\ [d EXCEPT !.tmp = b] \in Disk
  OBVIOUS
<1>6. ASSUME NEW n \in Nat
      PROVE  Appended(d, n) \in Disk
  <2>1. Append(d.events, IF d.torn THEN 0 ELSE n) \in Seq(Nat)
    OBVIOUS
  <2>2. \A e \in Seq(Nat) : [d EXCEPT !.events = e, !.torn = FALSE] \in Disk
    OBVIOUS
  <2> QED BY <2>1, <2>2 DEF Appended
<1>7. \A i \in Steps : [d EXCEPT !.files = @ \cup {i}] \in Disk
  <2>1. \A f \in SUBSET Steps : [d EXCEPT !.files = f] \in Disk
    OBVIOUS
  <2> QED BY <2>1
<1>8. Inventoried(d) \in Disk
  <2>1. [made |-> TRUE, files |-> d.files, tmp |-> d.tmp, events |-> d.events]
          \in [made : BOOLEAN, files : SUBSET Steps, tmp : BOOLEAN, events : Seq(Nat)]
    OBVIOUS
  <2>2. \A i \in [made : BOOLEAN, files : SUBSET Steps, tmp : BOOLEAN, events : Seq(Nat)] :
          [d EXCEPT !.inventory = i] \in Disk
    OBVIOUS
  <2> QED BY <2>1, <2>2 DEF Inventoried
<1> QED BY ZenonT(60), <1>1, <1>2, <1>3, <1>4, <1>5, <1>6, <1>7, <1>8

LEMMA AttemptTypes ==
    ASSUME NEW d \in Disk
    PROVE  /\ \A n \in Nat : AppendAttempts(d, n) \subseteq Disk
           /\ \A l \in Logs : ReplaceAttempts(d, l) \subseteq Disk
BY DiskTypes DEF AppendAttempts, ReplaceAttempts

-----------------------------------------------------------------------------
(* Type correctness. *)

Step(r) ==
    \/ \E s \in Slots : Invoke(r, s)
    \/ Proceed(r)
    \/ Expire(r)
    \/ \E how \in {"error", "interrupt"} : Escapes(r, how)
    \/ Killed(r)

LEMMA TypeInit == Init => TypeOK
<1> SUFFICES ASSUME Init PROVE TypeOK
  OBVIOUS
<1>1. \A s \in Slots : NoFiles(s) \in Disk
  <2>1. [made |-> FALSE, files |-> {}, tmp |-> FALSE, events |-> <<>>]
          \in [made : BOOLEAN, files : SUBSET Steps, tmp : BOOLEAN, events : Seq(Nat)]
    OBVIOUS
  <2>2. NoLog \in Logs
    BY NoLogTypes
  <2> QED BY <2>1, <2>2 DEF NoFiles, Disk
<1>2. NoLog \in Logs /\ 1 \in Slots
  BY NoLogTypes DEF Slots
<1> QED BY <1>1, <1>2 DEF Init, TypeOK, Pcs

LEMMA TypeStep == TypeOK /\ Inv /\ [Next]_vars => TypeOK'
<1> SUFFICES ASSUME TypeOK, \A r \in Runners : RunnerInv(r), NEW r \in Runners, Step(r)
             PROVE  TypeOK'
  BY DEF Inv, Next, Step, vars, memory, TypeOK
<1>1. /\ disk \in [Slots -> Disk] /\ pc \in [Runners -> Pcs] /\ slot \in [Runners -> Slots]
      /\ step \in [Runners -> Steps \cup {0}] /\ log \in [Runners -> Logs]
      /\ seq \in [Runners -> Nat] /\ late \in [Runners -> BOOLEAN]
      /\ box \in [Runners -> {"none", "made", "closed", "leaked"}]
  BY DEF TypeOK
<1>2. ASSUME disk' \in [Slots -> Disk], pc' \in [Runners -> Pcs], slot' \in [Runners -> Slots],
             step' \in [Runners -> Steps \cup {0}], log' \in [Runners -> Logs],
             seq' \in [Runners -> Nat], late' \in [Runners -> BOOLEAN],
             box' \in [Runners -> {"none", "made", "closed", "leaked"}]
      PROVE  TypeOK'
  BY <1>2 DEF TypeOK
<1>3. /\ Mine(r) \in Disk /\ log[r] \in Logs /\ seq[r] \in Nat /\ slot[r] \in Slots
      /\ StepInv(r) /\ LogInv(r)
  BY <1>1 DEF Mine, RunnerInv
<1>3a. /\ step[r] \in Steps \cup {0}
       /\ seq[r] + 1 \in Nat
       /\ seq' = [seq EXCEPT ![r] = @ + 1] => seq' \in [Runners -> Nat]
  BY <1>1
<1>4. \A d \in Disk : SetDisk(r, d) => disk' \in [Slots -> Disk]
  BY <1>1 DEF SetDisk
<1>5. \A l \in Logs : SetLog(r, l) => log' \in [Runners -> Logs]
  BY <1>1 DEF SetLog
<1>6. \A p \in Pcs : Goto(r, p) => pc' \in [Runners -> Pcs]
  BY <1>1 DEF Goto
<1>7. UNCHANGED disk => disk' \in [Slots -> Disk]
  BY <1>1
<1>8. UNCHANGED memory =>
        /\ slot' \in [Runners -> Slots] /\ step' \in [Runners -> Steps \cup {0}]
        /\ log' \in [Runners -> Logs] /\ seq' \in [Runners -> Nat]
        /\ late' \in [Runners -> BOOLEAN]
        /\ box' \in [Runners -> {"none", "made", "closed", "leaked"}]
  BY <1>1 DEF memory
<1>9. /\ Allocating \cup Setup \cup Guarded \cup Finalizing \cup Sealing \cup FailClosedStates
           \cup Outcomes \cup {"idle", "fail_digest"} = Pcs
      /\ Pcs = {"idle", "fail_digest", "preflight", "allocate", "claim", "mkdir", "clock",
                "first", "created", "setup", "work", "save", "append", "answer", "raise",
                "scrub", "close", "tally", "finalize", "inventory", "seal", "digest", "sync",
                "failed_closed", "failed_closed_deadline", "returned", "run_error", "error",
                "interrupt"}
  BY DEF Pcs, Allocating, Setup, Guarded, Finalizing, Sealing, FailClosedStates, Outcomes
<1>10. CASE \E s \in Slots : Invoke(r, s)
  <2>1. pc' \in [Runners -> Pcs]
    BY <1>6, <1>9, <1>10 DEF Invoke
  <2> QED BY <1>1, <1>2, <1>10, <2>1 DEF Invoke
<1>11. CASE \/ CheckCollision(r) \/ ClaimRefused(r) \/ Return(r)
            \/ \E how \in {"error", "interrupt"} : Escapes(r, how)
  <2>1. pc' \in [Runners -> Pcs]
    BY <1>6, <1>9, <1>11 DEF CheckCollision, ClaimRefused, Return, Escapes
  <2>2. UNCHANGED <<disk, memory>>
    BY <1>11 DEF CheckCollision, ClaimRefused, Return, Escapes
  <2> QED BY <1>2, <1>7, <1>8, <2>1, <2>2
<1>12. CASE \/ OpenClaim(r) \/ WriteClaim(r) \/ MakeAttemptDir(r) \/ WriteFirstLog(r)
            \/ AppendCreated(r) \/ Save(r) \/ Inventory(r) \/ WriteDigest(r)
  <2>1. pc' \in [Runners -> Pcs]
    BY <1>6, <1>9, <1>12 DEF OpenClaim, WriteClaim, MakeAttemptDir, WriteFirstLog, AppendCreated,
       Save, Inventory, WriteDigest
  <2>2. PICK d \in Disk : SetDisk(r, d)
    <3>1. Mine(r).log \in Logs
      BY <1>3 DEF Disk
    <3> QED BY <1>3, <1>12, <3>1, DiskTypes DEF OpenClaim, WriteClaim, MakeAttemptDir,
       WriteFirstLog, AppendCreated, Save, Inventory, WriteDigest
  <2>3. UNCHANGED memory
    BY <1>12 DEF OpenClaim, WriteClaim, MakeAttemptDir, WriteFirstLog, AppendCreated,
       Save, Inventory, WriteDigest
  <2> QED BY <1>2, <1>4, <1>8, <2>1, <2>2, <2>3
<1>13. CASE StartAttempt(r)
  <2>1. pc' \in [Runners -> Pcs] /\ log' \in [Runners -> Logs]
    BY <1>5, <1>6, <1>9, <1>13, NoLogTypes DEF StartAttempt
  <2> QED BY <1>1, <1>2, <1>13, <2>1 DEF StartAttempt
<1>14. CASE FinishSetup(r)
  <2>1. pc' \in [Runners -> Pcs] /\ disk' \in [Slots -> Disk]
    BY <1>3, <1>4, <1>6, <1>9, <1>14, DiskTypes DEF FinishSetup
  <2> QED BY <1>1, <1>2, <1>14, <2>1, ScriptFacts DEF FinishSetup
<1>15. CASE SetupFails(r)
  <2>1. pc' \in [Runners -> Pcs]
    BY <1>6, <1>9, <1>15 DEF SetupFails
  <2>2. disk' \in [Slots -> Disk]
    BY <1>3, <1>4, <1>15, DiskTypes, AttemptTypes, NoLogTypes DEF SetupFails, Setup
  <2>3. log' \in [Runners -> Logs]
    <3>1. Failed(log[r], "raised") \in Logs
      BY <1>3, LogTypes DEF Categories
    <3>2. [Failed(log[r], "raised") EXCEPT !.guard = "not_started"] \in Logs
      BY <3>1, LogTypes
    <3> QED BY <1>5, <1>15, <3>2 DEF SetupFails
  <2> QED BY <1>1, <1>2, <1>15, <2>1, <2>2, <2>3 DEF SetupFails
<1>16. CASE Expire(r)
  BY <1>1, <1>2, <1>16 DEF Expire
<1>17. CASE Stage(r) \/ Connect(r) \/ Reveal(r)
  <2>1. pc' \in [Runners -> Pcs]
    BY <1>6, <1>9, <1>17 DEF Stage, Connect, Reveal
  <2> QED BY <1>1, <1>2, <1>8, <1>17, <2>1 DEF Stage, Connect, Reveal
<1>18. CASE \/ Ask(r) \/ (\E answer \in Answers : Answer(r, answer)) \/ Freeze(r) \/ Complete(r)
            \/ Scrub(r)
  <2>1. pc' \in [Runners -> Pcs]
    BY <1>6, <1>9, <1>18 DEF Ask, Answer, Freeze, Complete, Scrub
  <2>2. UsageSummary(log[r].calls) \in {"not_incurred", "attempted_not_reported", "reported"}
    BY DEF UsageSummary
  <2>3. Marked(log[r], "artifact") \in Logs
    BY <1>3, LogTypes DEF Categories
  <2>4. pc[r] = "answer" => log[r].calls # <<>>
    BY <1>3 DEF StepInv, Guarded
  <2>5. PICK l \in Logs : SetLog(r, l)
    <3>1. CASE Ask(r) \/ Freeze(r) \/ Complete(r)
      BY <1>3, <2>2, <3>1, LogTypes DEF Ask, Freeze, Complete
    <3>2. CASE \E answer \in Answers : Answer(r, answer)
      BY <1>3, <2>4, <3>2, LogTypes DEF Answer
    <3>3. CASE Scrub(r)
      BY <1>3, <2>3, <3>3, LogTypes DEF Scrub
    <3> QED BY <1>18, <3>1, <3>2, <3>3
  <2>6. UNCHANGED <<disk, slot, step, seq, late, box>>
    BY <1>18 DEF Ask, Answer, Freeze, Complete, Scrub
  <2> QED BY <1>1, <1>2, <1>5, <2>1, <2>5, <2>6
<1>19. CASE Capture(r)
  <2>1. step[r] \in Steps
    BY <1>1, <1>19 DEF Capture, At
  <2> QED BY <1>1, <1>2, <1>3, <1>4, <1>5, <1>6, <1>9, <1>19, <2>1, LogTypes, DiskTypes DEF Capture
<1>20. CASE AppendEvent(r)
  <2>1. step[r] \in Steps /\ step[r] + 1 \in Steps
    <3>1. step[r] > 0 /\ Script[step[r]] # "complete"
      BY <1>3, <1>20 DEF AppendEvent, StepInv, Guarded
    <3>2. step[r] \in Steps
      BY <1>3a, <3>1
    <3> QED BY <3>1, <3>2, ScriptFacts
  <2>2. /\ \E p \in {"work", "answer", "raise"} : Goto(r, p)
        /\ step' = step \/ step' = [step EXCEPT ![r] = @ + 1]
    BY <1>20 DEF AppendEvent, AfterEvent, Goto
  <2>3. pc' \in [Runners -> Pcs] /\ step' \in [Runners -> Steps \cup {0}]
    BY <1>1, <1>6, <1>9, <2>1, <2>2
  <2>4. disk' \in [Slots -> Disk]
    <3>1. Appended(Mine(r), seq[r] + 1) \in Disk
      BY <1>3, <1>3a, DiskTypes
    <3> QED BY <1>4, <1>20, <3>1 DEF AppendEvent
  <2> QED BY <1>1, <1>2, <1>20, <1>3a, <2>3, <2>4 DEF AppendEvent
<1>21. ASSUME NEW category \in {"raised", "budget"}, WorkFails(r, category)
       PROVE  TypeOK'
  <2>1. pc' \in [Runners -> Pcs]
    BY <1>6, <1>9, <1>21 DEF WorkFails
  <2>2. At(r, "capture") => step[r] \in Steps
    BY <1>3a DEF At
  <2>3. Debris(r) \subseteq Disk
    <3>1. /\ ReplaceAttempts(Mine(r), log[r]) \subseteq Disk
          /\ AppendAttempts(Mine(r), seq[r] + 1) \subseteq Disk
          /\ \A i \in Steps : [Mine(r) EXCEPT !.files = @ \cup {i}] \in Disk
      BY <1>3, <1>3a, DiskTypes, AttemptTypes
    <3> QED BY <1>3, <2>2, <3>1 DEF Debris
  <2>4. Failed(log[r], category) \in Logs
    BY <1>3, LogTypes DEF Categories
  <2>5. disk' \in [Slots -> Disk]
    BY <1>4, <1>21, <2>3 DEF WorkFails
  <2>6. seq' \in [Runners -> Nat]
    <3>1. seq' = seq \/ seq' = [seq EXCEPT ![r] = @ + 1]
      BY <1>1, <1>21 DEF WorkFails
    <3> QED BY <1>1, <1>3a, <3>1
  <2>7. log' \in [Runners -> Logs]
    BY <1>5, <1>21, <2>4 DEF WorkFails
  <2>8. box' \in [Runners -> {"none", "made", "closed", "leaked"}]
    BY <1>1, <1>21 DEF WorkFails
  <2> QED BY <1>1, <1>2, <1>21, <2>1, <2>5, <2>6, <2>7, <2>8 DEF WorkFails
<1>22. CASE CloseSandbox(r)
  <2>1. pc' \in [Runners -> Pcs]
    BY <1>6, <1>9, <1>22 DEF CloseSandbox
  <2>2. Marked(log[r], "sandbox_close") \in Logs
    BY <1>3, LogTypes DEF Categories
  <2> QED BY <1>1, <1>2, <1>5, <1>22, <2>1, <2>2 DEF CloseSandbox
<1>23. CASE Tally(r)
  <2>1. pc' \in [Runners -> Pcs]
    BY <1>6, <1>9, <1>23 DEF Tally
  <2>2. UsageSummary(log[r].calls) \in {"not_incurred", "attempted_not_reported", "reported"}
    BY DEF UsageSummary
  <2>3. \A u \in {UsageSummary(log[r].calls), "unknown"} : [log[r] EXCEPT !.usage = u] \in Logs
    BY <1>3, <2>2, LogTypes
  <2>4. \A l \in Logs : Marked(l, "journal") \in Logs
    BY LogTypes DEF Categories
  <2>5. PICK l \in Logs : SetLog(r, l)
    BY <1>23, <2>3, <2>4 DEF Tally
  <2>6. UNCHANGED <<disk, slot, step, seq, late, box>>
    BY <1>23 DEF Tally
  <2> QED BY <1>1, <1>2, <1>5, <2>1, <2>5, <2>6
<1>24. CASE AppendFinal(r)
  <2>1. pc' \in [Runners -> Pcs] /\ disk' \in [Slots -> Disk]
    <3>1. Appended(Mine(r), seq[r] + 1) \in Disk
      BY <1>3, <1>3a, DiskTypes
    <3> QED BY <1>4, <1>6, <1>9, <1>24, <3>1 DEF AppendFinal
  <2> QED BY <1>1, <1>2, <1>24, <1>3a, <2>1 DEF AppendFinal
<1>25. Sealed(r) \in Logs
  BY <1>3, LogTypes DEF Sealed
<1>26. CASE WriteSealedLog(r)
  <2>1. /\ pc' \in [Runners -> Pcs] /\ disk' \in [Slots -> Disk] /\ log' \in [Runners -> Logs]
    BY <1>3, <1>4, <1>5, <1>6, <1>9, <1>25, <1>26, DiskTypes DEF WriteSealedLog
  <2> QED BY <1>1, <1>2, <1>26, <2>1 DEF WriteSealedLog
<1>27. CASE SealFails(r)
  <2>1. pc' \in [Runners -> Pcs]
    BY <1>6, <1>9, <1>27 DEF SealFails
  <2>2. Mine(r).log \in Logs
    BY <1>3 DEF Disk
  <2>3. pc[r] \in Sealing => SealDebris(r) \subseteq Disk
    <3>1. /\ ReplaceAttempts(Mine(r), Sealed(r)) \subseteq Disk
          /\ AppendAttempts(Mine(r), seq[r] + 1) \subseteq Disk
          /\ Inventoried(Mine(r)) \in Disk
          /\ [Mine(r) EXCEPT !.digest = Garbled] \in Disk
          /\ [Mine(r) EXCEPT !.digest = Mine(r).log] \in Disk
      BY <1>3, <1>25, <1>3a, <2>2, DiskTypes, AttemptTypes, NoLogTypes
    <3> QED BY <1>3, <3>1 DEF SealDebris, Sealing
  <2>4. disk' \in [Slots -> Disk]
    BY <1>4, <1>27, <2>3 DEF SealFails
  <2>5. seq' \in [Runners -> Nat]
    <3>1. seq' = seq \/ seq' = [seq EXCEPT ![r] = @ + 1]
      BY <1>1, <1>27 DEF SealFails
    <3> QED BY <1>1, <1>3a, <3>1
  <2> QED BY <1>1, <1>2, <1>27, <2>1, <2>4, <2>5 DEF SealFails
<1>28. CASE FailClosed(r)
  <2>1. pc' \in [Runners -> Pcs]
    BY <1>6, <1>9, <1>28 DEF FailClosed
  <2>2. ClosedLog(r) \in Logs
    <3>1. \A c \in {"journal", "budget"} : Failed(log[r], c) \in Logs
      BY <1>3, LogTypes DEF Categories
    <3> QED BY <1>3, <1>28, <3>1, LogTypes DEF ClosedLog, FailClosed
  <2>3. Mine(r).tmp \in BOOLEAN
    BY <1>3 DEF Disk
  <2>4. PICK d \in Disk : SetDisk(r, d)
    BY <1>3, <1>28, <2>2, <2>3, DiskTypes DEF FailClosed
  <2> QED BY <1>1, <1>2, <1>4, <1>5, <1>28, <2>1, <2>2, <2>4 DEF FailClosed
<1>29. CASE FailDigest(r)
  <2>1. pc' \in [Runners -> Pcs]
    BY <1>6, <1>9, <1>29 DEF FailDigest
  <2>2. Mine(r).log \in Logs /\ Mine(r).digest \in Logs
    BY <1>3 DEF Disk
  <2>3. PICK d \in Disk : SetDisk(r, d)
    BY <1>3, <1>29, <2>2, DiskTypes, NoLogTypes DEF FailDigest
  <2> QED BY <1>2, <1>4, <1>8, <1>29, <2>1, <2>3 DEF FailDigest
<1>30. Forget(r) => /\ pc' \in [Runners -> Pcs] /\ slot' \in [Runners -> Slots]
                    /\ step' \in [Runners -> Steps \cup {0}] /\ log' \in [Runners -> Logs]
                    /\ seq' \in [Runners -> Nat] /\ late' \in [Runners -> BOOLEAN]
                    /\ box' \in [Runners -> {"none", "made", "closed", "leaked"}]
  <2>1. 1 \in Slots /\ NoLog \in Logs
    BY NoLogTypes DEF Slots
  <2> QED BY <1>1, <1>6, <1>9, <2>1 DEF Forget
<1>31. CASE CallEnds(r)
  BY <1>2, <1>7, <1>30, <1>31 DEF CallEnds
<1>32. CASE Killed(r)
  <2>1. Remains(r) \subseteq Disk
    BY ZenonT(60), <1>3, DiskTypes, NoLogTypes DEF Remains
  <2> QED BY <1>2, <1>4, <1>30, <1>32, <2>1 DEF Killed
<1> QED BY <1>10, <1>11, <1>12, <1>13, <1>14, <1>15, <1>16, <1>17, <1>18, <1>19, <1>20, <1>21,
        <1>22, <1>23, <1>24, <1>26, <1>27, <1>28, <1>29, <1>31, <1>32 DEF Step, Proceed

-----------------------------------------------------------------------------
(* Who may write where. *)

\* A step of a call touches its own memory, and files only of a slot that it holds or claims.
LEMMA Shape ==
    ASSUME TypeOK, TypeOK', NEW r \in Runners, Step(r)
    PROVE  /\ \A q \in Runners \ {r} :
                /\ pc'[q] = pc[q] /\ slot'[q] = slot[q] /\ step'[q] = step[q]
                /\ log'[q] = log[q] /\ seq'[q] = seq[q] /\ late'[q] = late[q] /\ box'[q] = box[q]
           /\ \A s \in Slots \ {slot[r]} : disk'[s] = disk[s]
           /\ pc[r] \notin Holding => disk' = disk \/ OpenClaim(r)
           /\ pc'[r] \in Holding => slot'[r] = slot[r] /\ (pc[r] \in Holding \/ OpenClaim(r))
<1> USE DEF Goto, SetDisk, SetLog, Forget, memory
<1>1. /\ disk \in [Slots -> Disk] /\ pc \in [Runners -> Pcs] /\ slot \in [Runners -> Slots]
      /\ step \in [Runners -> Steps \cup {0}] /\ log \in [Runners -> Logs]
      /\ seq \in [Runners -> Nat] /\ late \in [Runners -> BOOLEAN]
      /\ box \in [Runners -> {"none", "made", "closed", "leaked"}]
  BY DEF TypeOK
<1>2. /\ disk = [s \in Slots |-> disk[s]] /\ disk' = [s \in Slots |-> disk'[s]]
      /\ (SetDisk(r, Mine(r)) => disk' = disk)
  BY <1>1 DEF TypeOK, Mine
<1>3. /\ Holding = {"claim", "mkdir", "clock", "first", "created", "setup", "work", "save", "append",
                    "answer", "raise", "scrub", "close", "tally", "finalize", "inventory", "seal",
                    "digest", "sync", "failed_closed", "failed_closed_deadline", "fail_digest", "returned",
                    "run_error"}
      /\ Allocating = {"preflight", "allocate", "claim", "mkdir", "clock"}
      /\ Outcomes = {"returned", "run_error", "error", "interrupt"}
  BY DEF Holding, Setup, Guarded, Finalizing, Sealing, FailClosedStates, Allocating, Outcomes
<1>4. CASE \/ \E s \in Slots : Invoke(r, s)
           \/ CheckCollision(r) \/ ClaimRefused(r)
           \/ \E how \in {"error", "interrupt"} : Escapes(r, how)
  BY <1>1, <1>3, <1>4 DEF Invoke, CheckCollision, ClaimRefused, Escapes
<1>5. CASE OpenClaim(r)
  BY <1>1, <1>3, <1>5 DEF OpenClaim
<1>6. CASE WriteClaim(r) \/ MakeAttemptDir(r) \/ StartAttempt(r) \/ WriteFirstLog(r)
           \/ AppendCreated(r) \/ FinishSetup(r)
  BY <1>1, <1>3, <1>6 DEF WriteClaim, MakeAttemptDir, StartAttempt, WriteFirstLog, AppendCreated,
     FinishSetup
<1>7. CASE SetupFails(r)
  BY <1>1, <1>3, <1>7 DEF SetupFails, Setup
<1>8. CASE Expire(r) \/ Stage(r) \/ Connect(r) \/ Ask(r) \/ Capture(r) \/ Freeze(r) \/ Reveal(r)
           \/ Save(r) \/ Complete(r) \/ \E answer \in Answers : Answer(r, answer)
  BY <1>1, <1>3, <1>8 DEF Expire, Stage, Connect, Ask, Answer, Capture, Freeze, Reveal, Save,
     Complete, At
<1>9. CASE AppendEvent(r)
  <2>1. /\ \E p \in {"work", "answer", "raise"} : Goto(r, p)
        /\ step' = step \/ step' = [step EXCEPT ![r] = @ + 1]
    BY <1>9 DEF AppendEvent, AfterEvent
  <2> QED BY <1>1, <1>3, <1>9, <2>1 DEF AppendEvent
<1>10. CASE \E category \in {"raised", "budget"} : WorkFails(r, category)
  BY <1>1, <1>3, <1>10 DEF WorkFails, Guarded
<1>11. CASE Scrub(r) \/ CloseSandbox(r) \/ Tally(r)
  BY <1>1, <1>3, <1>11 DEF Scrub, CloseSandbox, Tally
<1>12. CASE AppendFinal(r) \/ Inventory(r) \/ WriteSealedLog(r) \/ WriteDigest(r) \/ Return(r)
  BY <1>1, <1>3, <1>12 DEF AppendFinal, Inventory, WriteSealedLog, WriteDigest, Return
<1>13. CASE SealFails(r)
  BY <1>1, <1>3, <1>13 DEF SealFails, Sealing
<1>14. CASE FailClosed(r) \/ FailDigest(r)
  BY <1>1, <1>3, <1>14 DEF FailClosed, FailDigest, FailClosedStates
<1>15. CASE CallEnds(r)
  BY <1>1, <1>3, <1>15 DEF CallEnds
<1>16. CASE Killed(r)
  <2>1. pc[r] \notin Holding => Remains(r) = {Mine(r)}
    BY <1>3 DEF Remains, FailClosedStates
  <2>2. pc[r] \notin Holding => disk' = disk
    BY <1>2, <1>16, <2>1 DEF Killed
  <2> HIDE DEF SetDisk
  <2>3. PICK d : SetDisk(r, d)
    BY <1>16 DEF Killed
  <2>4. Forget(r)
    BY <1>16 DEF Killed
  <2>5. pc'[r] = "idle"
    BY <1>1, <2>4
  <2> QED BY <1>1, <1>3, <2>2, <2>3, <2>4, <2>5 DEF SetDisk
<1> QED BY <1>4, <1>5, <1>6, <1>7, <1>8, <1>9, <1>10, <1>11, <1>12, <1>13, <1>14, <1>15, <1>16
        DEF Step, Proceed

\* Nothing but its own steps changes the claim and the directory of a slot.
LEMMA ClaimKept ==
    ASSUME TypeOK, NEW r \in Runners, Step(r)
    PROVE  \/ OpenClaim(r) /\ disk'[slot[r]].claim = "open"
           \/ WriteClaim(r) /\ disk'[slot[r]].claim = "written"
           \/ disk'[slot[r]].claim = Mine(r).claim
<1>1. /\ disk \in [Slots -> Disk] /\ slot[r] \in Slots /\ Mine(r) \in Disk
      /\ \A d : SetDisk(r, d) => disk'[slot[r]] = d
  BY DEF TypeOK, Mine, SetDisk
<1>2. /\ \A n : \A d \in AppendAttempts(Mine(r), n) : d.claim = Mine(r).claim
      /\ \A n : Appended(Mine(r), n).claim = Mine(r).claim
      /\ \A l : \A d \in ReplaceAttempts(Mine(r), l) : d.claim = Mine(r).claim
      /\ \A l : Replaced(Mine(r), l).claim = Mine(r).claim
      /\ Inventoried(Mine(r)).claim = Mine(r).claim
  BY <1>1 DEF AppendAttempts, Appended, ReplaceAttempts, Replaced, Inventoried, Disk
<1>3. CASE OpenClaim(r) \/ WriteClaim(r)
  BY <1>1, <1>3 DEF OpenClaim, WriteClaim, Disk
<1>4. CASE UNCHANGED disk
  BY <1>4 DEF Mine
<1>5. SUFFICES ASSUME \E d : SetDisk(r, d) /\ d.claim = Mine(r).claim
               PROVE  disk'[slot[r]].claim = Mine(r).claim
  <2>1. CASE MakeAttemptDir(r) \/ WriteFirstLog(r) \/ AppendCreated(r) \/ FinishSetup(r)
             \/ Capture(r) \/ Save(r) \/ AppendEvent(r) \/ AppendFinal(r) \/ Inventory(r)
             \/ WriteSealedLog(r) \/ WriteDigest(r)
    BY <1>1, <1>2, <2>1 DEF MakeAttemptDir, WriteFirstLog, AppendCreated, FinishSetup, Capture,
       Save, AppendEvent, AppendFinal, Inventory, WriteSealedLog, WriteDigest, Disk
  <2>2. CASE SetupFails(r)
    BY <1>1, <1>2, <2>2 DEF SetupFails, Setup, Disk
  <2>3. CASE \E category \in {"raised", "budget"} : WorkFails(r, category)
    <3>1. \A d \in Debris(r) : d.claim = Mine(r).claim
      BY <1>1, <1>2 DEF Debris, Disk
    <3> QED BY <2>3, <3>1 DEF WorkFails
  <2>4. CASE SealFails(r)
    <3>1. pc[r] \in Sealing => \A d \in SealDebris(r) : d.claim = Mine(r).claim
      BY <1>1, <1>2 DEF SealDebris, Sealing, Disk
    <3> QED BY <2>4, <3>1 DEF SealFails
  <2>5. CASE FailClosed(r) \/ FailDigest(r)
    BY <1>1, <1>2, <2>5 DEF FailClosed, FailDigest, Disk
  <2>6. CASE Killed(r)
    <3>1. \A d \in Remains(r) : d.claim = Mine(r).claim
      BY <1>1, <1>2 DEF Remains, Disk
    <3> QED BY <2>6, <3>1 DEF Killed
  <2> QED BY <1>3, <1>4, <1>5, <2>1, <2>2, <2>3, <2>4, <2>5, <2>6
          DEF Step, Proceed, Invoke, CheckCollision, ClaimRefused, Escapes, StartAttempt, Expire,
              Stage, Connect, Ask, Answer, Freeze, Reveal, Complete, Scrub, CloseSandbox, Tally,
              Return, CallEnds
<1> QED BY <1>1, <1>5

\* The claim decides who works on a slot, for good.
LEMMA ClaimStep ==
    ASSUME TypeOK, TypeOK', ClaimInv, NEW r \in Runners, Step(r)
    PROVE  ClaimInv'
<1>1. /\ disk \in [Slots -> Disk] /\ slot \in [Runners -> Slots]
      /\ disk' \in [Slots -> Disk] /\ slot' \in [Runners -> Slots]
      /\ slot[r] \in Slots
  BY DEF TypeOK
<1>2. /\ \A q \in Runners \ {r} : pc'[q] = pc[q] /\ slot'[q] = slot[q]
      /\ \A s \in Slots \ {slot[r]} : disk'[s] = disk[s]
      /\ pc[r] \notin Holding => disk' = disk \/ OpenClaim(r)
      /\ pc'[r] \in Holding => slot'[r] = slot[r] /\ (pc[r] \in Holding \/ OpenClaim(r))
  BY Shape
<1>3. OpenClaim(r) => Mine(r).claim = "none" /\ disk'[slot[r]].claim # "none"
  BY <1>1 DEF OpenClaim, SetDisk, Mine, Disk
<1>4. WriteClaim(r) => pc[r] \in Holding
  BY DEF WriteClaim, Holding
<1>5. Mine(r).claim # "none" => disk'[slot[r]].claim # "none"
  BY ClaimKept
<1>6. pc[r] \in Holding => Mine(r).claim # "none"
  BY DEF ClaimInv
<1>7. ASSUME NEW q \in Runners, pc'[q] \in Holding
      PROVE  disk'[slot'[q]].claim # "none"
  <2>1. CASE q = r
    BY <1>2, <1>3, <1>5, <1>6, <1>7, <2>1
  <2>2. CASE q # r
    BY <1>1, <1>2, <1>5, <1>7, <2>2 DEF ClaimInv, Mine
  <2> QED BY <2>1, <2>2
<1>8. ASSUME NEW p \in Runners, NEW q \in Runners, pc'[p] \in Holding, pc'[q] \in Holding,
             slot'[p] = slot'[q]
      PROVE  p = q
  <2>1. CASE p # r /\ q # r
    BY <1>2, <1>8, <2>1 DEF ClaimInv
  <2>2. ASSUME NEW o \in Runners \ {r}, pc'[o] \in Holding, pc'[r] \in Holding,
               slot'[o] = slot'[r]
        PROVE  FALSE
    <3>1. pc[o] \in Holding /\ slot[o] = slot[r] /\ Mine(o).claim # "none"
      BY <1>2, <2>2 DEF ClaimInv
    <3>2. pc[r] \in Holding
      BY <1>2, <1>3, <2>2, <3>1 DEF Mine
    <3> QED BY <3>1, <3>2 DEF ClaimInv
  <2> QED BY <1>8, <2>1, <2>2
<1>9. ASSUME NEW s \in Slots, disk'[s].claim = "none"
      PROVE  disk'[s] = NoFiles(s)
  <2>1. CASE s # slot[r]
    BY <1>2, <1>9, <2>1 DEF ClaimInv
  <2>2. CASE s = slot[r]
    BY <1>1, <1>2, <1>3, <1>5, <1>6, <1>9, <2>2 DEF ClaimInv, Mine
  <2> QED BY <2>1, <2>2
<1> QED BY <1>7, <1>8, <1>9 DEF ClaimInv, Mine, NoFiles, NoLog

-----------------------------------------------------------------------------
(* What a call knows. *)

LEMMA PcSets ==
    /\ Allocating = {"preflight", "allocate", "claim", "mkdir", "clock"}
    /\ Setup = {"first", "created", "setup"}
    /\ Guarded = {"work", "save", "append", "answer", "raise"}
    /\ Finalizing = {"scrub", "close", "tally"}
    /\ Sealing = {"finalize", "inventory", "seal", "digest", "sync"}
    /\ FailClosedStates = {"failed_closed", "failed_closed_deadline"}
    /\ Outcomes = {"returned", "run_error", "error", "interrupt"}
BY DEF Allocating, Setup, Guarded, Finalizing, Sealing, FailClosedStates, Outcomes

\* A step of one call leaves alone what the others know.
LEMMA OthersKept ==
    ASSUME TypeOK, TypeOK', ClaimInv, NEW r \in Runners, Step(r), NEW q \in Runners \ {r},
           RunnerInv(q)
    PROVE  RunnerInv(q)'
<1>1. /\ pc'[q] = pc[q] /\ slot'[q] = slot[q] /\ step'[q] = step[q]
      /\ log'[q] = log[q] /\ seq'[q] = seq[q] /\ box'[q] = box[q]
      /\ \A s \in Slots \ {slot[r]} : disk'[s] = disk[s]
      /\ pc[r] \notin Holding => disk' = disk \/ OpenClaim(r)
      /\ slot[q] \in Slots
  BY Shape DEF TypeOK
<1>2. pc[q] \in Holding => disk'[slot[q]] = disk[slot[q]]
  <2>1. OpenClaim(r) => disk[slot[r]].claim = "none"
    BY DEF OpenClaim, Mine
  <2> QED BY <1>1, <2>1 DEF ClaimInv, Mine
<1>3. StepInv(q)' /\ LogInv(q)'
  BY <1>1 DEF RunnerInv, StepInv, LogInv
<1>4. HeldInv(q)'
  <2>1. CASE pc[q] \in Holding
    <3>1. /\ Mine(q)' = Mine(q)
          /\ SealedEvidence(slot[q]) <=> SealedEvidence(slot[q])'
      BY <1>1, <1>2, <2>1 DEF Mine, SealedEvidence
    <3> QED BY <1>1, <3>1 DEF RunnerInv, HeldInv
  <2>2. CASE pc[q] \notin Holding
    BY <1>1, <2>2, PcSets DEF HeldInv, Holding, Logging
  <2> QED BY <2>1, <2>2
<1> QED BY <1>3, <1>4 DEF RunnerInv

\* The status that a failure records.
LEMMA FailedFacts ==
    ASSUME NEW l \in Logs, NEW c \in Categories \ {"none"}
    PROVE  /\ Failed(l, c).status \in Failures /\ Failed(l, c).failure = c
           /\ Failed(l, c).artifacts = l.artifacts /\ Failed(l, c).calls = l.calls
           /\ Failed(l, c).usage = l.usage /\ Failed(l, c).guard = l.guard
           /\ Failed(l, c).journal = l.journal /\ Failed(l, c).bound = l.bound
           /\ Settled(Failed(l, c))
<1> USE DEF Logs, Failed, Failures
<1>1. /\ Failed(l, c).status \in Failures /\ Failed(l, c).failure = c
      /\ Failed(l, c).artifacts = l.artifacts /\ Failed(l, c).calls = l.calls
      /\ Failed(l, c).usage = l.usage /\ Failed(l, c).guard = l.guard
      /\ Failed(l, c).journal = l.journal /\ Failed(l, c).bound = l.bound
  OBVIOUS
<1> HIDE DEF Failed
<1> QED BY <1>1 DEF Settled, Results, Success

LEMMA MarkedFacts ==
    ASSUME NEW l \in Logs, NEW c \in Categories \ {"none"}
    PROVE  /\ Marked(l, c).artifacts = l.artifacts /\ Marked(l, c).calls = l.calls
           /\ Marked(l, c).usage = l.usage /\ Marked(l, c).guard = l.guard
           /\ Marked(l, c).journal = l.journal /\ Marked(l, c).bound = l.bound
           /\ Marked(l, c).failure # "none"
           /\ Settled(l) => Settled(Marked(l, c)) /\ Marked(l, c).status # Success
           /\ Marked(l, c).status = l.status \/ Marked(l, c).status \in Failures
<1>1. CASE l.failure = "none"
  BY <1>1, FailedFacts DEF Marked, Failures, Success
<1>2. CASE l.failure # "none"
  BY <1>2 DEF Marked, Settled
<1> QED BY <1>1, <1>2

\* Where the call is in its script, and its sandbox.
LEMMA StepKept ==
    ASSUME TypeOK, TypeOK', NEW r \in Runners, RunnerInv(r), Step(r)
    PROVE  StepInv(r)'
<1> USE DEF Goto, SetLog
<1>1. /\ pc \in [Runners -> Pcs] /\ step \in [Runners -> Steps \cup {0}]
      /\ log \in [Runners -> Logs] /\ box \in [Runners -> {"none", "made", "closed", "leaked"}]
      /\ log[r] \in Logs /\ step[r] \in Steps \cup {0}
  BY DEF TypeOK
<1>2. StepInv(r) /\ LogInv(r)
  BY DEF RunnerInv
<1> USE <1>1, <1>2, PcSets
\* Before the guarded region.
<1>3. CASE \/ \E s \in Slots : Invoke(r, s)
           \/ CheckCollision(r) \/ OpenClaim(r) \/ ClaimRefused(r) \/ WriteClaim(r)
           \/ MakeAttemptDir(r) \/ StartAttempt(r) \/ WriteFirstLog(r) \/ AppendCreated(r)
  <2>1. /\ step'[r] = step[r] /\ box'[r] = box[r]
        /\ pc[r] \in {"idle"} \cup Allocating \cup Setup
        /\ pc'[r] \in Allocating \cup Setup \cup {"error"}
    BY <1>3 DEF Invoke, CheckCollision, OpenClaim, ClaimRefused, WriteClaim, MakeAttemptDir,
       StartAttempt, WriteFirstLog, AppendCreated, memory
  <2> QED BY <2>1 DEF StepInv
<1>4. CASE FinishSetup(r)
  <2>1. /\ step'[r] = 1 /\ box'[r] = box[r] /\ pc'[r] = "work" /\ pc[r] = "setup"
    BY <1>4 DEF FinishSetup
  <2> QED BY <2>1 DEF StepInv
<1>5. CASE SetupFails(r)
  <2>1. /\ step'[r] = step[r] /\ box'[r] = box[r] /\ pc'[r] = "finalize" /\ pc[r] \in Setup
        /\ log'[r] = [Failed(log[r], "raised") EXCEPT !.guard = "not_started"]
    BY <1>5 DEF SetupFails
  <2>2. log'[r].status # Success
    <3>1. Failed(log[r], "raised").status # Success /\ Failed(log[r], "raised") \in Logs
      BY ZenonT(60), FailedFacts, LogTypes DEF Categories, Failures, Success
    <3> QED BY <2>1, <3>1 DEF Logs
  <2> QED BY <2>1, <2>2 DEF StepInv
<1>6. CASE \E how \in {"error", "interrupt"} : Escapes(r, how)
  <2>1. pc'[r] \in {"error", "interrupt"}
    BY <1>6 DEF Escapes
  <2> QED BY <2>1 DEF StepInv
\* The guarded region.
<1>7. CASE Expire(r)
  <2>1. UNCHANGED <<pc, step, log, box>>
    BY <1>7 DEF Expire
  <2> QED BY <2>1 DEF StepInv
<1>8. CASE Stage(r) \/ Reveal(r) \/ Freeze(r) \/ Capture(r)
  <2>1. /\ step'[r] = step[r] /\ box'[r] = box[r]
        /\ pc[r] = "work" /\ pc'[r] \in {"save", "append"}
        /\ step[r] \in Steps /\ Script[step[r]] \notin {"connect", "converse", "complete"}
    BY <1>8 DEF Stage, Reveal, Freeze, Capture, At, memory
  <2> QED BY <2>1, ScriptFacts DEF StepInv
<1>9. CASE Connect(r)
  <2>1. /\ step'[r] = step[r] /\ box'[r] = "made"
        /\ pc[r] = "work" /\ pc'[r] = "append"
        /\ step[r] \in Steps /\ Script[step[r]] = "connect"
    BY <1>9 DEF Connect, At
  <2> QED BY <2>1, ScriptFacts DEF StepInv
<1>10. CASE Ask(r)
  <2>1. /\ step'[r] = step[r] /\ box'[r] = box[r]
        /\ pc[r] = "work" /\ pc'[r] = "save"
        /\ step[r] \in Steps /\ Script[step[r]] = "converse"
        /\ log'[r] = [log[r] EXCEPT !.calls = Append(@, "attempted")]
    BY <1>10 DEF Ask, At
  <2>2. log'[r].calls # <<>>
    <3>1. log'[r].calls = Append(log[r].calls, "attempted")
            /\ log[r].calls \in Seq(Answers \cup {"attempted"})
      BY <2>1 DEF Logs
    <3>2. Len(log'[r].calls) = Len(log[r].calls) + 1 /\ Len(log[r].calls) \in Nat
      BY <3>1
    <3> QED BY <3>2
  <2> QED BY <2>1, <2>2, ScriptFacts DEF StepInv
<1>11. CASE \E answer \in Answers : Answer(r, answer)
  <2>1. PICK answer \in Answers :
          /\ step'[r] = step[r] /\ box'[r] = box[r]
          /\ pc[r] = "answer" /\ pc'[r] = "save"
          /\ log'[r] = [log[r] EXCEPT !.calls[Len(log[r].calls)] = answer]
    BY <1>11 DEF Answer
  <2>2. log[r].calls # <<>> /\ Script[step[r]] = "converse"
    BY <2>1 DEF StepInv
  <2>3. log'[r].calls # <<>>
    <3>1. log'[r].calls = [log[r].calls EXCEPT ![Len(log[r].calls)] = answer]
      BY <2>1 DEF Logs
    <3>2. DOMAIN log'[r].calls = DOMAIN log[r].calls
      BY <3>1
    <3> QED BY <2>2, <3>2 DEF Logs
  <2> QED BY <2>1, <2>2, <2>3 DEF StepInv
<1>12. CASE Save(r)
  <2>1. /\ step'[r] = step[r] /\ box'[r] = box[r] /\ log'[r] = log[r]
        /\ pc[r] = "save" /\ pc'[r] = "append"
    BY <1>12 DEF Save, memory
  <2> QED BY <2>1 DEF StepInv
<1>13. CASE AppendEvent(r)
  <2>1. /\ box'[r] = box[r] /\ log'[r] = log[r] /\ pc[r] = "append"
        /\ \/ pc'[r] \in {"answer", "raise"} /\ step'[r] = step[r] /\ Script[step[r]] = "converse"
           \/ pc'[r] = "work" /\ step'[r] \in {step[r], step[r] + 1}
    BY <1>13 DEF AppendEvent, AfterEvent
  <2>2. step[r] > 0
    BY <2>1 DEF StepInv
  <2>3. step[r] \in Steps
    BY <2>2
  <2>4. step[r] \in Nat
    BY <2>3, ScriptFacts
  <2>5. step[r] + 1 > 2 => step[r] = 2 \/ step[r] > 2
    BY <2>4
  <2>6. CASE pc'[r] # "work"
    BY <2>1, <2>2, <2>6 DEF StepInv
  <2>7. CASE pc'[r] = "work"
    <3>1. step'[r] > 0
      BY <2>1, <2>2, <2>4
    <3>2. step'[r] > 2 => box[r] = "made"
      <4>1. step[r] = 2 \/ step[r] > 2 => box[r] = "made"
        BY <2>1 DEF StepInv
      <4> QED BY <2>1, <2>5, <4>1
    <3> QED BY <2>1, <2>7, <3>1, <3>2 DEF StepInv
  <2> QED BY <2>6, <2>7
<1>14. CASE Complete(r)
  <2>1. /\ box'[r] = box[r] /\ pc[r] = "work" /\ pc'[r] = "scrub"
        /\ step[r] \in Steps /\ Script[step[r]] = "complete"
    BY <1>14 DEF Complete, At
  <2>2. step[r] > 2
    BY <2>1, ScriptFacts
  <2> QED BY <2>1, <2>2 DEF StepInv
<1>15. ASSUME NEW category \in {"raised", "budget"}, WorkFails(r, category)
       PROVE  StepInv(r)'
  <2>1. /\ pc[r] \in Guarded /\ pc'[r] = "scrub"
        /\ box'[r] \in {"none", "made", box[r]}
        /\ At(r, "connect") \/ box'[r] = box[r]
        /\ log'[r] = Failed(log[r], category)
    BY <1>15 DEF WorkFails
  <2>2. log'[r].status # Success
    BY <2>1, FailedFacts DEF Categories, Failures, Success
  <2>3. box[r] \in {"none", "made"}
    BY <2>1 DEF StepInv
  <2> QED BY <2>1, <2>2, <2>3 DEF StepInv
\* The finally block and the sealing.
<1>16. CASE Scrub(r)
  <2>1. /\ box'[r] = box[r] /\ pc[r] = "scrub" /\ pc'[r] = "close"
        /\ \/ log'[r] = [log[r] EXCEPT !.guard = "passed"]
           \/ log'[r] = [Marked(log[r], "artifact") EXCEPT !.guard = "not_passed"]
    BY <1>16 DEF Scrub
  <2>2. log'[r].status = log[r].status \/ log'[r].status # Success
    <3>1. Marked(log[r], "artifact") \in Logs
      BY LogTypes DEF Categories
    <3>2. Marked(log[r], "artifact").status = log[r].status
            \/ Marked(log[r], "artifact").status # Success
      BY MarkedFacts DEF Categories, Failures, Success
    <3> QED BY <2>1, <3>1, <3>2 DEF Logs
  <2> QED BY <2>1, <2>2 DEF StepInv
<1>17. CASE CloseSandbox(r)
  <2>1. /\ pc[r] = "close" /\ pc'[r] = "tally" /\ Settled(log[r])
        /\ \/ /\ box'[r] = IF box[r] = "made" THEN "closed" ELSE box[r]
              /\ log'[r] = log[r]
           \/ /\ box'[r] = "leaked" /\ log'[r] = Marked(log[r], "sandbox_close")
    BY <1>17 DEF CloseSandbox, LogInv
  <2>2. Marked(log[r], "sandbox_close").status # Success
    BY <2>1, MarkedFacts DEF Categories
  <2> QED BY <2>1, <2>2 DEF StepInv
<1>18. CASE Tally(r)
  <2>1. /\ box'[r] = box[r] /\ pc[r] = "tally" /\ pc'[r] = "finalize"
        /\ \E u : \/ log'[r] = [log[r] EXCEPT !.usage = u]
                  \/ log'[r] = Marked([log[r] EXCEPT !.usage = u], "journal")
                       /\ [log[r] EXCEPT !.usage = u] \in Logs
    <3>1. \A u \in {UsageSummary(log[r].calls), "unknown"} : [log[r] EXCEPT !.usage = u] \in Logs
      BY LogTypes DEF UsageSummary
    <3> QED BY <1>18, <3>1 DEF Tally
  <2>2. log'[r].status = log[r].status \/ log'[r].status # Success
    <3>1. \A u : [log[r] EXCEPT !.usage = u].status = log[r].status
      BY DEF Logs
    <3>2. \A l \in Logs : Marked(l, "journal").status = l.status
            \/ Marked(l, "journal").status # Success
      BY MarkedFacts DEF Categories, Failures, Success
    <3> QED BY <2>1, <3>1, <3>2
  <2> QED BY <2>1, <2>2 DEF StepInv
<1>19. CASE AppendFinal(r) \/ Inventory(r)
  <2>1. /\ box'[r] = box[r] /\ log'[r] = log[r] /\ pc[r] \in Sealing /\ pc'[r] \in Sealing
    BY <1>19 DEF AppendFinal, Inventory, memory
  <2> QED BY <2>1 DEF StepInv
<1>20. CASE WriteSealedLog(r)
  <2>1. /\ box'[r] = box[r] /\ log'[r] = Sealed(r) /\ pc[r] \in Sealing /\ pc'[r] = "digest"
    BY <1>20 DEF WriteSealedLog
  <2>2. Sealed(r).status = log[r].status
    BY DEF Sealed, Logs
  <2> QED BY <2>1, <2>2 DEF StepInv
<1>21. CASE WriteDigest(r)
  <2>1. /\ box'[r] = box[r] /\ log'[r] = log[r] /\ pc[r] \in Sealing /\ pc'[r] = "sync"
    BY <1>21 DEF WriteDigest, memory
  <2> QED BY <2>1 DEF StepInv
<1>25. CASE Return(r)
  <2>1. /\ box'[r] = box[r] /\ log'[r] = log[r] /\ pc[r] \in Sealing
        /\ pc'[r] = IF log[r].status = Success THEN "returned" ELSE "run_error"
    BY <1>25 DEF Return, memory
  <2> QED BY <2>1 DEF StepInv
<1>22. CASE SealFails(r)
  <2>1. /\ box'[r] = box[r] /\ pc[r] \in Sealing /\ pc'[r] \in FailClosedStates
    BY <1>22 DEF SealFails
  <2> QED BY <2>1 DEF StepInv
<1>23. CASE FailClosed(r) \/ FailDigest(r)
  <2>1. /\ box'[r] = box[r] /\ pc[r] \in FailClosedStates \cup {"fail_digest"}
        /\ pc'[r] \in {"fail_digest", "run_error"}
    BY <1>23 DEF FailClosed, FailDigest, memory
  <2> QED BY <2>1 DEF StepInv
<1>24. CASE CallEnds(r) \/ Killed(r)
  <2>1. pc'[r] = "idle" /\ step'[r] = 0 /\ box'[r] = "none"
    BY <1>24 DEF CallEnds, Killed, Forget
  <2> QED BY <2>1 DEF StepInv
<1> QED BY <1>3, <1>4, <1>5, <1>6, <1>7, <1>8, <1>9, <1>10, <1>11, <1>12, <1>13, <1>14, <1>15,
        <1>16, <1>17, <1>18, <1>19, <1>20, <1>21, <1>22, <1>23, <1>24, <1>25 DEF Step, Proceed

\* What the finally block changes besides the result.
LEMMA EditFacts ==
    ASSUME NEW l \in Logs
    PROVE  /\ \A g : /\ [l EXCEPT !.guard = g].status = l.status
                     /\ [l EXCEPT !.guard = g].guard = g
                     /\ [l EXCEPT !.guard = g].usage = l.usage
                     /\ [l EXCEPT !.guard = g].calls = l.calls
                     /\ [l EXCEPT !.guard = g].journal = l.journal
                     /\ [l EXCEPT !.guard = g].artifacts = l.artifacts
                     /\ Settled(l) => Settled([l EXCEPT !.guard = g])
           /\ \A u : /\ [l EXCEPT !.usage = u].status = l.status
                     /\ [l EXCEPT !.usage = u].usage = u
                     /\ [l EXCEPT !.usage = u].guard = l.guard
                     /\ [l EXCEPT !.usage = u].calls = l.calls
                     /\ [l EXCEPT !.usage = u].journal = l.journal
                     /\ [l EXCEPT !.usage = u].artifacts = l.artifacts
                     /\ Settled(l) => Settled([l EXCEPT !.usage = u])
BY DEF Logs, Settled

\* The log in memory.
LEMMA LogKept ==
    ASSUME TypeOK, TypeOK', NEW r \in Runners, RunnerInv(r), Step(r)
    PROVE  LogInv(r)'
<1> USE DEF Goto, SetLog
<1>1. /\ pc \in [Runners -> Pcs] /\ log \in [Runners -> Logs] /\ log[r] \in Logs
  BY DEF TypeOK
<1>2. LogInv(r)
  BY DEF RunnerInv
<1> USE <1>1, <1>2, PcSets
\* Before the log, and after it.
<1>3. CASE \/ \E s \in Slots : Invoke(r, s)
           \/ CheckCollision(r) \/ OpenClaim(r) \/ ClaimRefused(r) \/ WriteClaim(r)
           \/ MakeAttemptDir(r) \/ \E how \in {"error", "interrupt"} : Escapes(r, how)
           \/ Return(r) \/ SealFails(r) \/ FailClosed(r) \/ FailDigest(r) \/ CallEnds(r)
           \/ Killed(r)
  <2>1. pc'[r] \notin Setup \cup Guarded \cup Finalizing \cup Sealing
    BY <1>3 DEF Invoke, CheckCollision, OpenClaim, ClaimRefused, WriteClaim, MakeAttemptDir,
       Escapes, Return, SealFails, FailClosed, FailDigest, CallEnds, Killed, Forget
  <2> QED BY <2>1 DEF LogInv
<1>4. CASE StartAttempt(r)
  <2>1. log'[r] = Running(r) /\ pc'[r] = "first"
    BY <1>4 DEF StartAttempt
  <2>2. /\ Running(r).status = "running" /\ Running(r).failure = "none"
        /\ Running(r).journal = "none" /\ Running(r).calls = <<>>
        /\ Running(r).artifacts = {} /\ Running(r).usage = "not_incurred"
    BY DEF Running, NoLog
  <2> QED BY <2>1, <2>2 DEF LogInv
\* The log is written, not changed.
<1>5. CASE \/ WriteFirstLog(r) \/ AppendCreated(r) \/ FinishSetup(r) \/ Expire(r) \/ Stage(r)
           \/ Connect(r) \/ Reveal(r) \/ Save(r) \/ AppendFinal(r) \/ Inventory(r)
           \/ WriteDigest(r)
  <2>1. /\ log'[r] = log[r]
        /\ \/ pc'[r] = pc[r]
           \/ pc[r] \in Setup /\ pc'[r] \in Setup \cup {"work"}
           \/ pc[r] \in Guarded /\ pc'[r] \in Guarded
           \/ pc[r] \in Sealing \ {"digest", "sync"} /\ pc'[r] \in {"inventory", "seal"}
           \/ pc[r] = "digest" /\ pc'[r] = "sync"
    BY <1>5 DEF WriteFirstLog, AppendCreated, FinishSetup, Expire, Stage, Connect, Reveal, Save,
       AppendFinal, Inventory, WriteDigest, At, memory
  <2> QED BY <2>1 DEF LogInv
<1>6. CASE AppendEvent(r)
  <2>1. log'[r] = log[r] /\ pc[r] \in Guarded /\ pc'[r] \in Guarded
    BY <1>6 DEF AppendEvent, AfterEvent
  <2> QED BY <2>1 DEF LogInv
<1>7. CASE Ask(r) \/ Freeze(r) \/ Capture(r) \/ \E answer \in Answers : Answer(r, answer)
  <2>1. /\ pc[r] \in Guarded /\ pc'[r] = "save"
        /\ log'[r].status = log[r].status /\ log'[r].failure = log[r].failure
        /\ log'[r].journal = log[r].journal
    BY <1>7 DEF Ask, Freeze, Capture, Answer, At, Logs
  <2> QED BY <2>1 DEF LogInv
\* The result.
<1>8. CASE Complete(r)
  <2>1. /\ pc[r] = "work" /\ pc'[r] = "scrub" /\ log[r].artifacts = Required
        /\ log'[r] = [log[r] EXCEPT !.status = Success]
    BY <1>8 DEF Complete, At
  <2>2. log[r].failure = "none" /\ log[r].journal = "none"
    BY <2>1 DEF LogInv
  <2>3. /\ log'[r].status = Success /\ log'[r].failure = "none" /\ log'[r].journal = "none"
        /\ log'[r].artifacts = Required
    BY <2>1, <2>2 DEF Logs
  <2> QED BY <2>1, <2>3 DEF LogInv, Settled, Results
<1>9. CASE SetupFails(r)
  <2> DEFINE l == Failed(log[r], "raised")
  <2>1. /\ pc[r] \in Setup /\ pc'[r] = "finalize"
        /\ log'[r] = [l EXCEPT !.guard = "not_started"]
    BY <1>9 DEF SetupFails
  <2>2. /\ l \in Logs /\ Settled(l) /\ l.status # Success /\ l.journal = "none"
        /\ l.calls = <<>> /\ l.usage = "not_incurred"
    <3>1. log[r].journal = "none" /\ log[r].calls = <<>> /\ log[r].usage = "not_incurred"
      BY <2>1 DEF LogInv
    <3>2. l \in Logs
      BY LogTypes DEF Categories
    <3> QED BY <3>1, <3>2, FailedFacts DEF Categories, Failures, Success
  <2>3. UsageSummary(<<>>) = "not_incurred"
    BY DEF UsageSummary
  <2> HIDE DEF l
  <2> DEFINE k == [l EXCEPT !.guard = "not_started"]
  <2>4. /\ Settled(k) /\ k.status = l.status /\ k.journal = l.journal /\ k.calls = l.calls
        /\ k.usage = l.usage
    BY ZenonT(60), <2>2, EditFacts
  <2>5. log'[r] = k
    BY <2>1
  <2> HIDE DEF k
  <2> QED BY <2>1, <2>2, <2>3, <2>4, <2>5 DEF LogInv
<1>10. ASSUME NEW category \in {"raised", "budget"}, WorkFails(r, category)
       PROVE  LogInv(r)'
  <2>1. pc[r] \in Guarded /\ pc'[r] = "scrub" /\ log'[r] = Failed(log[r], category)
    BY <1>10 DEF WorkFails
  <2>2. log[r].journal = "none"
    BY <2>1 DEF LogInv
  <2>3. Settled(log'[r]) /\ log'[r].journal = "none"
    BY <2>1, <2>2, FailedFacts DEF Categories
  <2> QED BY <2>1, <2>3 DEF LogInv
\* The finally block.
<1>11. CASE Scrub(r)
  <2> DEFINE m == Marked(log[r], "artifact")
  <2>1. /\ pc[r] = "scrub" /\ pc'[r] = "close"
        /\ \/ log'[r] = [log[r] EXCEPT !.guard = "passed"]
           \/ log'[r] = [m EXCEPT !.guard = "not_passed"]
    BY <1>11 DEF Scrub
  <2>2. Settled(log[r]) /\ log[r].journal = "none"
    BY <2>1 DEF LogInv
  <2>3. m \in Logs /\ Settled(m) /\ m.journal = "none" /\ m.status # Success
    BY ZenonT(60), <2>2, MarkedFacts, LogTypes DEF Categories
  <2> HIDE DEF m
  <2> DEFINE passed == [log[r] EXCEPT !.guard = "passed"]
             not    == [m EXCEPT !.guard = "not_passed"]
  <2>5. Settled(passed) /\ passed.journal = "none" /\ passed.guard = "passed"
    BY <2>2, EditFacts
  <2>6. Settled(not) /\ not.journal = "none" /\ not.status # Success
    BY <2>3, EditFacts
  <2>7. log'[r] = passed \/ log'[r] = not
    BY <2>1
  <2> HIDE DEF passed, not
  <2>4. /\ Settled(log'[r]) /\ log'[r].journal = "none"
        /\ log'[r].status = Success => log'[r].guard = "passed"
    BY <2>5, <2>6, <2>7
  <2> QED BY <2>1, <2>4 DEF LogInv
<1>12. CASE CloseSandbox(r)
  <2>1. /\ pc[r] = "close" /\ pc'[r] = "tally"
        /\ log'[r] = log[r] \/ log'[r] = Marked(log[r], "sandbox_close")
    BY <1>12 DEF CloseSandbox
  <2>2. Settled(log[r]) /\ log[r].journal = "none" /\ (log[r].status = Success => log[r].guard = "passed")
    BY <2>1 DEF LogInv
  <2>3. /\ Settled(log'[r]) /\ log'[r].journal = "none"
        /\ log'[r].status = Success => log'[r].guard = "passed"
    BY <2>1, <2>2, MarkedFacts DEF Categories
  <2> QED BY <2>1, <2>3 DEF LogInv
<1>13. CASE Tally(r)
  <2>1. PICK usage \in {UsageSummary(log[r].calls), "unknown"} :
          /\ pc[r] = "tally" /\ pc'[r] = "finalize"
          /\ \/ log'[r] = [log[r] EXCEPT !.usage = usage]
             \/ log'[r] = Marked([log[r] EXCEPT !.usage = usage], "journal")
    BY <1>13 DEF Tally
  <2> DEFINE l == [log[r] EXCEPT !.usage = usage]
  <2>2. /\ Settled(log[r]) /\ log[r].journal = "none"
        /\ log[r].status = Success => log[r].guard = "passed"
    BY <2>1 DEF LogInv
  <2>3. l \in Logs
    BY LogTypes DEF UsageSummary
  <2>4. /\ Settled(l) /\ l.journal = "none" /\ l.usage = usage /\ l.calls = log[r].calls
        /\ l.status = Success => l.guard = "passed"
    BY <2>2, EditFacts
  <2>5. log'[r] = l \/ log'[r] = Marked(l, "journal")
    BY <2>1
  <2> HIDE DEF l
  <2>6. /\ Settled(log'[r]) /\ log'[r].journal = "none" /\ log'[r].usage = usage
        /\ log'[r].calls = log[r].calls
        /\ log'[r].status = Success => log'[r].guard = "passed"
    BY <2>3, <2>4, <2>5, MarkedFacts DEF Categories
  <2> QED BY <2>1, <2>6 DEF LogInv
<1>14. CASE WriteSealedLog(r)
  <2>1. pc[r] = "seal" /\ pc'[r] = "digest" /\ log'[r] = Sealed(r)
    BY <1>14 DEF WriteSealedLog
  <2>2. /\ log'[r].status = log[r].status /\ log'[r].failure = log[r].failure
        /\ log'[r].artifacts = log[r].artifacts /\ log'[r].guard = log[r].guard
        /\ log'[r].usage = log[r].usage /\ log'[r].calls = log[r].calls
    BY <2>1 DEF Sealed, Logs
  <2>3. /\ Settled(log[r]) /\ (log[r].status = Success => log[r].guard = "passed")
        /\ log[r].usage \in {UsageSummary(log[r].calls), "unknown"}
    BY <2>1 DEF LogInv
  <2> QED BY <2>1, <2>2, <2>3 DEF LogInv, Settled
<1> QED BY <1>3, <1>4, <1>5, <1>6, <1>7, <1>8, <1>9, <1>10, <1>11, <1>12, <1>13, <1>14
        DEF Step, Proceed

-----------------------------------------------------------------------------
(* The files of a slot, as the call that holds it changes them. *)

\* An append, complete or not, keeps the numbers rising.
LEMMA AppendFacts ==
    ASSUME NEW d \in Disk, NEW n \in Nat, NEW e \in AppendAttempts(d, n)
    PROVE  /\ e.log = d.log /\ e.files = d.files /\ e.inventory = d.inventory
           /\ e.digest = d.digest
           /\ Rising(d.events) /\ (\A i \in DOMAIN d.events : d.events[i] < n)
                => Rising(e.events) /\ \A i \in DOMAIN e.events : e.events[i] <= n
<1>1. /\ e.log = d.log /\ e.files = d.files /\ e.inventory = d.inventory /\ e.digest = d.digest
      /\ e.events = d.events \/ \E x \in {0, n} : e.events = Append(d.events, x)
  BY DEF AppendAttempts, Appended, Disk
<1>2. d.events \in Seq(Nat)
  BY DEF Disk
<1>3. ASSUME Rising(d.events), \A i \in DOMAIN d.events : d.events[i] < n
      PROVE  Rising(e.events) /\ \A i \in DOMAIN e.events : e.events[i] <= n
  <2>1. CASE e.events = d.events
    BY <1>2, <1>3, <2>1
  <2>2. ASSUME NEW x \in {0, n}, e.events = Append(d.events, x)
        PROVE  Rising(e.events) /\ \A i \in DOMAIN e.events : e.events[i] <= n
    <3> DEFINE m == Len(d.events)
    <3>1. m \in Nat /\ DOMAIN d.events = 1..m /\ DOMAIN e.events = 1..(m + 1)
      BY <1>2, <2>2
    <3>2. (\A i \in 1..m : e.events[i] = d.events[i]) /\ e.events[m + 1] = x
      BY <1>2, <2>2
    <3>3. \A i \in 1..m : e.events[i] < n /\ e.events[i] \in Nat
      <4>1. \A i \in 1..m : d.events[i] \in Nat
        BY <1>2
      <4>2. \A i \in 1..m : d.events[i] < n
        BY <1>3, <3>1
      <4> HIDE DEF m
      <4> QED BY <3>2, <4>1, <4>2
    <3>4. \A i \in 1..(m + 1) : i \in 1..m \/ i = m + 1
      BY <3>1
    <3> HIDE DEF m
    <3>5. \A i \in 1..(m + 1) : e.events[i] <= n
      BY <3>2, <3>3, <3>4
    <3>6. ASSUME NEW i \in 1..(m + 1), NEW j \in 1..(m + 1), i < j, e.events[i] > 0,
                 e.events[j] > 0
          PROVE  e.events[i] < e.events[j]
      <4>1. i \in 1..m
        BY <3>1, <3>4, <3>6
      <4>2. CASE j \in 1..m
        BY <1>3, <3>1, <3>2, <3>6, <4>1, <4>2 DEF Rising
      <4>3. CASE j = m + 1
        BY <3>2, <3>3, <3>6, <4>1, <4>3
      <4> QED BY <3>4, <4>2, <4>3
    <3> QED BY <3>1, <3>5, <3>6 DEF Rising
  <2> QED BY <1>1, <2>1, <2>2
<1> QED BY <1>1, <1>3

\* A line more is in the journal of the call.
LEMMA LoggedAppend ==
    ASSUME NEW d \in Disk, NEW l \in Logs, NEW n \in Nat, Logged(d, l, n)
    PROVE  /\ \A e \in AppendAttempts(d, n + 1) : Logged(e, l, n + 1)
           /\ d.events = <<>> => \A e \in AppendAttempts(d, n) : Logged(e, l, n)
<1>1. Rising(d.events) /\ \A i \in DOMAIN d.events : d.events[i] <= n
  BY DEF Logged
<1>2. n + 1 \in Nat /\ d.events \in Seq(Nat)
  BY DEF Disk
<1>3. \A i \in DOMAIN d.events : d.events[i] < n + 1
  BY <1>1, <1>2
<1>4. ASSUME NEW e \in AppendAttempts(d, n + 1)
      PROVE  Logged(e, l, n + 1)
  BY <1>1, <1>2, <1>3, <1>4, AppendFacts DEF Logged
<1>5. ASSUME NEW e \in AppendAttempts(d, n), d.events = <<>>
      PROVE  Logged(e, l, n)
  <2>1. \A i \in DOMAIN d.events : d.events[i] < n
    BY <1>5
  <2> QED BY <1>1, <1>5, <2>1, AppendFacts DEF Logged
<1> QED BY <1>4, <1>5

\* So it is after the log was replaced, or not, by one that names the same artifacts.
LEMMA ReplaceFacts ==
    ASSUME NEW d \in Disk, NEW l \in Logs, NEW e \in ReplaceAttempts(d, l)
    PROVE  /\ e.log \in {d.log, l}
           /\ e.files = d.files /\ e.inventory = d.inventory /\ e.events = d.events
           /\ e.digest = d.digest
           /\ \A n \in Nat : Logged(d, l, n) => Logged(e, l, n)
<1>1. /\ e.log \in {d.log, l}
      /\ e.files = d.files /\ e.inventory = d.inventory /\ e.events = d.events
      /\ e.digest = d.digest
  BY DEF ReplaceAttempts, Replaced, Disk
<1> QED BY <1>1 DEF Logged

LEMMA LoggedSame ==
    ASSUME NEW d, NEW e, NEW l, NEW k, NEW n, Logged(d, l, n), k.artifacts = l.artifacts,
           e.files = d.files, e.events = d.events, e.log.artifacts = d.log.artifacts
    PROVE  Logged(e, k, n)
BY DEF Logged

\* Appended and Replaced are what the attempts come to when nothing fails.
LEMMA AttemptsSucceed ==
    ASSUME NEW d, NEW n, NEW l
    PROVE  Appended(d, n) \in AppendAttempts(d, n) /\ Replaced(d, l) \in ReplaceAttempts(d, l)
BY DEF AppendAttempts, ReplaceAttempts

\* The files of a held slot.
LEMMA HeldKept ==
    ASSUME TypeOK, TypeOK', ClaimInv, NEW r \in Runners, RunnerInv(r), Step(r)
    PROVE  HeldInv(r)'
<1> DEFINE d == Mine(r)
           e == disk'[slot[r]]
<1>1. /\ disk \in [Slots -> Disk] /\ pc \in [Runners -> Pcs] /\ log \in [Runners -> Logs]
      /\ seq \in [Runners -> Nat] /\ d \in Disk /\ log[r] \in Logs /\ seq[r] \in Nat
      /\ slot[r] \in Slots /\ step[r] \in Steps \cup {0} /\ Logs # {}
  BY DEF TypeOK, Mine
<1>2. LogInv(r) /\ HeldInv(r)
  BY DEF RunnerInv
<1>3. /\ \A f : SetDisk(r, f) => e = f
      /\ \A p : Goto(r, p) => pc'[r] = p
      /\ \A l : SetLog(r, l) => log'[r] = l
      /\ UNCHANGED disk => e = d
  BY <1>1 DEF SetDisk, Goto, SetLog, Mine
<1>4. pc'[r] \in Holding => slot'[r] = slot[r]
  BY Shape
<1>5. pc'[r] \in Holding => Mine(r)' = e
  BY <1>4 DEF Mine
<1>6. Logging = {"first", "created", "setup", "work", "save", "append", "answer", "raise", "scrub",
                 "close", "tally", "finalize", "inventory", "seal", "digest", "sync", "failed_closed",
                 "failed_closed_deadline"}
      /\ Holding = {"claim", "mkdir", "clock", "fail_digest", "returned", "run_error"} \cup Logging
  BY PcSets DEF Logging, Holding
<1> HIDE DEF d, e
<1>7. CASE pc'[r] \notin Holding
  BY <1>6, <1>7, PcSets DEF HeldInv
\* What is left to show at an ordinary point: the journal, and a log that is not sealed.
<1>8. ASSUME pc'[r] \in Logging \ {"first", "created", "seal", "digest"},
             pc'[r] # "sync",
             Logged(e, log'[r], seq'[r]), pc'[r] \in FailClosedStates \/ Fresh(e.log)
      PROVE  HeldInv(r)'
  BY <1>5, <1>6, <1>8, PcSets DEF HeldInv
<1>9. pc[r] \in Logging => Logged(d, log[r], seq[r])
  BY <1>2 DEF HeldInv, d
<1>10. pc[r] \in Logging \ ({"digest", "sync"} \cup FailClosedStates) => Fresh(d.log)
  BY <1>2 DEF HeldInv, d
\* Before the attempt.
<1>11. CASE OpenClaim(r) \/ WriteClaim(r) \/ MakeAttemptDir(r) \/ StartAttempt(r)
  <2>1. Untouched(d)
    <3>1. CASE OpenClaim(r)
      <4>1. disk[slot[r]] = NoFiles(slot[r])
        BY <1>1, <3>1 DEF OpenClaim, ClaimInv, Mine
      <4> QED BY <4>1 DEF Untouched, NoFiles, Mine, d
    <3>2. CASE ~OpenClaim(r)
      <4>1. pc[r] \in {"claim", "mkdir", "clock"}
        BY <1>11, <3>2 DEF WriteClaim, MakeAttemptDir, StartAttempt
      <4> QED BY <1>2, <4>1 DEF HeldInv, d
    <3> QED BY <3>1, <3>2
  <2>2. e.log = d.log /\ e.events = d.events /\ e.digest = d.digest /\ e.files = d.files
    BY <1>1, <1>3, <1>11 DEF OpenClaim, WriteClaim, MakeAttemptDir, StartAttempt, Disk, d
  <2>3. Untouched(e)
    BY <2>1, <2>2 DEF Untouched
  <2>4. CASE StartAttempt(r)
    <3>1. pc'[r] = "first" /\ log'[r] = Running(r)
      BY <1>3, <2>4 DEF StartAttempt
    <3>2. Running(r).artifacts = {} /\ NoLog.artifacts = {} /\ Fresh(NoLog)
      BY DEF Running, NoLog, Fresh, Success
    <3>3. Logged(e, log'[r], seq'[r]) /\ Fresh(e.log)
      BY <2>3, <3>1, <3>2 DEF Untouched, Logged, Rising
    <3> QED BY <1>5, <1>6, <2>3, <3>1, <3>3, PcSets DEF HeldInv
  <2>5. CASE ~StartAttempt(r)
    <3>1. pc'[r] \in {"claim", "mkdir", "clock"}
      BY <1>3, <1>11, <2>5 DEF OpenClaim, WriteClaim, MakeAttemptDir
    <3> QED BY <1>5, <1>6, <2>3, <3>1, PcSets DEF HeldInv
  <2> QED BY <2>4, <2>5
\* The setup.
<1>12. pc[r] \in Setup \cup Guarded => Fresh(log[r])
  BY <1>2, PcSets DEF LogInv, Fresh, Success
<1>13. pc[r] \in Setup => log[r].artifacts = {}
  BY <1>2 DEF LogInv
<1>14. pc[r] = "first" => d.events = <<>> /\ d.log = NoLog
  BY <1>2 DEF HeldInv, Untouched, d
<1>15. pc[r] = "created" => d.events = <<>>
  BY <1>2 DEF HeldInv, d
<1>16. CASE WriteFirstLog(r)
  <2>1. /\ pc[r] = "first" /\ pc'[r] = "created" /\ e = [d EXCEPT !.log = log[r]]
        /\ log'[r] = log[r] /\ seq'[r] = seq[r]
    BY <1>3, <1>16 DEF WriteFirstLog, memory, d
  <2>2. e.log = log[r] /\ e.events = <<>> /\ log[r].artifacts = {} /\ Fresh(log[r])
    BY <1>1, <1>12, <1>13, <1>14, <2>1, PcSets DEF Disk
  <2>3. Logged(e, log[r], seq[r])
    BY <2>2 DEF Logged, Rising
  <2> QED BY <1>5, <1>6, <2>1, <2>2, <2>3, PcSets DEF HeldInv
<1>17. CASE AppendCreated(r)
  <2>1. /\ pc[r] = "created" /\ pc'[r] = "setup" /\ e = Appended(d, seq[r])
        /\ log'[r] = log[r] /\ seq'[r] = seq[r]
    BY <1>3, <1>17 DEF AppendCreated, memory, d
  <2>2. e \in AppendAttempts(d, seq[r])
    BY <2>1, AttemptsSucceed
  <2>3. e.log = d.log /\ Logged(e, log[r], seq[r])
    <3>1. Logged(d, log[r], seq[r]) /\ d.events = <<>>
      BY <1>6, <1>9, <1>15, <2>1
    <3> QED BY <1>1, <2>2, <3>1, AppendFacts, LoggedAppend
  <2> QED BY <1>6, <1>8, <1>10, <2>1, <2>3, PcSets
<1>18. CASE FinishSetup(r) \/ Save(r)
  <2>1. /\ pc[r] \in {"setup", "save"} /\ pc'[r] \in {"work", "append"} /\ e = Replaced(d, log[r])
        /\ log'[r] = log[r] /\ seq'[r] = seq[r]
    BY <1>3, <1>18 DEF FinishSetup, Save, memory, d
  <2>2. e \in ReplaceAttempts(d, log[r])
    BY <2>1, AttemptsSucceed
  <2>3. Logged(d, log[r], seq[r]) /\ Fresh(d.log) /\ Fresh(log[r])
    BY <1>6, <1>9, <1>10, <1>12, <2>1, PcSets
  <2>4. Logged(e, log[r], seq[r]) /\ e.log \in {d.log, log[r]}
    BY <1>1, <2>2, <2>3, ReplaceFacts
  <2> QED BY <1>6, <1>8, <2>1, <2>3, <2>4, PcSets
<1>19. CASE SetupFails(r)
  <2>1. /\ pc[r] \in Setup /\ pc'[r] = "finalize" /\ seq'[r] = seq[r]
        /\ log'[r] = [Failed(log[r], "raised") EXCEPT !.guard = "not_started"]
    BY <1>3, <1>19 DEF SetupFails
  <2>2. log'[r].artifacts = log[r].artifacts
    <3>1. Failed(log[r], "raised") \in Logs
            /\ Failed(log[r], "raised").artifacts = log[r].artifacts
      BY <1>1, FailedFacts, LogTypes DEF Categories
    <3> QED BY <2>1, <3>1 DEF Logs
  <2>3. Logged(e, log[r], seq[r]) /\ Fresh(e.log)
    <3>1. Logged(d, log[r], seq[r]) /\ Fresh(d.log) /\ Fresh(log[r])
      BY <1>6, <1>9, <1>10, <1>12, <2>1, PcSets
    <3>2. CASE pc[r] = "first"
      <4>1. e \in {d, [d EXCEPT !.log = Garbled], [d EXCEPT !.log = log[r]]}
        BY <1>3, <1>19, <3>2 DEF SetupFails, d
      <4>2. Garbled.artifacts = {} /\ Fresh(Garbled)
        BY DEF Garbled, NoLog, Fresh, Success
      <4>3. e.files = d.files /\ e.events = <<>> /\ e.log \in {d.log, Garbled, log[r]}
        BY <1>1, <1>14, <3>2, <4>1 DEF Disk
      <4> QED BY <1>13, <2>1, <3>1, <4>2, <4>3 DEF Logged, Rising
    <3>3. CASE pc[r] = "created"
      <4>1. e \in AppendAttempts(d, seq[r])
        BY <1>3, <1>19, <3>3 DEF SetupFails, d
      <4> QED BY <1>1, <1>15, <3>1, <3>3, <4>1, AppendFacts, LoggedAppend
    <3>4. CASE pc[r] = "setup"
      <4>1. e \in ReplaceAttempts(d, log[r])
        BY <1>3, <1>19, <3>4 DEF SetupFails, d
      <4> QED BY <1>1, <3>1, <4>1, ReplaceFacts
    <3> QED BY <2>1, <3>2, <3>3, <3>4, PcSets
  <2>4. Logged(e, log'[r], seq'[r])
    BY <2>1, <2>2, <2>3, LoggedSame
  <2> QED BY <1>6, <1>8, <2>1, <2>3, <2>4, PcSets
\* Steps in memory only.
<1>20. CASE \/ Expire(r) \/ Stage(r) \/ Connect(r) \/ Reveal(r) \/ Ask(r) \/ Freeze(r)
            \/ Complete(r) \/ Scrub(r) \/ CloseSandbox(r) \/ Tally(r)
            \/ \E answer \in Answers : Answer(r, answer)
  <2>1. UNCHANGED <<disk, seq>>
    BY <1>20 DEF Expire, Stage, Connect, Reveal, Ask, Freeze, Complete, Scrub, CloseSandbox, Tally,
       Answer, memory
  <2>2. /\ pc[r] \in Guarded \cup Finalizing \cup {"inventory"}
        /\ pc'[r] \in Guarded \cup Finalizing \cup {"finalize", "inventory"}
    BY <1>1, <1>3, <1>20, PcSets DEF Expire, Stage, Connect, Reveal, Ask, Freeze, Complete, Scrub,
       CloseSandbox, Tally, Answer, At
  <2>3. log'[r].artifacts = log[r].artifacts
    <3>1. CASE Expire(r) \/ Stage(r) \/ Connect(r) \/ Reveal(r)
      BY <3>1 DEF Expire, Stage, Connect, Reveal, memory
    <3>2. CASE Ask(r) \/ Freeze(r) \/ Complete(r) \/ \E answer \in Answers : Answer(r, answer)
      BY <1>1, <1>3, <3>2 DEF Ask, Freeze, Complete, Answer, Logs
    <3>3. CASE Scrub(r)
      <4>1. /\ Marked(log[r], "artifact") \in Logs
            /\ Marked(log[r], "artifact").artifacts = log[r].artifacts
        BY <1>1, MarkedFacts, LogTypes DEF Categories
      <4>2. log'[r] \in {[log[r] EXCEPT !.guard = "passed"],
                         [Marked(log[r], "artifact") EXCEPT !.guard = "not_passed"]}
        BY <1>3, <3>3 DEF Scrub
      <4> QED BY <1>1, <4>1, <4>2 DEF Logs
    <3>4. CASE CloseSandbox(r)
      <4>1. log'[r] \in {log[r], Marked(log[r], "sandbox_close")}
        BY <1>3, <3>4 DEF CloseSandbox
      <4> QED BY <1>1, <4>1, MarkedFacts DEF Categories
    <3>5. CASE Tally(r)
      <4>1. PICK usage \in {UsageSummary(log[r].calls), "unknown"} :
              log'[r] \in {[log[r] EXCEPT !.usage = usage],
                           Marked([log[r] EXCEPT !.usage = usage], "journal")}
        BY <1>3, <3>5 DEF Tally
      <4>2. [log[r] EXCEPT !.usage = usage] \in Logs
        BY <1>1, LogTypes DEF UsageSummary
      <4>3. [log[r] EXCEPT !.usage = usage].artifacts = log[r].artifacts
        BY <1>1 DEF Logs
      <4> DEFINE l == [log[r] EXCEPT !.usage = usage]
      <4>4. l \in Logs /\ l.artifacts = log[r].artifacts
        BY <4>2, <4>3
      <4>5. log'[r] = l \/ log'[r] = Marked(l, "journal")
        BY <4>1
      <4> HIDE DEF l
      <4>6. Marked(l, "journal").artifacts = l.artifacts
        BY <4>4, MarkedFacts DEF Categories
      <4> QED BY <4>4, <4>5, <4>6
    <3> QED BY <1>20, <3>1, <3>2, <3>3, <3>4, <3>5
  <2>4. e = d /\ seq'[r] = seq[r]
    BY <1>3, <2>1
  <2>5. Logged(d, log[r], seq[r]) /\ Fresh(d.log)
    BY <1>6, <1>9, <1>10, <2>2, PcSets
  <2>6. Logged(e, log'[r], seq'[r])
    BY <2>3, <2>4, <2>5, LoggedSame
  <2> QED BY <1>6, <1>8, <2>2, <2>4, <2>5, <2>6, PcSets
\* Captures, and failures of the guarded region.
<1>21. CASE Capture(r)
  <2>1. /\ pc[r] = "work" /\ pc'[r] = "save" /\ seq'[r] = seq[r]
        /\ e = [d EXCEPT !.files = @ \cup {step[r]}]
        /\ log'[r] = [log[r] EXCEPT !.artifacts = @ \cup {step[r]}]
    BY <1>3, <1>21 DEF Capture, At, d
  <2>2. /\ e.files = d.files \cup {step[r]} /\ e.events = d.events /\ e.log = d.log
        /\ log'[r].artifacts = log[r].artifacts \cup {step[r]}
    BY <1>1, <2>1 DEF Disk, Logs
  <2>3. Logged(d, log[r], seq[r]) /\ Fresh(d.log)
    BY <1>6, <1>9, <1>10, <2>1, PcSets
  <2>4. Logged(e, log'[r], seq'[r])
    BY <2>1, <2>2, <2>3 DEF Logged
  <2> QED BY <1>6, <1>8, <2>1, <2>2, <2>3, <2>4, PcSets
<1>22. CASE AppendEvent(r) \/ AppendFinal(r)
  <2>1. /\ pc[r] \in {"append", "finalize"} /\ pc'[r] \in Guarded \cup {"inventory"}
        /\ seq'[r] = seq[r] + 1 /\ log'[r] = log[r] /\ e = Appended(d, seq[r] + 1)
    BY <1>1, <1>3, <1>22, PcSets DEF AppendEvent, AfterEvent, AppendFinal, d
  <2>2. Logged(d, log[r], seq[r]) /\ Fresh(d.log)
    BY <1>6, <1>9, <1>10, <2>1, PcSets
  <2>3. e \in AppendAttempts(d, seq[r] + 1) /\ seq[r] + 1 \in Nat
    BY <1>1, <2>1, AttemptsSucceed
  <2>4. e.log = d.log /\ Logged(e, log[r], seq[r] + 1)
    BY <1>1, <2>2, <2>3, AppendFacts, LoggedAppend
  <2> QED BY <1>6, <1>8, <2>1, <2>2, <2>4, PcSets
<1>23. ASSUME NEW category \in {"raised", "budget"}, WorkFails(r, category)
       PROVE  HeldInv(r)'
  <2>1. /\ pc[r] \in Guarded /\ pc'[r] = "scrub" /\ e \in Debris(r)
        /\ log'[r] = Failed(log[r], category)
        /\ seq'[r] = IF pc[r] = "append" THEN seq[r] + 1 ELSE seq[r]
    BY <1>1, <1>3, <1>23 DEF WorkFails
  <2>2. log'[r].artifacts = log[r].artifacts
    BY <1>1, <2>1, FailedFacts DEF Categories
  <2>3. Logged(d, log[r], seq[r]) /\ Fresh(d.log) /\ Fresh(log[r])
    BY <1>6, <1>9, <1>10, <1>12, <2>1, PcSets
  <2>4. Logged(e, log[r], seq'[r]) /\ Fresh(e.log)
    <3>1. CASE pc[r] = "save"
      <4>1. e \in ReplaceAttempts(d, log[r]) /\ seq'[r] = seq[r]
        BY <2>1, <3>1 DEF Debris, At, d
      <4> QED BY <1>1, <2>3, <4>1, ReplaceFacts
    <3>2. CASE pc[r] = "append"
      <4>1. e \in AppendAttempts(d, seq[r] + 1) /\ seq'[r] = seq[r] + 1 /\ seq[r] + 1 \in Nat
        BY <1>1, <2>1, <3>2 DEF Debris, At, d
      <4> QED BY <1>1, <2>3, <4>1, AppendFacts, LoggedAppend
    <3>3. CASE pc[r] \notin {"save", "append"}
      <4>1. e \in {d, [d EXCEPT !.files = @ \cup {step[r]}]} /\ seq'[r] = seq[r]
        BY <2>1, <3>3 DEF Debris, d
      <4>2. d.files \subseteq e.files /\ e.events = d.events /\ e.log = d.log
        BY <1>1, <4>1 DEF Disk
      <4> QED BY <2>3, <4>1, <4>2 DEF Logged
    <3> QED BY <3>1, <3>2, <3>3
  <2>5. Logged(e, log'[r], seq'[r])
    BY <2>2, <2>4, LoggedSame
  <2> QED BY <1>6, <1>8, <2>1, <2>4, <2>5, PcSets
\* The sealing.
<1>24. /\ Inventoried(d).files = d.files /\ Inventoried(d).events = d.events
       /\ Inventoried(d).log = d.log /\ Listed(Inventoried(d))
  BY <1>1 DEF Inventoried, Listed, Disk
<1>25. CASE Inventory(r)
  <2>1. /\ pc[r] = "inventory" /\ pc'[r] = "seal" /\ seq'[r] = seq[r] /\ log'[r] = log[r]
        /\ e = Inventoried(d)
    BY <1>3, <1>25 DEF Inventory, memory, d
  <2>2. Logged(d, log[r], seq[r]) /\ Fresh(d.log)
    BY <1>6, <1>9, <1>10, <2>1, PcSets
  <2>3. Logged(e, log'[r], seq'[r]) /\ Fresh(e.log)
    BY <1>24, <2>1, <2>2, LoggedSame
  <2>4. Listed(e)
    BY <1>24, <2>1
  <2> QED BY <1>5, <1>6, <2>1, <2>3, <2>4, PcSets DEF HeldInv
<1>26. Sealed(r).artifacts = log[r].artifacts /\ Sealed(r).journal = "sealed" /\ Sealed(r) \in Logs
  <2>1. Sealed(r) \in Logs
    BY <1>1, LogTypes DEF Sealed
  <2> QED BY <1>1, <2>1 DEF Sealed, Logs
<1>27. CASE WriteSealedLog(r)
  <2>1. /\ pc[r] = "seal" /\ pc'[r] = "digest" /\ seq'[r] = seq[r] /\ log'[r] = Sealed(r)
        /\ e = Replaced(d, Sealed(r))
    BY <1>3, <1>27 DEF WriteSealedLog, d
  <2>2. e.log = Sealed(r) /\ e.files = d.files /\ e.events = d.events
    BY <1>1, <2>1 DEF Replaced, Disk
  <2>3. Logged(d, log[r], seq[r])
    BY <1>6, <1>9, <2>1
  <2>4. Logged(e, log'[r], seq'[r])
    BY <1>26, <2>1, <2>2, <2>3 DEF Logged
  <2> QED BY <1>5, <1>6, <1>26, <2>1, <2>2, <2>4, PcSets DEF HeldInv
<1>28. CASE WriteDigest(r)
  <2>1. /\ pc[r] = "digest" /\ pc'[r] = "sync" /\ log'[r] = log[r] /\ seq'[r] = seq[r]
        /\ e = [d EXCEPT !.digest = d.log]
    BY <1>3, <1>28 DEF WriteDigest, memory, d
  <2>2. d.log = log[r] /\ d.log.journal = "sealed"
    BY <1>2, <2>1 DEF HeldInv, d
  <2>3. e.digest = e.log /\ e.log = d.log /\ e.files = d.files /\ e.events = d.events
    BY <1>1, <2>1 DEF Disk
  <2>4. SealedEvidence(slot[r])'
    BY <1>4, <1>6, <2>1, <2>2, <2>3 DEF SealedEvidence, e
  <2>5. Logged(e, log'[r], seq'[r])
    <3>1. Logged(d, log[r], seq[r])
      BY <1>6, <1>9, <2>1
    <3> QED BY <2>1, <2>3, <3>1 DEF Logged
  <2>6. slot'[r] = slot[r] /\ Mine(r)' = e
    BY <1>4, <1>5, <1>6, <2>1
  <2> QED BY <1>6, <2>1, <2>2, <2>3, <2>4, <2>5, <2>6, PcSets DEF HeldInv, SealedEvidence
<1>32. CASE Return(r)
  <2>1. /\ pc[r] = "sync" /\ pc'[r] \in {"returned", "run_error"}
        /\ UNCHANGED <<disk, memory>>
    BY <1>1, <1>32 DEF Return, Goto
  <2>2. SealedEvidence(slot[r])
    BY <1>2, <2>1 DEF HeldInv
  <2>3. SealedEvidence(slot[r])'
    BY <2>1, <2>2 DEF SealedEvidence, memory
  <2> QED BY <1>4, <1>6, <2>1, <2>3, PcSets DEF HeldInv, SealedEvidence
<1>29. CASE SealFails(r)
  <2>1. /\ pc[r] \in Sealing /\ pc'[r] \in FailClosedStates /\ e \in SealDebris(r)
        /\ log'[r] = log[r]
        /\ seq'[r] = IF pc[r] = "finalize" THEN seq[r] + 1 ELSE seq[r]
    BY <1>1, <1>3, <1>29, PcSets DEF SealFails
  <2>2. Logged(d, log[r], seq[r])
    BY <1>6, <1>9, <2>1, PcSets
  <2>3. Logged(e, log[r], seq'[r])
    <3>1. CASE pc[r] = "finalize"
      <4>1. e \in AppendAttempts(d, seq[r] + 1) /\ seq'[r] = seq[r] + 1
        BY <2>1, <3>1 DEF SealDebris, d
      <4> QED BY <1>1, <2>2, <4>1, LoggedAppend
    <3>2. CASE pc[r] = "inventory"
      <4>1. e \in {d, Inventoried(d)} /\ seq'[r] = seq[r]
        BY <2>1, <3>2 DEF SealDebris, d
      <4> QED BY <1>24, <2>2, <4>1, LoggedSame
    <3>3. CASE pc[r] = "seal"
      <4>1. e \in ReplaceAttempts(d, Sealed(r)) /\ seq'[r] = seq[r]
        BY <2>1, <3>3 DEF SealDebris, d
      <4>2. Logged(d, Sealed(r), seq[r])
        BY <1>26, <2>2, LoggedSame
      <4>3. Logged(e, Sealed(r), seq[r])
        BY <1>1, <1>26, <4>1, <4>2, ReplaceFacts
      <4> QED BY <1>26, <4>1, <4>3, LoggedSame
    <3>4. CASE pc[r] = "digest"
      <4>1. e \in {d, [d EXCEPT !.digest = Garbled]} /\ seq'[r] = seq[r]
        BY <2>1, <3>4 DEF SealDebris, d
      <4>2. e.files = d.files /\ e.events = d.events /\ e.log = d.log
        BY <1>1, <4>1 DEF Disk
      <4> QED BY <2>2, <4>1, <4>2, LoggedSame
    <3>5. CASE pc[r] = "sync"
      <4>1. e = d /\ seq'[r] = seq[r]
        BY <2>1, <3>5 DEF SealDebris, d
      <4> QED BY <2>2, <4>1
    <3> QED BY <2>1, <3>1, <3>2, <3>3, <3>4, <3>5, PcSets
  <2> QED BY <1>6, <1>8, <2>1, <2>3, PcSets
<1>30. CASE FailClosed(r) \/ FailDigest(r)
  <2>1. pc'[r] \in {"fail_digest", "run_error"}
    BY <1>3, <1>30 DEF FailClosed, FailDigest
  <2> QED BY <1>6, <2>1, PcSets DEF HeldInv
<1>31. CASE \/ \E s \in Slots : Invoke(r, s)
            \/ CheckCollision(r) \/ ClaimRefused(r) \/ CallEnds(r) \/ Killed(r)
            \/ \E how \in {"error", "interrupt"} : Escapes(r, how)
  <2>1. pc'[r] \notin Holding
    BY <1>3, <1>6, <1>31 DEF Invoke, CheckCollision, ClaimRefused, CallEnds, Killed, Escapes, Forget
  <2> QED BY <1>7, <2>1
<1> QED BY <1>11, <1>16, <1>17, <1>18, <1>19, <1>20, <1>21, <1>22, <1>23, <1>25, <1>27, <1>28,
        <1>29, <1>30, <1>31, <1>32 DEF Step, Proceed

\* What may become of the files d that call r holds: a log that says neither sealed nor
\* completed, the seal itself, or no difference that a reader of the evidence can see.
Becomes(r, d, e) ==
    /\ d.log.artifacts \subseteq e.log.artifacts
    /\ \/ Unsealed(e.log)
       \/ /\ e.log = d.log \/ (pc[r] = "seal" /\ e.log = Sealed(r))
          /\ e.files = d.files /\ e.events = d.events /\ e.inventory = d.inventory

LEMMA DiskMove ==
    ASSUME TypeOK, TypeOK', ClaimInv, NEW r \in Runners, RunnerInv(r), Step(r)
    PROVE  Becomes(r, Mine(r), disk'[slot[r]])
<1> DEFINE d == Mine(r)
           e == disk'[slot[r]]
<1>1. /\ disk \in [Slots -> Disk] /\ pc \in [Runners -> Pcs] /\ log \in [Runners -> Logs]
      /\ seq \in [Runners -> Nat] /\ d \in Disk /\ log[r] \in Logs /\ seq[r] \in Nat
      /\ seq[r] + 1 \in Nat /\ slot[r] \in Slots /\ d.log \in Logs
  BY DEF TypeOK, Mine, Disk
<1>2. LogInv(r) /\ HeldInv(r)
  BY DEF RunnerInv
<1>3. /\ \A f : SetDisk(r, f) => e = f
      /\ UNCHANGED disk => e = d
  BY <1>1 DEF SetDisk, Mine
<1> SUFFICES Becomes(r, d, e)
  OBVIOUS
<1> HIDE DEF d, e
<1>4. Logging = {"first", "created", "setup", "work", "save", "append", "answer", "raise", "scrub",
                 "close", "tally", "finalize", "inventory", "seal", "digest", "sync", "failed_closed",
                 "failed_closed_deadline"}
  BY PcSets DEF Logging
<1>5. pc[r] \in Logging => Logged(d, log[r], seq[r])
  BY <1>2 DEF HeldInv, d
<1>6. pc[r] \in Logging \ ({"digest", "sync"} \cup FailClosedStates) => Fresh(d.log)
  BY <1>2 DEF HeldInv, d
<1>7. pc[r] \in Setup \cup Guarded => Fresh(log[r])
  BY <1>2, PcSets DEF LogInv, Fresh, Success
<1>8. pc[r] = "first" => d.log = NoLog /\ d.log.artifacts = {}
  BY <1>2 DEF HeldInv, Untouched, NoLog, d
<1>9. pc[r] \in Logging => d.log.artifacts \subseteq log[r].artifacts
  BY <1>5 DEF Logged
\* The three ways.
<1>10. ASSUME e.log = d.log, Fresh(d.log)
       PROVE  Becomes(r, d, e)
  BY <1>10 DEF Becomes, Fresh, Unsealed
<1>11. ASSUME e.log = d.log, e.files = d.files, e.events = d.events, e.inventory = d.inventory
       PROVE  Becomes(r, d, e)
  BY <1>11 DEF Becomes
<1>12. ASSUME pc[r] \in Setup \cup Guarded, e.log \in {d.log, log[r]}
       PROVE  Becomes(r, d, e)
  <2>1. Fresh(d.log) /\ Fresh(log[r]) /\ d.log.artifacts \subseteq log[r].artifacts
    BY <1>4, <1>6, <1>7, <1>9, <1>12, PcSets
  <2> QED BY <1>12, <2>1 DEF Becomes, Fresh, Unsealed
<1>13. ASSUME NEW n \in Nat, e \in AppendAttempts(d, n)
       PROVE  e.log = d.log
  BY <1>1, <1>13, AppendFacts
<1>14. ASSUME NEW l \in Logs, e \in ReplaceAttempts(d, l)
       PROVE  /\ e.log \in {d.log, l}
              /\ e.files = d.files /\ e.events = d.events /\ e.inventory = d.inventory
  BY <1>1, <1>14, ReplaceFacts
<1>15. Sealed(r) \in Logs /\ Sealed(r).artifacts = log[r].artifacts
  <2>1. Sealed(r) \in Logs
    BY <1>1, LogTypes DEF Sealed
  <2> QED BY <1>1, <2>1 DEF Sealed, Logs
<1>16. ASSUME pc[r] = "seal", e \in ReplaceAttempts(d, Sealed(r))
       PROVE  Becomes(r, d, e)
  <2>1. d.log.artifacts \subseteq Sealed(r).artifacts
    BY <1>4, <1>9, <1>15, <1>16
  <2> QED BY <1>14, <1>15, <1>16, <2>1 DEF Becomes
\* The steps.
<1>17. CASE UNCHANGED disk
  BY <1>3, <1>11, <1>17
<1>18. CASE OpenClaim(r) \/ WriteClaim(r) \/ MakeAttemptDir(r) \/ WriteDigest(r) \/ FailDigest(r)
  BY ZenonT(60), <1>1, <1>3, <1>11, <1>18
     DEF OpenClaim, WriteClaim, MakeAttemptDir, WriteDigest, FailDigest, Disk, d
<1>19. CASE WriteFirstLog(r)
  <2>1. pc[r] \in Setup /\ e.log = log[r]
    BY <1>1, <1>3, <1>19, PcSets DEF WriteFirstLog, Disk, d
  <2> QED BY <1>12, <2>1
<1>20. CASE AppendCreated(r) \/ AppendEvent(r) \/ AppendFinal(r)
  <2>1. PICK n \in Nat : e = Appended(d, n)
    BY <1>1, <1>3, <1>20 DEF AppendCreated, AppendEvent, AppendFinal, d
  <2>2. pc[r] \in {"created", "append", "finalize"}
    BY <1>20 DEF AppendCreated, AppendEvent, AppendFinal
  <2>3. e.log = d.log
    BY <1>13, <2>1, AttemptsSucceed
  <2> QED BY <1>4, <1>6, <1>10, <2>2, <2>3, PcSets
<1>21. CASE FinishSetup(r) \/ Save(r)
  <2>1. pc[r] \in Setup \cup Guarded /\ e = Replaced(d, log[r])
    BY <1>3, <1>21, PcSets DEF FinishSetup, Save, d
  <2>2. e \in ReplaceAttempts(d, log[r])
    BY <2>1, AttemptsSucceed
  <2> QED BY <1>1, <1>12, <1>14, <2>1, <2>2
<1>22. CASE SetupFails(r)
  <2>1. CASE pc[r] = "first"
    <3>1. e \in {d, [d EXCEPT !.log = Garbled], [d EXCEPT !.log = log[r]]}
      BY <1>3, <1>22, <2>1 DEF SetupFails, d
    <3>2. e.log = Garbled \/ e.log \in {d.log, log[r]}
      BY <1>1, <3>1 DEF Disk
    <3>3. Unsealed(Garbled) /\ Garbled.artifacts = {}
      BY DEF Garbled, NoLog, Unsealed, Success
    <3>4. CASE e.log = Garbled
      BY <1>8, <2>1, <3>3, <3>4 DEF Becomes
    <3> QED BY <1>12, <2>1, <3>2, <3>4, PcSets
  <2>2. CASE pc[r] = "created"
    <3>1. e \in AppendAttempts(d, seq[r])
      BY <1>3, <1>22, <2>2 DEF SetupFails, d
    <3> QED BY <1>1, <1>4, <1>6, <1>10, <1>13, <2>2, <3>1, PcSets
  <2>3. CASE pc[r] = "setup"
    <3>1. e \in ReplaceAttempts(d, log[r])
      BY <1>3, <1>22, <2>3 DEF SetupFails, d
    <3> QED BY <1>1, <1>12, <1>14, <2>3, <3>1, PcSets
  <2> QED BY <1>22, <2>1, <2>2, <2>3, PcSets DEF SetupFails
<1>23. CASE Capture(r)
  <2>1. pc[r] = "work" /\ e.log = d.log
    BY <1>1, <1>3, <1>23 DEF Capture, At, Disk, d
  <2> QED BY <1>4, <1>6, <1>10, <2>1, PcSets
<1>24. ASSUME NEW category \in {"raised", "budget"}, WorkFails(r, category)
       PROVE  Becomes(r, d, e)
  <2>1. pc[r] \in Guarded /\ e \in Debris(r)
    BY <1>3, <1>24 DEF WorkFails
  <2>2. e.log \in {d.log, log[r]}
    <3>1. CASE pc[r] = "save"
      BY <1>1, <1>14, <2>1, <3>1 DEF Debris, At, d
    <3>2. CASE pc[r] = "append"
      <4>1. e \in AppendAttempts(d, seq[r] + 1)
        BY <2>1, <3>2 DEF Debris, At, d
      <4> QED BY <1>1, <1>13, <4>1
    <3>3. CASE pc[r] \notin {"save", "append"}
      BY <1>1, <2>1, <3>3 DEF Debris, Disk, d
    <3> QED BY <3>1, <3>2, <3>3
  <2> QED BY <1>12, <2>1, <2>2
<1>25. CASE Inventory(r)
  <2>1. pc[r] = "inventory" /\ e.log = d.log
    BY <1>1, <1>3, <1>25 DEF Inventory, Inventoried, Disk, d
  <2> QED BY <1>4, <1>6, <1>10, <2>1, PcSets
<1>26. CASE WriteSealedLog(r)
  <2>1. pc[r] = "seal" /\ e = Replaced(d, Sealed(r))
    BY <1>3, <1>26 DEF WriteSealedLog, d
  <2> QED BY <1>16, <2>1, AttemptsSucceed
<1>27. CASE SealFails(r)
  <2>1. pc[r] \in Sealing /\ e \in SealDebris(r)
    BY <1>3, <1>27 DEF SealFails
  <2>2. CASE pc[r] = "finalize"
    <3>1. e \in AppendAttempts(d, seq[r] + 1)
      BY <2>1, <2>2 DEF SealDebris, d
    <3> QED BY <1>1, <1>4, <1>6, <1>10, <1>13, <2>2, <3>1, PcSets
  <2>3. CASE pc[r] = "inventory"
    <3>1. e.log = d.log
      BY <1>1, <2>1, <2>3 DEF SealDebris, Inventoried, Disk, d
    <3> QED BY <1>4, <1>6, <1>10, <2>3, <3>1, PcSets
  <2>4. CASE pc[r] = "seal"
    BY <1>16, <2>1, <2>4 DEF SealDebris, d
  <2>5. CASE pc[r] = "digest"
    <3>1. e \in {d, [d EXCEPT !.digest = Garbled]}
      BY <2>1, <2>5 DEF SealDebris, d
    <3> QED BY <1>1, <1>11, <3>1 DEF Disk
  <2>6. CASE pc[r] = "sync"
    BY <1>11, <2>1, <2>6 DEF SealDebris, d
  <2> QED BY <2>1, <2>2, <2>3, <2>4, <2>5, <2>6, PcSets
<1>28. CASE FailClosed(r)
  <2>1. CASE \E tmp \in {TRUE, d.tmp} : SetDisk(r, [d EXCEPT !.tmp = tmp])
    BY <1>1, <1>3, <1>11, <2>1 DEF Disk
  <2>2. CASE SetDisk(r, Replaced(d, ClosedLog(r)))
    <3> DEFINE f == Failed(log[r], IF pc[r] = "failed_closed" THEN "journal" ELSE "budget")
    <3>1. f \in Logs /\ f.artifacts = log[r].artifacts /\ f.status \in Failures
      BY <1>1, FailedFacts, LogTypes DEF Categories
    <3>2. ClosedLog(r) = [f EXCEPT !.journal = pc[r], !.final = seq[r]] /\ pc[r] \in FailClosedStates
      BY <1>28 DEF ClosedLog, FailClosed
    <3> HIDE DEF f
    <3>3. ClosedLog(r).artifacts = log[r].artifacts /\ Unsealed(ClosedLog(r))
      BY <3>1, <3>2, PcSets DEF Logs, Unsealed, Failures, Success
    <3>4. e.log = ClosedLog(r)
      BY <1>1, <1>3, <2>2 DEF Replaced, Disk
    <3>5. d.log.artifacts \subseteq log[r].artifacts
      BY <1>4, <1>9, <3>2, PcSets
    <3> QED BY <3>3, <3>4, <3>5 DEF Becomes
  <2> QED BY <1>28, <2>1, <2>2 DEF FailClosed, d
<1>29. CASE Killed(r)
  <2>1. e \in Remains(r)
    BY <1>3, <1>29 DEF Killed
  <2>2. CASE pc[r] = "first"
    <3>1. e.log \in {d.log, Garbled}
      BY <1>1, <2>1, <2>2, PcSets DEF Remains, Disk, d
    <3>2. Unsealed(Garbled) /\ Garbled.artifacts = {} /\ Fresh(NoLog)
      BY DEF Garbled, NoLog, Unsealed, Fresh, Success
    <3> QED BY <1>8, <1>10, <2>2, <3>1, <3>2 DEF Becomes
  <2>3. CASE pc[r] # "first"
    <3>1. e \in {d, [d EXCEPT !.torn = TRUE], [d EXCEPT !.tmp = TRUE], [d EXCEPT !.digest = Garbled]}
      BY <2>1, <2>3 DEF Remains, d
    <3> QED BY <1>1, <1>11, <3>1 DEF Disk
  <2> QED BY <2>2, <2>3
<1> QED BY <1>17, <1>18, <1>19, <1>20, <1>21, <1>22, <1>23, <1>24, <1>25, <1>26, <1>27, <1>28, <1>29
        DEF Step, Proceed, Invoke, CheckCollision, ClaimRefused, Escapes, StartAttempt, Expire,
            Stage, Connect, Ask, Answer, Freeze, Reveal, Complete, Scrub, CloseSandbox, Tally,
            Return, CallEnds, d, e

\* A sealed log that is the whole story stays it, and so is one that is being sealed.
LEMMA WholeKept ==
    ASSUME TypeOK, TypeOK', ClaimInv, WholeInv, NEW r \in Runners, RunnerInv(r), Step(r)
    PROVE  WholeInv'
<1> DEFINE d == Mine(r)
           e == disk'[slot[r]]
<1>1. \A s \in Slots \ {slot[r]} : disk'[s] = disk[s]
  BY Shape
<1>2. Becomes(r, d, e)
  BY DiskMove
<1>3. /\ d.log.status = Success => d.log.journal = "sealed"
      /\ d.log.journal = "sealed" => Whole(d)
      /\ log[r] \in Logs
  BY DEF WholeInv, Mine, TypeOK
<1>4. ASSUME e.log.status = Success => e.log.journal = "sealed",
             e.log.journal = "sealed" => Whole(e)
      PROVE  WholeInv'
  BY <1>1, <1>4 DEF WholeInv
<1> HIDE DEF d, e
<1>5. CASE Unsealed(e.log)
  BY <1>4, <1>5 DEF Unsealed
<1>6. CASE /\ e.log = d.log
           /\ e.files = d.files /\ e.events = d.events /\ e.inventory = d.inventory
  <2>1. Whole(d) => Whole(e)
    BY <1>6 DEF Whole, Listed
  <2> QED BY <1>3, <1>4, <1>6, <2>1
<1>7. CASE /\ pc[r] = "seal" /\ e.log = Sealed(r)
           /\ e.files = d.files /\ e.events = d.events /\ e.inventory = d.inventory
  <2>1. Logged(d, log[r], seq[r]) /\ Listed(d)
    BY <1>7, PcSets DEF RunnerInv, HeldInv, Logging, d
  <2>2. /\ Settled(log[r]) /\ (log[r].status = Success => log[r].guard = "passed")
        /\ log[r].usage \in {UsageSummary(log[r].calls), "unknown"}
    BY <1>7, PcSets DEF RunnerInv, LogInv
  <2>3. /\ Sealed(r).status = log[r].status /\ Sealed(r).failure = log[r].failure
        /\ Sealed(r).artifacts = log[r].artifacts /\ Sealed(r).guard = log[r].guard
        /\ Sealed(r).usage = log[r].usage /\ Sealed(r).calls = log[r].calls
        /\ Sealed(r).journal = "sealed"
    BY <1>3 DEF Sealed, Logs
  <2>4. Settled(e.log)
    BY <1>7, <2>2, <2>3 DEF Settled
  <2>5. Listed(e)
    BY <1>7, <2>1 DEF Listed
  <2>6. e.log.artifacts \subseteq e.files /\ Rising(e.events)
    BY <1>7, <2>1, <2>3 DEF Logged
  <2>7. Whole(e)
    BY <1>7, <2>2, <2>3, <2>4, <2>5, <2>6 DEF Whole
  <2> QED BY <1>4, <1>7, <2>3, <2>7
<1> QED BY <1>2, <1>5, <1>6, <1>7 DEF Becomes

-----------------------------------------------------------------------------
(* The theorems. *)

LEMMA InvInit == Init => Inv
<1> SUFFICES ASSUME Init PROVE Inv
  OBVIOUS
<1>1. ClaimInv
  BY PcSets DEF Init, ClaimInv, Holding
<1>2. WholeInv
  <2>1. \A s \in Slots : disk[s].log = NoLog
    BY DEF Init, NoFiles
  <2>2. NoLog.status # Success /\ NoLog.journal # "sealed"
    BY DEF NoLog, Success
  <2> QED BY <2>1, <2>2 DEF WholeInv
<1>3. ASSUME NEW r \in Runners
      PROVE  RunnerInv(r)
  <2>1. pc[r] = "idle" /\ step[r] = 0 /\ box[r] = "none"
    BY DEF Init
  <2>2. StepInv(r) /\ LogInv(r)
    BY <2>1, PcSets DEF StepInv, LogInv
  <2>3. HeldInv(r)
    BY <2>1, PcSets DEF HeldInv, Logging
  <2> QED BY <2>2, <2>3 DEF RunnerInv
<1> QED BY <1>1, <1>2, <1>3 DEF Inv

LEMMA InvStep == TypeOK /\ Inv /\ [Next]_vars => Inv'
<1> SUFFICES ASSUME TypeOK, Inv, [Next]_vars PROVE Inv'
  OBVIOUS
<1>1. TypeOK'
  BY TypeStep
<1>2. CASE UNCHANGED vars
  BY <1>2 DEF vars, memory, Inv, ClaimInv, WholeInv, RunnerInv, StepInv, LogInv, HeldInv, Mine,
     SealedEvidence
<1>3. CASE Next
  <2>1. PICK r \in Runners : Step(r)
    BY <1>3 DEF Next, Step
  <2>2. ClaimInv'
    BY <1>1, <2>1, ClaimStep DEF Inv
  <2>3. WholeInv'
    BY <1>1, <2>1, WholeKept DEF Inv
  <2>4. RunnerInv(r)'
    BY <1>1, <2>1, StepKept, LogKept, HeldKept DEF Inv, RunnerInv
  <2>5. \A q \in Runners \ {r} : RunnerInv(q)'
    BY <1>1, <2>1, OthersKept DEF Inv
  <2> QED BY <2>2, <2>3, <2>4, <2>5 DEF Inv
<1> QED BY <1>2, <1>3

\* The state of the executor is well typed and the invariant holds at every step, for any
\* number of callers, slots and turns, whoever fails or is killed where.
THEOREM ExecutorCorrect == Spec => [](TypeOK /\ Inv)
<1>1. Init => TypeOK /\ Inv
  BY TypeInit, InvInit
<1>2. TypeOK /\ Inv /\ [Next]_vars => TypeOK' /\ Inv'
  BY TypeStep, InvStep
<1> QED BY <1>1, <1>2, PTL DEF Spec

\* A sealed attempt is the whole story, and nothing that is not sealed says completed.
THEOREM SealedIsCompleteCorrect == Spec => []SealedIsComplete
<1>1. Inv => SealedIsComplete
  <2> SUFFICES ASSUME WholeInv PROVE SealedIsComplete
    BY DEF Inv
  <2>1. \A s \in Slots : SealedEvidence(s) => Whole(disk[s])
    BY DEF WholeInv, SealedEvidence
  <2> QED BY <2>1 DEF SealedIsComplete, WholeInv, Whole, Listed, Settled
<1> QED BY <1>1, ExecutorCorrect, PTL

\* No call that has returned leaves a sandbox running, and one that could not close its
\* sandbox is not recorded as completed.
THEOREM SandboxAccountedCorrect == Spec => []SandboxAccounted
<1>1. Inv => SandboxAccounted
  <2> SUFFICES ASSUME NEW r \in Runners, RunnerInv(r)
               PROVE  /\ pc[r] \in {"returned", "run_error"} => box[r] # "made"
                      /\ box[r] = "leaked" /\ pc[r] \in Sealing => log[r].status # Success
                      /\ pc[r] = "returned" => box[r] = "closed" /\ SealedEvidence(slot[r])
    BY DEF Inv, SandboxAccounted
  <2>1. StepInv(r)
    BY DEF RunnerInv
  <2>2. pc[r] = "returned" => SealedEvidence(slot[r])
    BY DEF RunnerInv, HeldInv
  <2> QED BY <2>1, <2>2 DEF StepInv
<1> QED BY <1>1, ExecutorCorrect, PTL

\* No checkpoint, failure, fallback or kill drops an artifact from a log on disk.
THEOREM ArtifactsKeptCorrect == Spec => ArtifactsKept
<1> DEFINE Kept == \A s \in Slots : disk[s].log.artifacts \subseteq disk'[s].log.artifacts
<1>1. TypeOK /\ Inv /\ [Next]_vars => [Kept]_disk
  <2> SUFFICES ASSUME TypeOK, Inv, Next PROVE Kept
    BY DEF vars
  <2>1. TypeOK'
    BY TypeStep
  <2>2. PICK r \in Runners : Step(r)
    BY DEF Next, Step
  <2>3. Becomes(r, Mine(r), disk'[slot[r]])
    BY <2>1, <2>2, DiskMove DEF Inv
  <2>4. \A s \in Slots \ {slot[r]} : disk'[s] = disk[s]
    BY <2>1, <2>2, Shape
  <2> QED BY <2>3, <2>4 DEF Becomes, Mine
<1> QED BY <1>1, ExecutorCorrect, PTL DEF Spec, ArtifactsKept

-----------------------------------------------------------------------------
(* The refinement of SlotRun. *)

\* What rivals can see of the slot of call r.
SeenInv(r) ==
    /\ pc[r] = "allocate" => slot[r] \notin StrayDirs
    /\ pc[r] = "claim" => Mine(r).claim = "open" /\ ~Mine(r).dir
    /\ pc[r] = "mkdir" => Mine(r).claim = "written" /\ ~Mine(r).dir
    /\ pc[r] \in Holding \ {"claim", "mkdir"} => Mine(r).claim = "written" /\ Mine(r).dir
    /\ pc[r] \in Logging => log[r].bound = (r \notin Foreign)
    /\ pc[r] \in ({"clock"} \cup Logging) \ ({"sync"} \cup FailClosedStates)
         => Mine(r).digest = NoLog
    /\ pc[r] \in FailClosedStates =>
         /\ Mine(r).log.journal \in {"none", "sealed"}
         /\ Mine(r).digest \in {NoLog, Garbled} \/ SealedEvidence(slot[r])
    /\ pc[r] = "fail_digest" => Mine(r).log.journal \in FailClosedStates

\* Nobody gets past an unclaimed directory.
StrayInv == \A s \in StrayDirs : disk[s].claim = "none"

\* The claim and the directory of an attempt stay, and its digest until the end.
LEMMA AttemptKept ==
    ASSUME TypeOK, NEW r \in Runners, Step(r), pc[r] \notin {"allocate", "claim", "mkdir"}
    PROVE  /\ disk'[slot[r]].claim = Mine(r).claim
           /\ disk'[slot[r]].dir = Mine(r).dir
           /\ pc[r] \notin {"digest", "fail_digest"} => disk'[slot[r]].digest = Mine(r).digest
<1> DEFINE d == Mine(r)
           e == disk'[slot[r]]
           Same(f) == /\ f.claim = d.claim /\ f.dir = d.dir
                      /\ pc[r] \notin {"digest", "fail_digest"} => f.digest = d.digest
<1>1. /\ disk \in [Slots -> Disk] /\ slot[r] \in Slots /\ d \in Disk
      /\ \A f : SetDisk(r, f) => e = f
      /\ UNCHANGED disk => e = d
  BY DEF TypeOK, Mine, SetDisk
<1>2. SUFFICES Same(e)
  OBVIOUS
<1> HIDE DEF e
<1>3. /\ \A n : \A f \in AppendAttempts(d, n) : Same(f)
      /\ \A l : \A f \in ReplaceAttempts(d, l) : Same(f)
      /\ Same(Inventoried(d))
  BY <1>1 DEF AppendAttempts, Appended, ReplaceAttempts, Replaced, Inventoried, Disk
<1>4. CASE UNCHANGED disk
  BY <1>1, <1>4
<1>5. CASE \E n : SetDisk(r, Appended(d, n))
  BY <1>1, <1>3, <1>5, AttemptsSucceed
<1>6. CASE \E l : SetDisk(r, Replaced(d, l))
  BY <1>1, <1>3, <1>6, AttemptsSucceed
<1>7. CASE WriteFirstLog(r) \/ Capture(r) \/ WriteDigest(r) \/ FailDigest(r) \/ Inventory(r)
  BY <1>1, <1>3, <1>7 DEF WriteFirstLog, Capture, WriteDigest, FailDigest, Inventory, Disk
<1>8. CASE SetupFails(r)
  <2>1. CASE pc[r] = "first"
    BY <1>1, <1>8, <2>1 DEF SetupFails, Disk
  <2>2. CASE pc[r] = "created"
    BY <1>1, <1>3, <1>8, <2>2 DEF SetupFails
  <2>3. CASE pc[r] = "setup"
    BY <1>1, <1>3, <1>8, <2>3 DEF SetupFails
  <2> QED BY <1>8, <2>1, <2>2, <2>3 DEF SetupFails, Setup
<1>9. CASE \E category \in {"raised", "budget"} : WorkFails(r, category)
  <2>1. \A f \in Debris(r) : Same(f)
    BY <1>1, <1>3 DEF Debris, Disk
  <2> QED BY <1>1, <1>9, <2>1 DEF WorkFails
<1>10. CASE SealFails(r)
  <2>1. pc[r] \in Sealing => \A f \in SealDebris(r) : Same(f)
    BY <1>1, <1>3 DEF SealDebris, Sealing, Disk
  <2> QED BY <1>1, <1>10, <2>1 DEF SealFails
<1>11. CASE FailClosed(r)
  <2>1. CASE \E tmp \in {TRUE, d.tmp} : SetDisk(r, [d EXCEPT !.tmp = tmp])
    BY <1>1, <2>1 DEF Disk
  <2> QED BY <1>6, <1>11, <2>1 DEF FailClosed
<1>12. CASE Killed(r)
  <2>1. \A f \in Remains(r) : Same(f)
    BY <1>1 DEF Remains, Disk, Setup, FailClosedStates
  <2> QED BY <1>1, <1>12, <2>1 DEF Killed
<1> QED BY <1>4, <1>5, <1>6, <1>7, <1>8, <1>9, <1>10, <1>11, <1>12
        DEF Step, Proceed, Invoke, OpenClaim, CheckCollision, ClaimRefused, WriteClaim,
            MakeAttemptDir, Escapes, StartAttempt, AppendCreated, FinishSetup, Expire, Stage,
            Connect, Ask, Answer, Freeze, Reveal, Save, AppendEvent, Complete, Scrub,
            CloseSandbox, Tally, AppendFinal, WriteSealedLog, Return, CallEnds

\* A run log goes on naming the campaign it was started for.
LEMMA BoundKept ==
    ASSUME TypeOK, NEW r \in Runners, Step(r), pc[r] \in Logging
    PROVE  pc'[r] \notin Logging \/ log'[r].bound = log[r].bound
<1> USE DEF Goto, SetLog
<1>1. pc \in [Runners -> Pcs] /\ log \in [Runners -> Logs] /\ log[r] \in Logs
  BY DEF TypeOK
<1>2. Logging = {"first", "created", "setup", "work", "save", "append", "answer", "raise", "scrub",
                 "close", "tally", "finalize", "inventory", "seal", "digest", "sync", "failed_closed",
                 "failed_closed_deadline"}
  BY PcSets DEF Logging
<1>3. CASE UNCHANGED log
  BY <1>3
<1>4. \A l \in Logs : /\ \A g : [l EXCEPT !.guard = g].bound = l.bound
                      /\ \A u : [l EXCEPT !.usage = u].bound = l.bound
  BY DEF Logs
<1>5. CASE Ask(r) \/ Freeze(r) \/ Complete(r) \/ Capture(r) \/ \E answer \in Answers : Answer(r, answer)
  BY <1>1, <1>5 DEF Ask, Freeze, Complete, Capture, Answer, Logs
<1>6. CASE SetupFails(r)
  <2>1. /\ Failed(log[r], "raised") \in Logs
        /\ Failed(log[r], "raised").bound = log[r].bound
    BY <1>1, FailedFacts, LogTypes DEF Categories
  <2>2. log'[r] = [Failed(log[r], "raised") EXCEPT !.guard = "not_started"]
    BY <1>1, <1>6 DEF SetupFails
  <2> DEFINE l == Failed(log[r], "raised")
  <2>3. [l EXCEPT !.guard = "not_started"].bound = l.bound
    BY <1>4, <2>1
  <2> QED BY <2>1, <2>2, <2>3
<1>7. ASSUME NEW category \in {"raised", "budget"}, WorkFails(r, category)
      PROVE  log'[r].bound = log[r].bound
  BY <1>1, <1>7, FailedFacts DEF WorkFails, Categories
<1>8. CASE Scrub(r)
  <2>1. /\ Marked(log[r], "artifact") \in Logs
        /\ Marked(log[r], "artifact").bound = log[r].bound
    BY <1>1, MarkedFacts, LogTypes DEF Categories
  <2>2. log'[r] \in {[log[r] EXCEPT !.guard = "passed"],
                     [Marked(log[r], "artifact") EXCEPT !.guard = "not_passed"]}
    BY <1>1, <1>8 DEF Scrub
  <2>3. /\ [log[r] EXCEPT !.guard = "passed"].bound = log[r].bound
        /\ [Marked(log[r], "artifact") EXCEPT !.guard = "not_passed"].bound
             = Marked(log[r], "artifact").bound
    BY <1>1, <1>4, <2>1
  <2> QED BY <2>1, <2>2, <2>3
<1>9. CASE CloseSandbox(r)
  BY <1>1, <1>9, MarkedFacts DEF CloseSandbox, Categories
<1>10. CASE Tally(r)
  <2>1. PICK usage \in {UsageSummary(log[r].calls), "unknown"} :
          log'[r] \in {[log[r] EXCEPT !.usage = usage],
                       Marked([log[r] EXCEPT !.usage = usage], "journal")}
    BY <1>1, <1>10 DEF Tally
  <2> DEFINE l == [log[r] EXCEPT !.usage = usage]
  <2>2. l \in Logs /\ l.bound = log[r].bound
    BY <1>1, <1>4, LogTypes DEF UsageSummary
  <2>3. log'[r] = l \/ log'[r] = Marked(l, "journal")
    BY <2>1
  <2> HIDE DEF l
  <2> QED BY <2>2, <2>3, MarkedFacts DEF Categories
<1>11. CASE WriteSealedLog(r)
  BY <1>1, <1>11 DEF WriteSealedLog, Sealed, Logs
<1>12. CASE \/ FailClosed(r) \/ CallEnds(r) \/ Killed(r) \/ \E s \in Slots : Invoke(r, s)
            \/ StartAttempt(r)
  BY <1>1, <1>2, <1>12 DEF FailClosed, CallEnds, Killed, Forget, Invoke, StartAttempt
<1> QED BY <1>3, <1>5, <1>6, <1>7, <1>8, <1>9, <1>10, <1>11, <1>12
        DEF Step, Proceed, OpenClaim, CheckCollision, ClaimRefused, WriteClaim, MakeAttemptDir,
            Escapes, WriteFirstLog, AppendCreated, FinishSetup, Expire, Stage, Connect, Reveal,
            Save, AppendEvent, AppendFinal, Inventory, WriteDigest, Return, SealFails, FailDigest,
            memory

\* Where a call goes from where.
Working == Setup \cup Guarded \cup Finalizing

LEMMA Moves ==
    ASSUME TypeOK, NEW r \in Runners, Step(r)
    PROVE  \/ /\ \/ \E s \in Slots : Invoke(r, s)
                 \/ ClaimRefused(r) \/ CallEnds(r) \/ Killed(r)
                 \/ \E how \in {"error", "interrupt"} : Escapes(r, how)
              /\ pc'[r] \in {"idle", "preflight", "error", "interrupt"}
           \/ CheckCollision(r) /\ pc'[r] = "allocate"
           \/ OpenClaim(r) /\ pc'[r] = "claim"
           \/ WriteClaim(r) /\ pc[r] = "claim" /\ pc'[r] = "mkdir"
           \/ MakeAttemptDir(r) /\ pc[r] = "mkdir" /\ pc'[r] = "clock"
           \/ StartAttempt(r) /\ pc[r] = "clock" /\ pc'[r] = "first"
           \/ pc[r] \in Working /\ pc'[r] \in (Working \cup {"finalize"}) \ {"first"}
           \/ /\ pc[r] \in {"finalize", "inventory"} /\ pc'[r] \in {"inventory", "seal"}
              /\ UNCHANGED log
           \/ WriteSealedLog(r) /\ pc[r] = "seal" /\ pc'[r] = "digest"
           \/ SealFails(r) /\ pc[r] \in Sealing /\ pc'[r] \in FailClosedStates
           \/ FailClosed(r) /\ pc[r] \in FailClosedStates /\ pc'[r] \in {"fail_digest", "run_error"}
           \/ WriteDigest(r) /\ pc[r] = "digest" /\ pc'[r] = "sync"
           \/ Return(r) /\ pc[r] = "sync" /\ pc'[r] \in {"returned", "run_error"}
           \/ FailDigest(r) /\ pc[r] = "fail_digest" /\ pc'[r] = "run_error"
<1> USE PcSets DEF Goto, Working, memory
<1>1. pc \in [Runners -> Pcs]
  BY DEF TypeOK
<1>2. CASE \/ \E s \in Slots : Invoke(r, s)
           \/ ClaimRefused(r) \/ CallEnds(r) \/ Killed(r)
           \/ \E how \in {"error", "interrupt"} : Escapes(r, how)
  BY <1>1, <1>2 DEF Invoke, ClaimRefused, CallEnds, Killed, Forget, Escapes
<1>3. CASE CheckCollision(r) \/ OpenClaim(r) \/ WriteClaim(r) \/ MakeAttemptDir(r) \/ StartAttempt(r)
  BY <1>1, <1>3 DEF CheckCollision, OpenClaim, WriteClaim, MakeAttemptDir, StartAttempt
<1>4. CASE WriteFirstLog(r) \/ AppendCreated(r) \/ FinishSetup(r) \/ SetupFails(r)
  BY <1>1, <1>4 DEF WriteFirstLog, AppendCreated, FinishSetup, SetupFails
<1>5. CASE \/ Expire(r) \/ Stage(r) \/ Connect(r) \/ Reveal(r) \/ Ask(r) \/ Capture(r)
           \/ Freeze(r) \/ Save(r) \/ Complete(r) \/ AppendEvent(r)
           \/ (\E answer \in Answers : Answer(r, answer))
  BY <1>1, <1>5 DEF Expire, Stage, Connect, Ask, Answer, Capture, Freeze, Reveal, Save, Complete,
     AppendEvent, AfterEvent, At
<1>6. CASE \/ Scrub(r) \/ CloseSandbox(r) \/ Tally(r) \/ AppendFinal(r) \/ Inventory(r)
           \/ \E category \in {"raised", "budget"} : WorkFails(r, category)
  BY <1>1, <1>6 DEF WorkFails, Scrub, CloseSandbox, Tally, AppendFinal, Inventory
<1>7. CASE WriteSealedLog(r) \/ WriteDigest(r) \/ Return(r)
  BY <1>1, <1>7 DEF WriteSealedLog, WriteDigest, Return
<1>8. CASE SealFails(r) \/ FailClosed(r) \/ FailDigest(r)
  BY <1>1, <1>8 DEF SealFails, FailClosed, FailDigest
<1> QED BY <1>2, <1>3, <1>4, <1>5, <1>6, <1>7, <1>8 DEF Step, Proceed

LEMMA SeenKept ==
    ASSUME TypeOK, TypeOK', Inv, StrayInv, NEW r \in Runners, SeenInv(r),
           Step(r)
    PROVE  SeenInv(r)'
<1> DEFINE d == Mine(r)
           e == disk'[slot[r]]
<1>1. /\ disk \in [Slots -> Disk] /\ pc \in [Runners -> Pcs] /\ log \in [Runners -> Logs]
      /\ slot \in [Runners -> Slots] /\ slot[r] \in Slots /\ d \in Disk /\ log[r] \in Logs
      /\ seq[r] \in Nat /\ seq[r] + 1 \in Nat
      /\ \A f : SetDisk(r, f) => e = f
  BY DEF TypeOK, Mine, SetDisk
<1>2. LogInv(r) /\ HeldInv(r) /\ ClaimInv
  BY DEF Inv, RunnerInv
<1>3. pc'[r] \in Holding => slot'[r] = slot[r] /\ Mine(r)' = e
  BY Shape DEF Mine
<1> HIDE DEF e
<1>4. /\ Logging = {"first", "created", "setup", "work", "save", "append", "answer", "raise", "scrub",
                    "close", "tally", "finalize", "inventory", "seal", "digest", "sync", "failed_closed",
                    "failed_closed_deadline"}
      /\ Holding = {"claim", "mkdir", "clock", "fail_digest", "returned", "run_error"} \cup Logging
      /\ Working \cup {"finalize", "inventory"}
           = Logging \ ({"seal", "digest", "sync"} \cup FailClosedStates)
  BY PcSets DEF Logging, Holding, Working
<1>5. pc[r] \notin {"allocate", "claim", "mkdir"} =>
        /\ e.claim = d.claim /\ e.dir = d.dir
        /\ pc[r] \notin {"digest", "fail_digest"} => e.digest = d.digest
  BY AttemptKept DEF e
<1>6. pc[r] \in Logging => pc'[r] \notin Logging \/ log'[r].bound = log[r].bound
  BY BoundKept
<1>7. pc[r] \in Holding \ {"claim", "mkdir"} => d.claim = "written" /\ d.dir
  BY DEF SeenInv
<1>8. CASE pc'[r] \in {"idle", "preflight", "error", "interrupt"}
  BY <1>4, <1>8, PcSets DEF SeenInv
<1>9. CASE CheckCollision(r) /\ pc'[r] = "allocate"
  <2>1. slot'[r] = slot[r] /\ ~d.dir
    BY <1>9 DEF CheckCollision, memory
  <2>2. slot[r] \notin StrayDirs
    <3>1. ASSUME slot[r] \in StrayDirs
          PROVE  FALSE
      <4>1. disk[slot[r]] = NoFiles(slot[r])
        BY <1>1, <1>2, <3>1 DEF StrayInv, ClaimInv, Slots
      <4>2. NoFiles(slot[r]).dir = (slot[r] \in StrayDirs)
        BY DEF NoFiles
      <4>3. d.dir = (slot[r] \in StrayDirs)
        BY <4>1, <4>2 DEF Mine
      <4> QED BY <2>1, <3>1, <4>3
    <3> QED BY <3>1
  <2> QED BY <1>4, <1>9, <2>1, <2>2, PcSets DEF SeenInv
<1>10. CASE OpenClaim(r) /\ pc'[r] = "claim"
  <2>1. d.claim = "none" /\ e = [d EXCEPT !.claim = "open"] /\ slot[r] \notin StrayDirs
    BY <1>1, <1>10 DEF OpenClaim, SeenInv
  <2>2. d = NoFiles(slot[r])
    BY <1>1, <1>2, <2>1 DEF ClaimInv, Mine
  <2>3. ~d.dir
    <3>1. NoFiles(slot[r]).dir = (slot[r] \in StrayDirs)
      BY DEF NoFiles
    <3> QED BY <2>1, <2>2, <3>1
  <2>4. e.claim = "open" /\ ~e.dir
    BY <1>1, <2>1, <2>3 DEF Disk
  <2> QED BY <1>3, <1>4, <1>10, <2>4, PcSets DEF SeenInv
<1>11. CASE WriteClaim(r) /\ pc[r] = "claim" /\ pc'[r] = "mkdir"
  <2>1. ~d.dir /\ e = [d EXCEPT !.claim = "written"]
    BY <1>1, <1>11 DEF WriteClaim, SeenInv
  <2>2. e.claim = "written" /\ ~e.dir
    BY <1>1, <2>1 DEF Disk
  <2> QED BY <1>3, <1>4, <1>11, <2>2, PcSets DEF SeenInv
<1>12. CASE MakeAttemptDir(r) /\ pc[r] = "mkdir" /\ pc'[r] = "clock"
  <2>1. d.claim = "written" /\ e = [d EXCEPT !.dir = TRUE] /\ d.digest = NoLog
    BY <1>1, <1>2, <1>12 DEF MakeAttemptDir, SeenInv, HeldInv, Untouched
  <2>2. e.claim = "written" /\ e.dir /\ e.digest = NoLog
    BY <1>1, <2>1 DEF Disk
  <2> QED BY <1>3, <1>4, <1>12, <2>2, PcSets DEF SeenInv
<1>13. CASE StartAttempt(r) /\ pc[r] = "clock" /\ pc'[r] = "first"
  <2>1. log'[r] = Running(r)
    BY <1>1, <1>13 DEF StartAttempt, SetLog
  <2>2. log'[r].bound = (r \notin Foreign)
    BY <2>1 DEF Running, NoLog
  <2>3. e.claim = "written" /\ e.dir /\ e.digest = NoLog
    BY <1>4, <1>5, <1>7, <1>13, PcSets DEF SeenInv
  <2> QED BY <1>3, <1>4, <1>13, <2>2, <2>3, PcSets DEF SeenInv
<1>14. CASE \/ pc[r] \in Working /\ pc'[r] \in (Working \cup {"finalize"}) \ {"first"}
            \/ pc[r] \in {"finalize", "inventory"} /\ pc'[r] \in {"inventory", "seal"}
            \/ WriteSealedLog(r) /\ pc[r] = "seal" /\ pc'[r] = "digest"
  <2>1. e.claim = "written" /\ e.dir /\ e.digest = NoLog /\ log'[r].bound = (r \notin Foreign)
    BY <1>4, <1>5, <1>6, <1>7, <1>14, PcSets DEF SeenInv, Working
  <2> QED BY <1>3, <1>4, <1>14, <2>1, PcSets DEF SeenInv, Working
<1>15. CASE SealFails(r) /\ pc[r] \in Sealing /\ pc'[r] \in FailClosedStates
  <2>1. e \in SealDebris(r)
    BY <1>1, <1>15 DEF SealFails
  <2>2. /\ pc[r] \notin {"digest", "sync"} => d.log.journal = "none" /\ d.digest = NoLog
        /\ pc[r] = "digest" => d.log.journal = "sealed" /\ d.digest = NoLog
        /\ pc[r] = "sync" => d.log.journal = "sealed" /\ d.digest = d.log
    BY <1>2, <1>4, <1>15, PcSets DEF HeldInv, Fresh, SeenInv, SealedEvidence, Mine
  <2>3. /\ e.log.journal \in {"none", "sealed"}
        /\ e.digest \in {NoLog, Garbled} \/ (e.digest = e.log /\ e.log.journal = "sealed")
    <3>1. CASE pc[r] = "finalize"
      <4>1. e \in AppendAttempts(d, seq[r] + 1)
        BY <2>1, <3>1 DEF SealDebris
      <4> QED BY <1>1, <2>2, <3>1, <4>1, AppendFacts
    <3>2. CASE pc[r] = "inventory"
      <4>1. e \in {d, Inventoried(d)}
        BY <2>1, <3>2 DEF SealDebris
      <4> QED BY <1>1, <2>2, <3>2, <4>1 DEF Inventoried, Disk
    <3>3. CASE pc[r] = "seal"
      <4>1. e \in ReplaceAttempts(d, Sealed(r))
        BY <2>1, <3>3 DEF SealDebris
      <4>2. Sealed(r) \in Logs
        BY <1>1, LogTypes DEF Sealed
      <4>3. Sealed(r).journal = "sealed"
        BY <1>1 DEF Sealed, Logs
      <4>4. e.log \in {d.log, Sealed(r)} /\ e.digest = d.digest
        BY <1>1, <4>1, <4>2, ReplaceFacts
      <4> QED BY <2>2, <3>3, <4>3, <4>4
    <3>4. CASE pc[r] = "digest"
      <4>1. e \in {d, [d EXCEPT !.digest = Garbled]}
        BY <2>1, <3>4 DEF SealDebris
      <4> QED BY <1>1, <2>2, <3>4, <4>1 DEF Disk
    <3>5. CASE pc[r] = "sync"
      <4>1. e = d
        BY <2>1, <3>5 DEF SealDebris
      <4> QED BY <2>2, <3>5, <4>1
    <3> QED BY <1>15, <3>1, <3>2, <3>3, <3>4, <3>5, PcSets
  <2>4. e.claim = "written" /\ e.dir /\ log'[r].bound = (r \notin Foreign)
    BY <1>4, <1>5, <1>6, <1>7, <1>15, PcSets DEF SeenInv
  <2> QED BY <1>3, <1>4, <1>15, <2>3, <2>4, PcSets DEF SeenInv, SealedEvidence, Mine
<1>16. CASE FailClosed(r) /\ pc[r] \in FailClosedStates /\ pc'[r] \in {"fail_digest", "run_error"}
  <2>1. e.claim = "written" /\ e.dir
    BY <1>4, <1>5, <1>7, <1>16, PcSets
  <2>2. pc'[r] = "fail_digest" => e.log.journal \in FailClosedStates
    <3>1. ClosedLog(r).journal = pc[r]
      <4> DEFINE f == Failed(log[r], IF pc[r] = "failed_closed" THEN "journal" ELSE "budget")
      <4>1. f \in Logs
        BY <1>1, LogTypes DEF Categories
      <4>2. ClosedLog(r) = [f EXCEPT !.journal = pc[r], !.final = seq[r]]
        BY DEF ClosedLog
      <4> HIDE DEF f
      <4> QED BY <4>1, <4>2 DEF Logs
    <3>2. pc'[r] = "fail_digest" => SetDisk(r, Replaced(d, ClosedLog(r)))
      BY <1>1, <1>16 DEF FailClosed, Goto
    <3> QED BY <1>1, <1>16, <3>1, <3>2 DEF Replaced, Disk
  <2> QED BY <1>3, <1>4, <1>16, <2>1, <2>2, PcSets DEF SeenInv
<1>17. CASE \/ WriteDigest(r) /\ pc[r] = "digest" /\ pc'[r] = "sync"
            \/ Return(r) /\ pc[r] = "sync" /\ pc'[r] \in {"returned", "run_error"}
            \/ FailDigest(r) /\ pc[r] = "fail_digest" /\ pc'[r] = "run_error"
  <2>1. e.claim = "written" /\ e.dir
    BY <1>4, <1>5, <1>7, <1>17, PcSets
  <2>2. pc'[r] = "sync" => log'[r].bound = (r \notin Foreign)
    BY <1>4, <1>6, <1>17, PcSets DEF SeenInv
  <2> QED BY <1>3, <1>4, <1>17, <2>1, <2>2, PcSets DEF SeenInv
<1> QED BY <1>8, <1>9, <1>10, <1>11, <1>12, <1>13, <1>14, <1>15, <1>16, <1>17, Moves

LEMMA SeenOthers ==
    ASSUME TypeOK, TypeOK', ClaimInv, NEW r \in Runners, Step(r), NEW q \in Runners \ {r},
           SeenInv(q)
    PROVE  /\ SeenInv(q)'
           /\ PhaseOf(q)' = PhaseOf(q) /\ ResultOf(q)' = ResultOf(q)
<1>1. /\ pc'[q] = pc[q] /\ slot'[q] = slot[q] /\ log'[q] = log[q]
      /\ \A s \in Slots \ {slot[r]} : disk'[s] = disk[s]
      /\ pc[r] \notin Holding => disk' = disk \/ OpenClaim(r)
      /\ slot[q] \in Slots
  BY Shape DEF TypeOK
<1>2. pc[q] \in Holding => Mine(q)' = Mine(q)
  <2>1. OpenClaim(r) => disk[slot[r]].claim = "none"
    BY DEF OpenClaim, Mine
  <2> QED BY <1>1, <2>1 DEF ClaimInv, Mine
<1>3. SeenInv(q)'
  <2>1. CASE pc[q] \in Holding
    <3>1. SealedEvidence(slot[q])' <=> SealedEvidence(slot[q])
      BY <1>1, <1>2, <2>1 DEF SealedEvidence, Mine
    <3> QED BY <1>1, <1>2, <2>1, <3>1 DEF SeenInv
  <2>2. CASE pc[q] \notin Holding
    BY <1>1, <2>2, PcSets DEF SeenInv, Holding, Logging
  <2> QED BY <2>1, <2>2
<1>4. PhaseOf(q)' = PhaseOf(q)
  <2>1. CASE pc[q] \in Holding
    BY <1>1, <1>2, <2>1 DEF PhaseOf
  <2>2. CASE pc[q] \notin Holding
    <3>1. pc[q] \notin FailClosedStates /\ pc'[q] \notin FailClosedStates
      BY <1>1, <2>2 DEF Holding
    <3> QED BY <1>1, <3>1 DEF PhaseOf
  <2> QED BY <2>1, <2>2
<1> QED BY <1>1, <1>3, <1>4 DEF ResultOf

LEMMA StrayStep ==
    ASSUME TypeOK, TypeOK', ClaimInv, StrayInv, NEW r \in Runners, SeenInv(r), Step(r)
    PROVE  StrayInv'
<1>1. /\ \A s \in Slots \ {slot[r]} : disk'[s] = disk[s]
      /\ pc[r] \notin Holding => disk' = disk \/ OpenClaim(r)
  BY Shape
<1>2. OpenClaim(r) => slot[r] \notin StrayDirs
  BY DEF OpenClaim, SeenInv
<1>3. pc[r] \in Holding => slot[r] \notin StrayDirs
  BY DEF ClaimInv, StrayInv, Mine
<1> QED BY <1>1, <1>2, <1>3 DEF StrayInv, Slots

\* How call r and its slot look from outside.
Looks(r, stage, phase, result) ==
    StageOnDisk(Mine(r)) = stage /\ PhaseOf(r) = phase /\ ResultOf(r) = result

ViewInv(r) ==
    /\ pc[r] \in {"idle", "error", "interrupt"} => PhaseOf(r) = pc[r] /\ ResultOf(r) = "none"
    /\ pc[r] \in {"preflight", "allocate"} => PhaseOf(r) = "preflight" /\ ResultOf(r) = "none"
    /\ pc[r] = "claim" => Looks(r, "open", "claim", "none")
    /\ pc[r] = "mkdir" => Looks(r, "claimed", "mkdir", "none")
    /\ pc[r] = "clock" => Looks(r, "dir", "setup", "none")
    /\ pc[r] \in Setup \cup Guarded \cup Finalizing => Looks(r, "dir", "work", "none")
    /\ pc[r] \in Sealing \ {"digest", "sync"} => Looks(r, "dir", "seal", log[r].status)
    /\ pc[r] = "digest" => Looks(r, "log", "sidecar", log[r].status)
    /\ pc[r] = "sync" => Looks(r, "sealed", "sync", log[r].status)
    /\ pc[r] \in FailClosedStates =>
         \/ SealedEvidence(slot[r]) /\ Looks(r, "sealed", "sync", log[r].status)
         \/ Mine(r).log.journal = "sealed" /\ Looks(r, "log", "sidecar", log[r].status)
         \/ Mine(r).log.journal = "none" /\ Looks(r, "dir", "seal", log[r].status)
    /\ pc[r] = "fail_digest" => Looks(r, "spoiled", "run_error", log[r].status)
    /\ pc[r] \in {"returned", "run_error"} => PhaseOf(r) = pc[r] /\ ResultOf(r) = log[r].status

LEMMA ViewHolds ==
    ASSUME TypeOK, Inv, NEW r \in Runners, SeenInv(r)
    PROVE  ViewInv(r)
<1> DEFINE d == Mine(r)
<1>1. /\ pc[r] \in Pcs /\ d \in Disk
      /\ Pcs = {"idle", "fail_digest", "preflight", "allocate", "claim", "mkdir", "clock",
                "first", "created", "setup", "work", "save", "append", "answer", "raise",
                "scrub", "close", "tally", "finalize", "inventory", "seal", "digest", "sync",
                "failed_closed", "failed_closed_deadline", "returned", "run_error", "error",
                "interrupt"}
  BY PcSets DEF TypeOK, Mine, Pcs
<1>2. /\ Logging = {"first", "created", "setup", "work", "save", "append", "answer", "raise", "scrub",
                    "close", "tally", "finalize", "inventory", "seal", "digest", "sync", "failed_closed",
                    "failed_closed_deadline"}
      /\ Holding = {"claim", "mkdir", "clock", "fail_digest", "returned", "run_error"} \cup Logging
  BY PcSets DEF Logging, Holding
<1>3. HeldInv(r)
  BY DEF Inv, RunnerInv
<1>4. NoLog.journal = "none" /\ Garbled.journal = "none"
  BY DEF NoLog, Garbled
<1>5. pc[r] = "claim" => StageOnDisk(d) = "open"
  BY DEF SeenInv, StageOnDisk
<1>6. pc[r] = "mkdir" => StageOnDisk(d) = "claimed"
  BY DEF SeenInv, StageOnDisk
<1>7. pc[r] \in ({"clock"} \cup Logging) \ ({"digest", "sync"} \cup FailClosedStates)
        => StageOnDisk(d) = "dir"
  <2> SUFFICES ASSUME pc[r] \in ({"clock"} \cup Logging) \ ({"digest", "sync"} \cup FailClosedStates)
               PROVE  StageOnDisk(d) = "dir"
    OBVIOUS
  <2>1. d.claim = "written" /\ d.dir /\ d.log.journal = "none"
    BY <1>2, <1>3, <1>4, PcSets DEF SeenInv, HeldInv, Untouched, Fresh
  <2> QED BY <2>1, PcSets DEF StageOnDisk
<1>8. /\ pc[r] = "digest" => StageOnDisk(d) = "log"
      /\ pc[r] \in FailClosedStates /\ d.log.journal = "sealed" /\ d.digest # d.log
           => StageOnDisk(d) = "log"
      /\ pc[r] = "sync" \/ (pc[r] \in FailClosedStates /\ SealedEvidence(slot[r]))
           => StageOnDisk(d) = "sealed" /\ d.digest = d.log /\ d.log.journal = "sealed"
  <2>1. pc[r] \in {"digest", "sync"} \cup FailClosedStates => d.claim = "written" /\ d.dir
    BY <1>2, PcSets DEF SeenInv
  <2>2. pc[r] = "digest" => d.log.journal = "sealed" /\ d.digest = NoLog
    BY <1>2, <1>3, PcSets DEF SeenInv, HeldInv
  <2>3. pc[r] = "sync" => SealedEvidence(slot[r])
    BY <1>3 DEF HeldInv
  <2>4. SealedEvidence(slot[r]) => d.digest = d.log /\ d.log.journal = "sealed"
    BY DEF SealedEvidence, Mine
  <2> QED BY <1>4, <2>1, <2>2, <2>3, <2>4, PcSets DEF StageOnDisk
<1>9. pc[r] \in FailClosedStates /\ d.log.journal = "none" => StageOnDisk(d) = "dir"
  BY <1>2, PcSets DEF SeenInv, StageOnDisk
<1>10. pc[r] \in FailClosedStates =>
         \/ d.log.journal = "none"
         \/ SealedEvidence(slot[r])
         \/ d.log.journal = "sealed" /\ d.digest # d.log
  BY <1>4 DEF SeenInv
<1>11. pc[r] = "fail_digest" => StageOnDisk(d) = "spoiled"
  BY <1>2, PcSets DEF SeenInv, StageOnDisk
<1>12. ResultOf(r) = IF pc[r] \in Sealing \cup FailClosedStates \cup {"fail_digest", "returned", "run_error"}
                     THEN log[r].status ELSE "none"
  BY DEF ResultOf
<1>13. /\ pc[r] \in {"preflight", "allocate"} => PhaseOf(r) = "preflight"
       /\ pc[r] = "clock" => PhaseOf(r) = "setup"
       /\ pc[r] \in Setup \cup Guarded \cup Finalizing => PhaseOf(r) = "work"
       /\ pc[r] \in Sealing \ {"digest", "sync"} => PhaseOf(r) = "seal"
       /\ pc[r] = "digest" => PhaseOf(r) = "sidecar"
       /\ pc[r] = "sync" => PhaseOf(r) = "sync"
       /\ pc[r] \in FailClosedStates =>
            PhaseOf(r) = IF d.log.journal # "sealed" THEN "seal"
                         ELSE IF d.digest = d.log THEN "sync" ELSE "sidecar"
       /\ pc[r] = "fail_digest" => PhaseOf(r) = "run_error"
       /\ pc[r] \in {"idle", "claim", "mkdir", "error", "interrupt", "returned", "run_error"}
            => PhaseOf(r) = pc[r]
  BY PcSets DEF PhaseOf
<1> QED BY <1>1, <1>2, <1>5, <1>6, <1>7, <1>8, <1>9, <1>10, <1>11, <1>12, <1>13, PcSets
        DEF ViewInv, Looks

\* An attempt that never was sealed shows its stage and nothing else.
LEMMA Unsaid ==
    ASSUME NEW d, StageOnDisk(d) \in {"sealed", "spoiled"} => d.digest.journal # "sealed"
    PROVE  EvidenceOnDisk(d) =
             [stage |-> StageOnDisk(d), status |-> "none", bound |-> FALSE, attested |-> FALSE]
BY DEF EvidenceOnDisk

LEMMA RestagedAs ==
    ASSUME NEW g, NEW h, NEW a, NEW b \in BOOLEAN, NEW x, NEW y,
           x = [stage |-> h, status |-> a, bound |-> b, attested |-> FALSE],
           y = [stage |-> g, status |-> a, bound |-> b, attested |-> FALSE]
    PROVE  [x EXCEPT !.stage = g] = y
<1> DEFINE R == [stage : {g, h}, status : {a}, bound : BOOLEAN, attested : BOOLEAN]
<1>1. x \in R /\ y \in R
  OBVIOUS
<1>2. x.stage = h /\ x.status = a /\ x.bound = b /\ x.attested = FALSE
  OBVIOUS
<1>3. y.stage = g /\ y.status = a /\ y.bound = b /\ y.attested = FALSE
  OBVIOUS
<1>4. PICK z : z = [x EXCEPT !.stage = g]
  OBVIOUS
<1>5. z \in R
  BY <1>1, <1>4
<1>6. z.stage = g /\ z.status = x.status /\ z.bound = x.bound /\ z.attested = x.attested
  BY <1>1, <1>4
<1> QED BY <1>1, <1>2, <1>3, <1>4, <1>5, <1>6

LEMMA Restaged ==
    ASSUME NEW g, NEW h, NEW x, NEW y,
           x = [stage |-> h, status |-> "none", bound |-> FALSE, attested |-> FALSE],
           y = [stage |-> g, status |-> "none", bound |-> FALSE, attested |-> FALSE]
    PROVE  [x EXCEPT !.stage = g] = y
OBVIOUS

\* One that was keeps what its digest says when its log is rewritten.
LEMMA StillSaid ==
    ASSUME NEW d, NEW e, StageOnDisk(d) = "sealed", StageOnDisk(e) = "spoiled",
           e.digest = d.digest
    PROVE  EvidenceOnDisk(e) = [EvidenceOnDisk(d) EXCEPT !.stage = "spoiled"]
<1> DEFINE seen == d.digest.journal = "sealed"
           status == IF seen THEN d.digest.status ELSE "none"
           bound == (seen /\ d.digest.bound) = TRUE
<1>1. EvidenceOnDisk(d) = [stage |-> "sealed", status |-> status, bound |-> bound, attested |-> FALSE]
  BY DEF EvidenceOnDisk
<1>2. EvidenceOnDisk(e) = [stage |-> "spoiled", status |-> status, bound |-> bound, attested |-> FALSE]
  BY DEF EvidenceOnDisk
<1>3. bound \in BOOLEAN
  BY DEF bound
<1> HIDE DEF status, bound
<1> QED BY <1>1, <1>2, <1>3, RestagedAs

\* A kill in the middle of a write shows in nothing that others look at.
LEMMA RemainsHidden ==
    ASSUME TypeOK, Inv, NEW r \in Runners, SeenInv(r), ViewInv(r), Killed(r)
    PROVE  EvidenceOnDisk(disk'[slot[r]]) = EvidenceOnDisk(Mine(r))
<1> DEFINE d == Mine(r)
           e == disk'[slot[r]]
<1>1. d \in Disk /\ e \in Remains(r) /\ HeldInv(r)
  BY DEF TypeOK, Mine, Killed, SetDisk, Inv, RunnerInv
<1>2. SUFFICES EvidenceOnDisk(e) = EvidenceOnDisk(d)
  OBVIOUS
<1> HIDE DEF e
<1>3. e = d \/ e = [d EXCEPT !.torn = TRUE] \/ e = [d EXCEPT !.tmp = TRUE]
        => EvidenceOnDisk(e) = EvidenceOnDisk(d)
  BY <1>1 DEF Disk, EvidenceOnDisk, StageOnDisk
<1>4. pc[r] = "first" => StageOnDisk(d) = "dir" /\ StageOnDisk([d EXCEPT !.log = Garbled]) = "dir"
  <2>1. pc[r] = "first" => d.claim = "written" /\ d.dir
    BY PcSets DEF SeenInv, Holding
  <2>2. Garbled.journal = "none"
    BY DEF Garbled, NoLog
  <2>3. pc[r] = "first" => StageOnDisk(d) = "dir"
    BY PcSets DEF ViewInv, Looks
  <2> QED BY <1>1, <2>1, <2>2, <2>3, PcSets DEF StageOnDisk, Disk
<1>5. pc[r] = "digest" => StageOnDisk(d) = "log" /\ StageOnDisk([d EXCEPT !.digest = Garbled]) = "log"
  <2>1. pc[r] = "digest" => d.claim = "written" /\ d.dir /\ d.log.journal = "sealed"
    BY <1>1, PcSets DEF SeenInv, HeldInv, Holding
  <2>2. Garbled.journal = "none"
    BY DEF Garbled, NoLog
  <2>3. pc[r] = "digest" => StageOnDisk(d) = "log"
    BY DEF ViewInv, Looks
  <2> QED BY <1>1, <2>1, <2>2, <2>3, PcSets DEF StageOnDisk, Disk
<1>6. \/ e = d \/ e = [d EXCEPT !.torn = TRUE] \/ e = [d EXCEPT !.tmp = TRUE]
      \/ pc[r] = "first" /\ e = [d EXCEPT !.log = Garbled]
      \/ pc[r] = "digest" /\ e = [d EXCEPT !.digest = Garbled]
  BY <1>1, PcSets DEF Remains
<1>7. CASE pc[r] = "first" /\ e = [d EXCEPT !.log = Garbled]
  BY <1>4, <1>7, Unsaid
<1>8. CASE pc[r] = "digest" /\ e = [d EXCEPT !.digest = Garbled]
  BY <1>5, <1>8, Unsaid
<1> QED BY <1>3, <1>6, <1>7, <1>8

\* Every step of the executor is a step of SlotRun, or changes nothing that callers see.
LEMMA RefineStep ==
    ASSUME TypeOK, TypeOK', Inv, Inv', NEW r \in Runners, SeenInv(r),
           StrayInv, Step(r), ViewInv(r), ViewInv(r)',
           \A q \in Runners \ {r} : PhaseOf(q)' = PhaseOf(q) /\ ResultOf(q)' = ResultOf(q)
    PROVE  Outside!RunNext \/ UNCHANGED Outside!runVars
<1> DEFINE ev == [s \in Slots |-> EvidenceOnDisk(disk[s])]
           cl == [q \in Runners |-> [phase |-> PhaseOf(q), slot |-> slot[q], result |-> ResultOf(q)]]
           d  == Mine(r)
           e  == disk'[slot[r]]
<1>1. /\ disk \in [Slots -> Disk] /\ pc \in [Runners -> Pcs] /\ log \in [Runners -> Logs]
      /\ slot \in [Runners -> Slots] /\ slot[r] \in Slots /\ d \in Disk /\ log[r] \in Logs
      /\ \A f : SetDisk(r, f) => e = f
      /\ \A p : Goto(r, p) => pc'[r] = p
      /\ \A l : SetLog(r, l) => log'[r] = l
      /\ UNCHANGED disk => e = d
  BY DEF TypeOK, Mine, SetDisk, Goto, SetLog
<1>2. ev[slot[r]] = EvidenceOnDisk(d) /\ ev' = [ev EXCEPT ![slot[r]] = EvidenceOnDisk(e)]
  <2>1. \A s \in Slots \ {slot[r]} : disk'[s] = disk[s]
    BY Shape
  <2> QED BY <1>1, <2>1 DEF Mine
<1>3. cl[r] = [phase |-> PhaseOf(r), slot |-> slot[r], result |-> ResultOf(r)]
  OBVIOUS
<1>4. cl' = [cl EXCEPT ![r] = [phase |-> PhaseOf(r)', slot |-> slot'[r], result |-> ResultOf(r)']]
  <2>1. \A q \in Runners \ {r} : slot'[q] = slot[q]
    BY Shape
  <2> QED BY <2>1
<1>5. cl \in [Runners -> [phase : {PhaseOf(q) : q \in Runners}, slot : Slots,
                          result : {ResultOf(q) : q \in Runners}]]
  BY <1>1
<1>6. EvidenceOnDisk(e) = EvidenceOnDisk(d) => ev' = ev
  BY <1>1, <1>2
<1>7. pc'[r] \in Holding => slot'[r] = slot[r] /\ Mine(r)' = e
  BY Shape DEF Mine
<1>8. /\ Logging = {"first", "created", "setup", "work", "save", "append", "answer", "raise", "scrub",
                    "close", "tally", "finalize", "inventory", "seal", "digest", "sync", "failed_closed",
                    "failed_closed_deadline"}
      /\ Holding = {"claim", "mkdir", "clock", "fail_digest", "returned", "run_error"} \cup Logging
      /\ Working = {"first", "created", "setup", "work", "save", "append", "answer", "raise", "scrub",
                    "close", "tally"}
  BY PcSets DEF Logging, Holding, Working
<1>9. ASSUME NEW p, PhaseOf(r)' = p, slot'[r] = slot[r], ResultOf(r)' = ResultOf(r)
      PROVE  cl' = [cl EXCEPT ![r].phase = p]
  <2> HIDE DEF cl
  <2>1. [cl[r] EXCEPT !.phase = p] = [phase |-> p, slot |-> slot[r], result |-> ResultOf(r)]
    BY <1>3
  <2> QED BY <1>4, <1>9, <2>1
<1>10. ASSUME NEW g, StageOnDisk(d) \notin {"sealed", "spoiled"}, g \notin {"sealed", "spoiled"},
              StageOnDisk(e) = g
       PROVE  ev' = [ev EXCEPT ![slot[r]].stage = g]
  <2>1. /\ EvidenceOnDisk(d) = [stage |-> StageOnDisk(d), status |-> "none", bound |-> FALSE,
                                attested |-> FALSE]
        /\ EvidenceOnDisk(e) = [stage |-> g, status |-> "none", bound |-> FALSE,
                                attested |-> FALSE]
    BY <1>10, Unsaid
  <2> HIDE DEF ev, e, d
  <2>2. [EvidenceOnDisk(d) EXCEPT !.stage = g] = EvidenceOnDisk(e)
    BY <2>1, Restaged
  <2> QED BY <1>2, <2>2
<1>11. ASSUME ev' = ev, cl' = cl
       PROVE  UNCHANGED Outside!runVars
  BY <1>11 DEF Outside!runVars
<1>12. ASSUME PhaseOf(r)' = PhaseOf(r), slot'[r] = slot[r], ResultOf(r)' = ResultOf(r)
       PROVE  cl' = cl
  <2> HIDE DEF cl
  <2> QED BY <1>3, <1>4, <1>5, <1>12
<1>13. ASSUME StageOnDisk(d) \notin {"sealed", "spoiled"}, StageOnDisk(e) = StageOnDisk(d)
       PROVE  ev' = ev
  BY <1>6, <1>13, Unsaid
<1>14. /\ ev[slot[r]].stage = StageOnDisk(d)
       /\ cl[r].phase = PhaseOf(r) /\ cl[r].slot = slot[r] /\ cl[r].result = ResultOf(r)
  <2>1. EvidenceOnDisk(d).stage = StageOnDisk(d)
    BY DEF EvidenceOnDisk
  <2> HIDE DEF d
  <2> QED BY <1>2, <1>3, <2>1
<1>15. pc'[r] \in Holding => \A s, p, x : Looks(r, s, p, x)' => StageOnDisk(e) = s
                                              /\ PhaseOf(r)' = p /\ ResultOf(r)' = x
  BY <1>7 DEF Looks
<1>16. ASSUME NEW p, NEW x, PhaseOf(r)' = p, slot'[r] = slot[r], ResultOf(r)' = x
       PROVE  cl' = [cl EXCEPT ![r].phase = p, ![r].result = x]
  <2> HIDE DEF cl
  <2>1. [cl[r] EXCEPT !.phase = p] = [phase |-> p, slot |-> slot[r], result |-> ResultOf(r)]
    BY <1>3
  <2>2. \A y : y = [phase |-> p, slot |-> slot[r], result |-> ResultOf(r)]
                => [y EXCEPT !.result = x] = [phase |-> p, slot |-> slot[r], result |-> x]
    OBVIOUS
  <2>3. [[cl[r] EXCEPT !.phase = p] EXCEPT !.result = x]
          = [phase |-> p, slot |-> slot[r], result |-> x]
    BY <2>1, <2>2
  <2> QED BY <1>4, <1>5, <1>16, <2>3
<1>17. CASE \E s \in Slots : Invoke(r, s)
  <2>1. PICK s \in Slots : Invoke(r, s)
    BY <1>17
  <2>2. /\ PhaseOf(r) = "idle" /\ PhaseOf(r)' = "preflight" /\ slot'[r] = s /\ ResultOf(r)' = "none"
        /\ UNCHANGED disk
    BY <1>1, <2>1 DEF Invoke, ViewInv
  <2>3. /\ cl[r].phase = "idle" /\ ev' = ev
        /\ cl' = [cl EXCEPT ![r] = [phase |-> "preflight", slot |-> s, result |-> "none"]]
    <3> HIDE DEF cl, ev, d, e
    <3> QED BY <1>1, <1>3, <1>4, <1>6, <2>2
  <2>4. Outside!Invoke(r, s)
    BY <2>3 DEF Outside!Invoke
  <2> QED BY <2>4 DEF Outside!RunNext, Outside!Slots, Slots
<1>18. CASE ClaimRefused(r)
  <2>1. /\ PhaseOf(r) = "preflight" /\ PhaseOf(r)' = "error" /\ slot'[r] = slot[r]
        /\ ResultOf(r)' = ResultOf(r) /\ UNCHANGED disk
    BY <1>1, <1>18 DEF ClaimRefused, ViewInv, memory
  <2>2. StageOnDisk(d) # "none"
    BY <1>18 DEF ClaimRefused, StageOnDisk
  <2>3. /\ cl[r].phase = "preflight" /\ ev[cl[r].slot].stage # "none" /\ ev' = ev
        /\ cl' = [cl EXCEPT ![r].phase = "error"]
    <3> HIDE DEF cl, ev, d, e
    <3> QED BY <1>1, <1>6, <1>9, <1>14, <2>1, <2>2
  <2>4. Outside!ClaimRefused(r)
    BY <2>3 DEF Outside!ClaimRefused, Outside!Move
  <2> QED BY <2>4 DEF Outside!RunNext, Outside!CallStep
<1>19. CASE \E how \in {"error", "interrupt"} : Escapes(r, how)
  <2>1. PICK how \in {"error", "interrupt"} : Escapes(r, how)
    BY <1>19
  <2>2. /\ PhaseOf(r)' = how /\ slot'[r] = slot[r] /\ ResultOf(r)' = "none" /\ UNCHANGED disk
        /\ \/ PhaseOf(r) \in {"preflight", "claim", "mkdir", "setup"}
           \/ PhaseOf(r) \in {"work", "seal", "returned", "run_error"} /\ how = "interrupt"
    BY <1>1, <2>1, PcSets DEF Escapes, ViewInv, Looks, memory
  <2>3. /\ \/ cl[r].phase \in {"preflight", "claim", "mkdir", "setup"}
           \/ cl[r].phase \in {"work", "seal", "returned", "run_error"} /\ how = "interrupt"
        /\ ev' = ev
        /\ cl' = [cl EXCEPT ![r].phase = how, ![r].result = "none"]
    <3> HIDE DEF cl, ev, d, e
    <3> QED BY <1>1, <1>6, <1>14, <1>16, <2>2
  <2>4. Outside!Escapes(r, how)
    BY <2>3 DEF Outside!Escapes
  <2> QED BY <2>4 DEF Outside!RunNext, Outside!CallStep
<1>20. CASE CallEnds(r) \/ Killed(r)
  <2>1. /\ PhaseOf(r)' = "idle" /\ slot'[r] = 1 /\ ResultOf(r)' = "none" /\ PhaseOf(r) # "idle"
    BY <1>1, <1>20, PcSets DEF CallEnds, Killed, Forget, ViewInv, Looks, TypeOK, Pcs
  <2>2. EvidenceOnDisk(e) = EvidenceOnDisk(d)
    BY <1>1, <1>20, RemainsHidden DEF CallEnds
  <2>3. /\ cl[r].phase # "idle" /\ ev' = ev
        /\ cl' = [cl EXCEPT ![r] = [phase |-> "idle", slot |-> 1, result |-> "none"]]
    <3> HIDE DEF cl, ev, d, e
    <3> QED BY <1>4, <1>6, <1>14, <2>1, <2>2
  <2>4. Outside!Killed(r)
    BY <2>3 DEF Outside!Killed, Outside!Collect, Outside!Idle
  <2> QED BY <2>4 DEF Outside!RunNext
<1>21. CASE CheckCollision(r)
  <2>1. /\ PhaseOf(r)' = PhaseOf(r) /\ slot'[r] = slot[r] /\ ResultOf(r)' = ResultOf(r)
        /\ UNCHANGED disk
    BY <1>1, <1>21 DEF CheckCollision, ViewInv, memory
  <2> QED BY <1>1, <1>6, <1>11, <1>12, <2>1
<1>22. CASE OpenClaim(r) /\ pc'[r] = "claim"
  <2>1. /\ PhaseOf(r) = "preflight" /\ ResultOf(r)' = ResultOf(r) /\ slot'[r] = slot[r]
        /\ PhaseOf(r)' = "claim" /\ StageOnDisk(e) = "open"
    BY <1>1, <1>8, <1>15, <1>22 DEF OpenClaim, ViewInv, memory
  <2>2. StageOnDisk(d) = "none"
    <3>1. d.claim = "none" /\ slot[r] \notin StrayDirs /\ d = NoFiles(slot[r])
      BY <1>1, <1>22 DEF OpenClaim, SeenInv, Inv, ClaimInv, Mine
    <3>2. NoFiles(slot[r]).dir = (slot[r] \in StrayDirs)
      BY DEF NoFiles
    <3> QED BY <3>1, <3>2 DEF StageOnDisk
  <2>3. /\ cl[r].phase = "preflight" /\ ev[cl[r].slot].stage = "none"
        /\ ev' = [ev EXCEPT ![cl[r].slot].stage = "open"]
        /\ cl' = [cl EXCEPT ![r].phase = "claim"]
    <3> HIDE DEF cl, ev, d, e
    <3> QED BY <1>9, <1>10, <1>14, <2>1, <2>2
  <2>4. Outside!OpenClaim(r)
    BY <2>3 DEF Outside!OpenClaim, Outside!Move, Outside!SetStage
  <2> QED BY <2>4 DEF Outside!RunNext, Outside!CallStep
<1>23. CASE WriteClaim(r) /\ pc[r] = "claim" /\ pc'[r] = "mkdir"
  <2>1. /\ PhaseOf(r) = "claim" /\ ResultOf(r)' = ResultOf(r) /\ slot'[r] = slot[r]
        /\ PhaseOf(r)' = "mkdir" /\ StageOnDisk(d) = "open" /\ StageOnDisk(e) = "claimed"
    BY <1>1, <1>8, <1>15, <1>23 DEF WriteClaim, ViewInv, Looks, memory
  <2>2. /\ cl[r].phase = "claim" /\ ev' = [ev EXCEPT ![cl[r].slot].stage = "claimed"]
        /\ cl' = [cl EXCEPT ![r].phase = "mkdir"]
    <3> HIDE DEF cl, ev, d, e
    <3> QED BY <1>9, <1>10, <1>14, <2>1
  <2>3. Outside!WriteClaim(r)
    BY <2>2 DEF Outside!WriteClaim, Outside!Move, Outside!SetStage
  <2> QED BY <2>3 DEF Outside!RunNext, Outside!CallStep
<1>24. CASE MakeAttemptDir(r) /\ pc[r] = "mkdir" /\ pc'[r] = "clock"
  <2>1. /\ PhaseOf(r) = "mkdir" /\ ResultOf(r)' = ResultOf(r) /\ slot'[r] = slot[r]
        /\ PhaseOf(r)' = "setup" /\ StageOnDisk(d) = "claimed" /\ StageOnDisk(e) = "dir"
    BY <1>1, <1>8, <1>15, <1>24 DEF MakeAttemptDir, ViewInv, Looks, memory
  <2>2. /\ cl[r].phase = "mkdir" /\ ev' = [ev EXCEPT ![cl[r].slot].stage = "dir"]
        /\ cl' = [cl EXCEPT ![r].phase = "setup"]
    <3> HIDE DEF cl, ev, d, e
    <3> QED BY <1>9, <1>10, <1>14, <2>1
  <2>3. Outside!MakeAttemptDir(r)
    BY <2>2 DEF Outside!MakeAttemptDir, Outside!Move, Outside!SetStage
  <2> QED BY <2>3 DEF Outside!RunNext, Outside!CallStep
<1>25. CASE StartAttempt(r) /\ pc[r] = "clock" /\ pc'[r] = "first"
  <2>1. /\ PhaseOf(r) = "setup" /\ ResultOf(r)' = ResultOf(r) /\ slot'[r] = slot[r]
        /\ PhaseOf(r)' = "work" /\ UNCHANGED disk
    BY <1>1, <1>8, <1>15, <1>25, PcSets DEF StartAttempt, ViewInv, Looks
  <2>2. cl[r].phase = "setup" /\ ev' = ev /\ cl' = [cl EXCEPT ![r].phase = "work"]
    <3> HIDE DEF cl, ev, d, e
    <3> QED BY <1>1, <1>6, <1>9, <1>14, <2>1
  <2>3. Outside!OpenRunLog(r)
    BY <2>2 DEF Outside!OpenRunLog, Outside!Move
  <2> QED BY <2>3 DEF Outside!RunNext, Outside!CallStep
<1>26. CASE pc[r] \in Working /\ pc'[r] \in (Working \cup {"finalize"}) \ {"first"}
  <2>1. PhaseOf(r) = "work" /\ ResultOf(r) = "none" /\ StageOnDisk(d) = "dir"
    BY <1>26 DEF ViewInv, Looks, Working
  <2>2. slot'[r] = slot[r]
    BY <1>7, <1>8, <1>26
  <2>3. CASE pc'[r] \in Working
    <3>1. PhaseOf(r)' = "work" /\ ResultOf(r)' = "none" /\ StageOnDisk(e) = "dir"
      BY <1>8, <1>15, <2>3, PcSets DEF ViewInv, Working
    <3> QED BY <1>11, <1>12, <1>13, <2>1, <2>2, <3>1
  <2>4. CASE pc'[r] = "finalize"
    <3>1. PhaseOf(r)' = "seal" /\ ResultOf(r)' = log'[r].status /\ StageOnDisk(e) = "dir"
      BY <1>8, <1>15, <2>4, PcSets DEF ViewInv
    <3>2. log'[r].status \in Results
      BY <2>4, PcSets DEF Inv, RunnerInv, LogInv, Settled
    <3>3. PICK x \in Results : log'[r].status = x
      BY <3>2
    <3>4. /\ cl[r].phase = "work" /\ ev' = ev
          /\ cl' = [cl EXCEPT ![r].phase = "seal", ![r].result = x]
      <4> HIDE DEF cl, ev, d, e
      <4> QED BY <1>13, <1>14, <1>16, <2>1, <2>2, <3>1, <3>3
    <3>5. Outside!EndWork(r, x)
      BY <3>4 DEF Outside!EndWork
    <3> QED BY <3>5 DEF Outside!RunNext, Outside!CallStep
  <2> QED BY <1>26, <2>3, <2>4
<1>27. CASE pc[r] \in {"finalize", "inventory"} /\ pc'[r] \in {"inventory", "seal"} /\ UNCHANGED log
  <2>1. /\ slot'[r] = slot[r] /\ PhaseOf(r)' = PhaseOf(r) /\ ResultOf(r)' = ResultOf(r)
        /\ StageOnDisk(d) = "dir" /\ StageOnDisk(e) = "dir"
    BY <1>7, <1>8, <1>15, <1>27, PcSets DEF ViewInv, Looks
  <2> QED BY <1>11, <1>12, <1>13, <2>1
<1>28. CASE WriteSealedLog(r) /\ pc[r] = "seal" /\ pc'[r] = "digest"
  <2>1. /\ PhaseOf(r) = "seal" /\ slot'[r] = slot[r] /\ ResultOf(r) = log[r].status
        /\ PhaseOf(r)' = "sidecar" /\ ResultOf(r)' = log'[r].status
        /\ StageOnDisk(d) = "dir" /\ StageOnDisk(e) = "log"
    BY <1>7, <1>8, <1>15, <1>28, PcSets DEF ViewInv, Looks
  <2>2. log'[r].status = log[r].status
    <3>1. log'[r] = Sealed(r)
      BY <1>1, <1>28 DEF WriteSealedLog
    <3> QED BY <1>1, <3>1 DEF Sealed, Logs
  <2>3. /\ cl[r].phase = "seal" /\ ev' = [ev EXCEPT ![cl[r].slot].stage = "log"]
        /\ cl' = [cl EXCEPT ![r].phase = "sidecar"]
    <3> HIDE DEF cl, ev, d, e
    <3> QED BY <1>9, <1>10, <1>14, <2>1, <2>2
  <2>4. Outside!WriteSealedLog(r)
    BY <2>3 DEF Outside!WriteSealedLog, Outside!Move, Outside!SetStage
  <2> QED BY <2>4 DEF Outside!RunNext, Outside!CallStep
<1>29. CASE SealFails(r) /\ pc[r] \in Sealing /\ pc'[r] \in FailClosedStates
  <2>1. slot'[r] = slot[r] /\ Mine(r)' = e /\ log'[r] = log[r]
    BY <1>7, <1>8, <1>29, PcSets DEF SealFails
  <2>2. /\ ResultOf(r) = log[r].status /\ ResultOf(r)' = log[r].status
        /\ \/ e.log.journal = "sealed" /\ StageOnDisk(e) = "log" /\ PhaseOf(r)' = "sidecar"
           \/ e.log.journal = "none" /\ StageOnDisk(e) = "dir" /\ PhaseOf(r)' = "seal"
           \/ e.digest = e.log /\ e.log.journal = "sealed" /\ PhaseOf(r)' = "sync"
    BY <1>29, <2>1, PcSets DEF ViewInv, Looks, SealedEvidence, Mine
  <2>3. CASE pc[r] = "digest"
    <3>1. /\ e \in {d, [d EXCEPT !.digest = Garbled]} /\ d.log.journal = "sealed"
          /\ d.digest = NoLog
      BY <1>1, <1>8, <1>29, <2>3, PcSets DEF SealFails, SealDebris, Inv, RunnerInv, HeldInv, SeenInv
    <3>2. e.log.journal = "sealed" /\ e.digest # e.log
      <4>1. NoLog.journal = "none" /\ Garbled.journal = "none"
        BY DEF NoLog, Garbled
      <4>2. e.log = d.log /\ e.digest \in {NoLog, Garbled}
        BY <1>1, <3>1 DEF Disk
      <4> QED BY <3>1, <4>1, <4>2
    <3>3. PhaseOf(r) = "sidecar" /\ StageOnDisk(d) = "log"
      BY <2>3 DEF ViewInv, Looks
    <3> QED BY <1>11, <1>12, <1>13, <2>1, <2>2, <3>2, <3>3
  <2>4. CASE pc[r] = "sync"
    <3>1. e = d /\ PhaseOf(r) = "sync"
      BY <1>1, <1>29, <2>4 DEF SealFails, SealDebris, ViewInv, Looks
    <3>2. d.digest = d.log /\ d.log.journal = "sealed"
      BY <2>4 DEF Inv, RunnerInv, HeldInv, SealedEvidence, Mine
    <3>3. StageOnDisk(d) = "sealed"
      BY <2>4 DEF ViewInv, Looks
    <3>4. PhaseOf(r)' = "sync"
      BY <2>2, <3>1, <3>2, <3>3
    <3> QED BY <1>6, <1>11, <1>12, <2>1, <2>2, <3>1, <3>4
  <2>5. CASE pc[r] \notin {"digest", "sync"}
    <3>1. PhaseOf(r) = "seal" /\ StageOnDisk(d) = "dir"
      BY <1>29, <2>5 DEF ViewInv, Looks
    <3>5. ~(e.digest = e.log /\ e.log.journal = "sealed")
      <4>1. d.digest = NoLog
        BY <1>8, <1>29, <2>5, PcSets DEF SeenInv
      <4>2. e.digest = NoLog
        BY <1>29, <2>5, <4>1, AttemptKept, PcSets
      <4> QED BY <4>2 DEF NoLog
    <3>2. CASE StageOnDisk(e) = "dir" /\ PhaseOf(r)' = "seal"
      BY <1>11, <1>12, <1>13, <2>1, <2>2, <3>1, <3>2
    <3>3. CASE StageOnDisk(e) = "log" /\ PhaseOf(r)' = "sidecar"
      <4>1. /\ cl[r].phase = "seal" /\ ev' = [ev EXCEPT ![cl[r].slot].stage = "log"]
            /\ cl' = [cl EXCEPT ![r].phase = "sidecar"]
        <5> HIDE DEF cl, ev, d, e
        <5> QED BY <1>9, <1>10, <1>14, <2>1, <2>2, <3>1, <3>3
      <4>2. Outside!WriteSealedLog(r)
        BY <4>1 DEF Outside!WriteSealedLog, Outside!Move, Outside!SetStage
      <4> QED BY <4>2 DEF Outside!RunNext, Outside!CallStep
    <3> QED BY <2>2, <3>2, <3>3, <3>5
  <2> QED BY <2>3, <2>4, <2>5
<1>30. CASE FailClosed(r) /\ pc[r] \in FailClosedStates /\ pc'[r] \in {"fail_digest", "run_error"}
  <2>1. slot'[r] = slot[r] /\ Mine(r)' = e /\ log'[r] = ClosedLog(r)
    BY <1>1, <1>7, <1>8, <1>30 DEF FailClosed
  <2>2. /\ PhaseOf(r) \in {"seal", "sidecar", "sync"} /\ StageOnDisk(d) \in {"dir", "log", "sealed"}
        /\ PhaseOf(r)' = "run_error" /\ ResultOf(r)' = ClosedLog(r).status
    BY <1>30, <2>1, PcSets DEF ViewInv, Looks
  <2>3. ClosedLog(r).status \in Failures /\ ClosedLog(r).journal \in FailClosedStates
    <3> DEFINE c == IF pc[r] = "failed_closed" THEN "journal" ELSE "budget"
               f == Failed(log[r], c)
    <3>1. c \in Categories \ {"none"}
      BY DEF Categories
    <3>2. f \in Logs /\ f.status \in Failures
      <4> HIDE DEF c
      <4> QED BY <1>1, <3>1, FailedFacts, LogTypes
    <3>3. ClosedLog(r) = [f EXCEPT !.journal = pc[r], !.final = seq[r]]
      BY DEF ClosedLog
    <3> HIDE DEF f
    <3> QED BY <1>30, <3>2, <3>3 DEF Logs
  <2>4. ev' = [ev EXCEPT ![slot[r]].stage = "spoiled"] \/ ev' = ev
    <3>1. d.claim = "written" /\ d.dir
      BY <1>8, <1>30, PcSets DEF SeenInv
    <3>2. CASE SetDisk(r, Replaced(d, ClosedLog(r)))
      <4>1. \A l : /\ Replaced(d, l).claim = d.claim /\ Replaced(d, l).dir = d.dir
                  /\ Replaced(d, l).log = l
        BY <1>1 DEF Replaced, Disk
      <4>2. e = Replaced(d, ClosedLog(r))
        BY <1>1, <3>2
      <4>3. e.claim = "written" /\ e.dir /\ e.log.journal \in FailClosedStates
        <5> HIDE DEF d, e
        <5> QED BY <2>3, <3>1, <4>1, <4>2
      <4>4. StageOnDisk(e) = "spoiled"
        BY <4>3 DEF StageOnDisk
      <4>5. e.digest = d.digest
        BY <1>30, AttemptKept, PcSets
      <4>6. CASE StageOnDisk(d) = "sealed"
        <5>1. EvidenceOnDisk(e) = [EvidenceOnDisk(d) EXCEPT !.stage = "spoiled"]
          BY <4>4, <4>5, <4>6, StillSaid
        <5> HIDE DEF ev, d, e
        <5> QED BY <1>2, <5>1
      <4>7. CASE StageOnDisk(d) # "sealed"
        <5>1. ~SealedEvidence(slot[r])
          BY <3>1, <4>7, PcSets DEF StageOnDisk, SealedEvidence, Mine
        <5>2. d.digest.journal # "sealed"
          BY <1>30, <5>1 DEF SeenInv, NoLog, Garbled
        <5>3. /\ EvidenceOnDisk(d) = [stage |-> StageOnDisk(d), status |-> "none", bound |-> FALSE,
                                      attested |-> FALSE]
              /\ EvidenceOnDisk(e) = [stage |-> "spoiled", status |-> "none", bound |-> FALSE,
                                      attested |-> FALSE]
          BY <4>4, <4>5, <5>2, Unsaid
        <5> HIDE DEF ev, d, e
        <5>4. [EvidenceOnDisk(d) EXCEPT !.stage = "spoiled"] = EvidenceOnDisk(e)
          BY <5>3, Restaged
        <5> QED BY <1>2, <5>4
      <4> QED BY <4>6, <4>7
    <3>3. CASE \E tmp \in {TRUE, d.tmp} : SetDisk(r, [d EXCEPT !.tmp = tmp])
      <4>1. e.claim = d.claim /\ e.dir = d.dir /\ e.log = d.log /\ e.digest = d.digest
        BY <1>1, <3>3 DEF Disk
      <4>2. EvidenceOnDisk(e) = EvidenceOnDisk(d)
        BY <4>1 DEF StageOnDisk, EvidenceOnDisk
      <4> QED BY <1>6, <4>2
    <3> QED BY <1>30, <3>2, <3>3 DEF FailClosed
  <2>5. PICK x \in Failures : ClosedLog(r).status = x
    BY <2>3
  <2>6. /\ cl[r].phase \in {"seal", "sidecar", "sync"} /\ cl[r].slot = slot[r]
        /\ cl' = [cl EXCEPT ![r].phase = "run_error", ![r].result = x]
    <3> HIDE DEF cl, ev, d, e
    <3> QED BY <1>14, <1>16, <2>1, <2>2, <2>5
  <2>7. Outside!SealFails(r)
    BY <2>4, <2>6 DEF Outside!SealFails, Outside!SetStage, Outside!Failures, Failures
  <2> QED BY <2>7 DEF Outside!RunNext, Outside!CallStep
<1>31. CASE WriteDigest(r) /\ pc[r] = "digest" /\ pc'[r] = "sync"
  <2>1. slot'[r] = slot[r] /\ log'[r] = log[r] /\ e = [d EXCEPT !.digest = d.log]
    BY <1>1, <1>31 DEF WriteDigest, memory
  <2>2. /\ PhaseOf(r) = "sidecar" /\ ResultOf(r) = log[r].status /\ ResultOf(r)' = log[r].status
        /\ PhaseOf(r)' = "sync"
    BY <1>31, <2>1 DEF ViewInv, Looks
  <2>3. /\ d.claim = "written" /\ d.dir /\ d.log = log[r] /\ d.log.journal = "sealed"
        /\ d.log.bound = (r \notin Foreign)
    BY <1>8, <1>31, PcSets DEF SeenInv, Inv, RunnerInv, HeldInv
  <2>4. EvidenceOnDisk(e) = [stage |-> "sealed", status |-> log[r].status,
                             bound |-> r \notin Foreign, attested |-> FALSE]
    <3>1. e.claim = "written" /\ e.dir /\ e.log = log[r] /\ e.digest = e.log
      BY <1>1, <2>1, <2>3 DEF Disk
    <3>2. StageOnDisk(e) = "sealed"
      BY <2>3, <3>1, PcSets DEF StageOnDisk
    <3>3. StageOnDisk(e) \in {"sealed", "spoiled"} /\ e.digest.journal = "sealed"
      BY <2>3, <3>1, <3>2
    <3>4. e.digest.status = log[r].status /\ e.digest.bound = (r \notin Foreign)
      BY <2>3, <3>1
    <3> QED BY <3>2, <3>3, <3>4 DEF EvidenceOnDisk
  <2>5. (FALSE /\ cl[r].result = Outside!Success) = FALSE
    OBVIOUS
  <2>6. /\ cl[r].phase = "sidecar"
        /\ ev' = [ev EXCEPT ![cl[r].slot] = [stage |-> "sealed", status |-> cl[r].result,
                                             bound |-> r \notin Foreign, attested |-> FALSE]]
        /\ cl' = [cl EXCEPT ![r].phase = "sync"]
    <3> HIDE DEF cl, ev, d, e
    <3>1. cl' = [cl EXCEPT ![r].phase = "sync"]
      BY <1>9, <2>1, <2>2
    <3> QED BY <1>2, <1>14, <2>2, <2>4, <3>1
  <2>7. Outside!WriteSidecar(r)
    BY <2>5, <2>6 DEF Outside!WriteSidecar, Outside!Move, Outside!Success
  <2> QED BY <2>7 DEF Outside!RunNext, Outside!CallStep
<1>33. CASE Return(r) /\ pc[r] = "sync" /\ pc'[r] \in {"returned", "run_error"}
  <2>1. /\ slot'[r] = slot[r] /\ log'[r] = log[r] /\ UNCHANGED disk
        /\ pc'[r] = IF log[r].status = Success THEN "returned" ELSE "run_error"
    BY <1>1, <1>33 DEF Return, memory
  <2>2. /\ PhaseOf(r) = "sync" /\ ResultOf(r) = log[r].status /\ ResultOf(r)' = log[r].status
        /\ PhaseOf(r)' = IF log[r].status = Success THEN "returned" ELSE "run_error"
    BY <1>33, <2>1 DEF ViewInv, Looks
  <2>3. /\ cl[r].phase = "sync" /\ ev' = ev
        /\ cl' = [cl EXCEPT ![r].phase = IF cl[r].result = "completed_ungraded"
                                         THEN "returned" ELSE "run_error"]
    <3>1. PICK p : p = IF log[r].status = Success THEN "returned" ELSE "run_error"
      OBVIOUS
    <3> HIDE DEF cl, ev, d, e
    <3>2. cl' = [cl EXCEPT ![r].phase = p]
      BY <1>9, <2>1, <2>2, <3>1
    <3> QED BY <1>1, <1>6, <1>14, <2>1, <2>2, <3>1, <3>2 DEF Success
  <2>4. Outside!Return(r)
    BY <2>3 DEF Outside!Return, Outside!Move, Outside!Success
  <2> QED BY <2>4 DEF Outside!RunNext, Outside!CallStep
<1>32. CASE FailDigest(r) /\ pc[r] = "fail_digest" /\ pc'[r] = "run_error"
  <2>1. /\ slot'[r] = slot[r] /\ log'[r] = log[r] /\ PhaseOf(r)' = PhaseOf(r)
        /\ ResultOf(r)' = ResultOf(r) /\ StageOnDisk(d) = "spoiled"
    BY <1>32 DEF FailDigest, ViewInv, Looks, memory
  <2>2. d.claim = "written" /\ d.dir /\ d.log.journal \in FailClosedStates
    BY <1>8, <1>32, PcSets DEF SeenInv
  <2>3. /\ e.claim = d.claim /\ e.dir = d.dir /\ e.log = d.log
        /\ e.digest = d.digest \/ (d.digest = NoLog /\ e.digest \in {NoLog, Garbled, d.log})
    BY <1>1, <1>32 DEF FailDigest, Disk
  <2>4. StageOnDisk(e) = "spoiled"
    BY <2>2, <2>3 DEF StageOnDisk
  <2>5. EvidenceOnDisk(e) = EvidenceOnDisk(d)
    <3>1. CASE e.digest = d.digest
      BY <2>1, <2>4, <3>1 DEF EvidenceOnDisk
    <3>2. CASE d.digest = NoLog /\ e.digest \in {NoLog, Garbled, d.log}
      <4>1. d.digest.journal # "sealed" /\ e.digest.journal # "sealed"
        BY <2>2, <3>2, PcSets DEF NoLog, Garbled
      <4> QED BY <2>1, <2>4, <4>1, Unsaid
    <3> QED BY <2>3, <3>1, <3>2
  <2> QED BY <1>6, <1>11, <1>12, <2>1, <2>5
<1> QED BY <1>17, <1>18, <1>19, <1>20, <1>21, <1>22, <1>23, <1>24, <1>25, <1>26, <1>27, <1>28,
           <1>29, <1>30, <1>31, <1>32, <1>33, Moves

LEMMA RefineInit == Init => Outside!RunInit
<1> SUFFICES ASSUME Init PROVE Outside!RunInit
  OBVIOUS
<1>1. \A s \in Slots : EvidenceOnDisk(disk[s])
        = [stage |-> IF s \in StrayDirs THEN "stray" ELSE "none", status |-> "none",
           bound |-> FALSE, attested |-> FALSE]
  <2> SUFFICES ASSUME NEW s \in Slots
               PROVE  EvidenceOnDisk(disk[s])
                        = [stage |-> IF s \in StrayDirs THEN "stray" ELSE "none",
                           status |-> "none", bound |-> FALSE, attested |-> FALSE]
    OBVIOUS
  <2>1. disk[s] = NoFiles(s)
    BY DEF Init
  <2>2. NoFiles(s).claim = "none" /\ NoFiles(s).dir = (s \in StrayDirs)
    BY DEF NoFiles
  <2>3. StageOnDisk(disk[s]) = IF s \in StrayDirs THEN "stray" ELSE "none"
    BY <2>1, <2>2 DEF StageOnDisk
  <2> QED BY <2>3, Unsaid
<1>2. \A r \in Runners : PhaseOf(r) = "idle" /\ slot[r] = 1 /\ ResultOf(r) = "none"
  BY PcSets DEF Init, PhaseOf, ResultOf
<1> QED BY <1>1, <1>2 DEF Outside!RunInit, Outside!Blank, Outside!Idle, Outside!Slots, Slots

\* Whatever fails inside an attempt, callers and rivals see a step of SlotRun or
\* nothing: SlotRun is what execute_plan promises, the attempt that is taken back
\* after it could be read as sealed included.
THEOREM ImplementsSlotRunCorrect == Spec => ImplementsSlotRun
<1> DEFINE Seen == \A r \in Runners : SeenInv(r)
           View == \A r \in Runners : ViewInv(r)
<1>1. Init => StrayInv /\ Seen
  <2> SUFFICES ASSUME Init PROVE StrayInv /\ Seen
    OBVIOUS
  <2>1. \A s \in Slots : disk[s].claim = "none"
    BY DEF Init, NoFiles
  <2>2. \A r \in Runners : pc[r] = "idle"
    BY DEF Init
  <2> QED BY <2>1, <2>2, PcSets, StrayDirsAssumption DEF StrayInv, SeenInv, Holding, Logging, Slots
<1>2. TypeOK /\ TypeOK' /\ Inv /\ StrayInv /\ Seen /\ [Next]_vars => StrayInv' /\ Seen'
  <2> SUFFICES ASSUME TypeOK, TypeOK', Inv, StrayInv, Seen, [Next]_vars
               PROVE  StrayInv' /\ Seen'
    OBVIOUS
  <2>1. ASSUME NEW r \in Runners, Step(r)
        PROVE  StrayInv' /\ Seen'
    <3>1. StrayInv'
      BY <2>1, StrayStep DEF Inv
    <3>2. SeenInv(r)'
      BY <2>1, SeenKept
    <3>3. \A q \in Runners \ {r} : SeenInv(q)'
      BY <2>1, SeenOthers DEF Inv
    <3> QED BY <3>1, <3>2, <3>3
  <2>2. CASE UNCHANGED vars
    BY <2>2 DEF vars, memory, StrayInv, SeenInv, SealedEvidence, Mine
  <2> QED BY <2>1, <2>2 DEF Next, Step
<1>3. TypeOK /\ Inv /\ Seen => View
  BY ViewHolds
<1>4. /\ TypeOK /\ Inv /\ StrayInv /\ Seen /\ View
      /\ TypeOK' /\ Inv' /\ View' /\ [Next]_vars
      => Outside!RunNext \/ UNCHANGED Outside!runVars
  <2> SUFFICES ASSUME TypeOK, Inv, StrayInv, Seen, View, TypeOK', Inv', View', [Next]_vars
               PROVE  Outside!RunNext \/ UNCHANGED Outside!runVars
    OBVIOUS
  <2>1. ASSUME NEW r \in Runners, Step(r)
        PROVE  Outside!RunNext \/ UNCHANGED Outside!runVars
    <3>1. \A q \in Runners \ {r} : PhaseOf(q)' = PhaseOf(q) /\ ResultOf(q)' = ResultOf(q)
      BY <2>1, SeenOthers DEF Inv
    <3> QED BY <2>1, <3>1, RefineStep
  <2>2. CASE UNCHANGED vars
    BY <2>2 DEF vars, memory, Outside!runVars, PhaseOf, ResultOf, Mine
  <2> QED BY <2>1, <2>2 DEF Next, Step
<1> QED BY <1>1, <1>2, <1>3, <1>4, RefineInit, ExecutorCorrect, PTL
        DEF Spec, ImplementsSlotRun, Outside!RunSpec

-----------------------------------------------------------------------------
(***************************************************************************)
(* What can be proved of CallsEnd: a call of execute_plan has a number of  *)
(* steps left that is bounded by the script and the turns.  Every step it  *)
(* takes uses up at least one, whatever fails and wherever.                *)
(***************************************************************************)

TurnsLeft(calls) == IF Len(calls) < MaxTurns THEN MaxTurns - Len(calls) ELSE 0

\* The allowance for the rest of the script, finalization included, before the step at i.
Rest(i, calls) == 12 + 5 * (Len(Script) - i) + 10 * TurnsLeft(calls)

\* What a checkpoint still has before it, beyond the two steps of its own.
Pause(i, calls) ==
    CASE Script[i] = "converse" /\ (calls = <<>> \/ calls[Len(calls)] = "attempted") -> 10
      [] Script[i] = "converse" /\ calls # <<>> /\ calls[Len(calls)] # "attempted"   -> 3
      [] Script[i] # "converse" -> 0

\* More than the guarded region and all that follows it.
Region == 12 + 5 * Len(Script) + 10 * MaxTurns

\* Steps left at a program point, at most.
StepsAt(point, rest, pause) ==
    CASE point = "preflight" -> Region + 8
      [] point = "allocate"  -> Region + 7
      [] point = "claim"     -> Region + 6
      [] point = "mkdir"     -> Region + 5
      [] point = "clock"     -> Region + 4
      [] point = "first"     -> Region + 3
      [] point = "created"   -> Region + 2
      [] point = "setup"     -> Region + 1
      [] point = "work"      -> rest + 4
      [] point = "save"      -> rest + 3 + pause
      [] point = "append"    -> rest + 2 + pause
      [] point = "answer"    -> rest + 11
      [] point = "raise"     -> rest + 1
      [] point = "scrub"     -> 12
      [] point = "close"     -> 11
      [] point = "tally"     -> 10
      [] point = "finalize"  -> 9
      [] point = "inventory" -> 8
      [] point = "seal"      -> 7
      [] point = "digest"    -> 6
      [] point = "sync"      -> 5
      [] point \in FailClosedStates          -> 4
      [] point = "fail_digest"               -> 3
      [] point \in {"returned", "run_error"} -> 2
      [] point \in {"error", "interrupt"}    -> 1
      [] point = "idle"                      -> 0

StepsLeft(r) ==
    StepsAt(pc[r],
            IF pc[r] \in Guarded THEN Rest(step[r], log[r].calls) ELSE 0,
            IF pc[r] \in Guarded THEN Pause(step[r], log[r].calls) ELSE 0)

MaxSteps == Region + 8

LEMMA StepsAtPoint ==
    ASSUME NEW rest, NEW pause
    PROVE  /\ StepsAt("preflight", rest, pause) = Region + 8
           /\ StepsAt("allocate", rest, pause) = Region + 7
           /\ StepsAt("claim", rest, pause) = Region + 6
           /\ StepsAt("mkdir", rest, pause) = Region + 5
           /\ StepsAt("clock", rest, pause) = Region + 4
           /\ StepsAt("first", rest, pause) = Region + 3
           /\ StepsAt("created", rest, pause) = Region + 2
           /\ StepsAt("setup", rest, pause) = Region + 1
           /\ StepsAt("work", rest, pause) = rest + 4
           /\ StepsAt("save", rest, pause) = rest + 3 + pause
           /\ StepsAt("append", rest, pause) = rest + 2 + pause
           /\ StepsAt("answer", rest, pause) = rest + 11
           /\ StepsAt("raise", rest, pause) = rest + 1
           /\ StepsAt("scrub", rest, pause) = 12
           /\ StepsAt("close", rest, pause) = 11
           /\ StepsAt("tally", rest, pause) = 10
           /\ StepsAt("finalize", rest, pause) = 9
           /\ StepsAt("inventory", rest, pause) = 8
           /\ StepsAt("seal", rest, pause) = 7
           /\ StepsAt("digest", rest, pause) = 6
           /\ StepsAt("sync", rest, pause) = 5
           /\ StepsAt("failed_closed", rest, pause) = 4
           /\ StepsAt("failed_closed_deadline", rest, pause) = 4
           /\ StepsAt("fail_digest", rest, pause) = 3
           /\ StepsAt("returned", rest, pause) = 2
           /\ StepsAt("run_error", rest, pause) = 2
           /\ StepsAt("error", rest, pause) = 1
           /\ StepsAt("interrupt", rest, pause) = 1
           /\ StepsAt("idle", rest, pause) = 0
BY DEF StepsAt, FailClosedStates

\* The numbers are numbers.
LEMMA StepsTypes ==
    /\ Len(Script) \in Nat /\ Region \in Nat /\ MaxTurns \in Nat
    /\ \A i \in Steps : i \in 1..Len(Script)
    /\ Script[1] # "converse"
<1>1. MaxTurns \in Nat
  BY MaxTurnsAssumption
<1>2. CASE ChangeLoop
  <2>1. Script = <<"stage", "connect", "converse", "capture", "capture", "freeze",
                   "reveal", "converse", "capture", "capture", "complete">>
    BY <1>2 DEF Script
  <2> QED BY <1>1, <2>1 DEF Steps, Region
<1>3. CASE ~ChangeLoop
  <2>1. Script = <<"stage", "connect", "converse", "capture", "capture", "freeze",
                   "capture", "capture", "complete">>
    BY <1>3 DEF Script
  <2> QED BY <1>1, <2>1 DEF Steps, Region
<1> QED BY <1>2, <1>3

LEMMA RestType ==
    ASSUME NEW i \in Steps, NEW calls \in Seq(Answers \cup {"attempted"})
    PROVE  /\ Rest(i, calls) \in 12..(Region - 5)
           /\ Pause(i, calls) \in {0, 3, 10}
           /\ Script[i] = "converse" \/ Pause(i, calls) = 0
<1>1. TurnsLeft(calls) \in 0..MaxTurns
  BY StepsTypes DEF TurnsLeft
<1>2. Rest(i, calls) \in 12..(Region - 5)
  BY <1>1, StepsTypes DEF Rest, Region
<1>3. Pause(i, calls) \in {0, 3, 10} /\ (Script[i] = "converse" \/ Pause(i, calls) = 0)
  BY DEF Pause
<1> QED BY <1>2, <1>3

LEMMA StepsLeftType ==
    ASSUME TypeOK, NEW r \in Runners, RunnerInv(r)
    PROVE  StepsLeft(r) \in 0..MaxSteps /\ (StepsLeft(r) = 0 <=> pc[r] = "idle")
<1> DEFINE rest  == IF pc[r] \in Guarded THEN Rest(step[r], log[r].calls) ELSE 0
           pause == IF pc[r] \in Guarded THEN Pause(step[r], log[r].calls) ELSE 0
           Goal  == StepsLeft(r) \in 0..MaxSteps /\ (StepsLeft(r) = 0 <=> pc[r] = "idle")
<1> SUFFICES Goal
  OBVIOUS
<1>1. pc[r] \in Pcs /\ Region \in Nat
  BY StepsTypes DEF TypeOK
<1>2. pc[r] \in Guarded => rest \in 12..(Region - 5) /\ pause \in {0, 3, 10}
  <2> SUFFICES ASSUME pc[r] \in Guarded
               PROVE  rest \in 12..(Region - 5) /\ pause \in {0, 3, 10}
    OBVIOUS
  <2>1. step[r] \in Steps /\ log[r].calls \in Seq(Answers \cup {"attempted"})
    BY DEF TypeOK, Logs, RunnerInv, StepInv
  <2> QED BY <2>1, RestType
<1>3. StepsLeft(r) = StepsAt(pc[r], rest, pause)
  BY DEF StepsLeft
<1> HIDE DEF rest, pause
<1>4. CASE pc[r] \in Guarded
  <2>1. StepsLeft(r) \in {rest + k : k \in {1, 4, 11}} \cup {rest + k + pause : k \in 2..3}
    BY <1>1, <1>2, <1>3, <1>4, StepsAtPoint DEF Guarded
  <2> QED BY <1>1, <1>2, <1>4, <2>1, PcSets DEF MaxSteps
<1>5. CASE pc[r] \in Allocating \cup Setup
  <2>1. StepsLeft(r) \in {Region + k : k \in 1..8}
    BY <1>1, <1>3, <1>5, StepsAtPoint DEF Allocating, Setup
  <2> QED BY <1>1, <1>5, <2>1, PcSets DEF MaxSteps
<1>6. CASE pc[r] \in Finalizing \cup Sealing \cup FailClosedStates \cup {"fail_digest"} \cup Outcomes
  <2>1. StepsLeft(r) \in 1..12
    BY <1>3, <1>6, StepsAtPoint DEF Finalizing, Sealing, FailClosedStates, Outcomes
  <2>2. Region >= 12
    BY StepsTypes DEF Region
  <2> QED BY <1>1, <1>6, <2>1, <2>2, PcSets DEF MaxSteps
<1>7. CASE pc[r] = "idle"
  BY <1>1, <1>3, <1>7, StepsAtPoint DEF MaxSteps
<1> HIDE DEF Goal
<1> QED BY <1>1, <1>4, <1>5, <1>6, <1>7 DEF Pcs

LEMMA OwnStepsFall ==
    ASSUME TypeOK, TypeOK', NEW r \in Runners, RunnerInv(r),
           Proceed(r) \/ \E how \in {"error", "interrupt"} : Escapes(r, how)
    PROVE  StepsLeft(r)' < StepsLeft(r)
<1> DEFINE rest  == IF pc[r] \in Guarded THEN Rest(step[r], log[r].calls) ELSE 0
           pause == IF pc[r] \in Guarded THEN Pause(step[r], log[r].calls) ELSE 0
           next  == IF pc'[r] \in Guarded THEN Rest(step'[r], log'[r].calls) ELSE 0
           then  == IF pc'[r] \in Guarded THEN Pause(step'[r], log'[r].calls) ELSE 0
           Goal  == StepsLeft(r)' < StepsLeft(r)
<1> SUFFICES Goal
  OBVIOUS
<1> USE DEF Goto, SetLog
<1>1. /\ StepsLeft(r) = StepsAt(pc[r], rest, pause)
      /\ StepsLeft(r)' = StepsAt(pc'[r], next, then)
  BY DEF StepsLeft
<1>2. /\ pc \in [Runners -> Pcs] /\ step \in [Runners -> Steps \cup {0}]
      /\ log \in [Runners -> Logs] /\ log[r] \in Logs
      /\ log[r].calls \in Seq(Answers \cup {"attempted"})
      /\ log'[r].calls \in Seq(Answers \cup {"attempted"})
  BY DEF TypeOK, Logs
<1>3. StepInv(r) /\ LogInv(r)
  BY DEF RunnerInv
<1>4. Region \in Nat /\ Region >= 12
  BY StepsTypes DEF Region
<1>5. pc[r] \in Guarded => /\ step[r] \in Steps
                           /\ rest = Rest(step[r], log[r].calls) /\ rest \in 12..(Region - 5)
                           /\ pause = Pause(step[r], log[r].calls) /\ pause \in {0, 3, 10}
  <2>1. pc[r] \in Guarded => step[r] \in Steps
    BY <1>2, <1>3 DEF StepInv
  <2> QED BY <1>2, <2>1, RestType
<1>6. pc'[r] \in Guarded /\ step'[r] \in Steps =>
        /\ next = Rest(step'[r], log'[r].calls) /\ next \in 12..(Region - 5)
        /\ then = Pause(step'[r], log'[r].calls)
        /\ Script[step'[r]] # "converse" => then = 0
        /\ then \in {0, 3, 10}
  BY <1>2, RestType
<1> HIDE DEF rest, pause, next, then
<1>7. CASE \/ CheckCollision(r) \/ OpenClaim(r) \/ WriteClaim(r) \/ MakeAttemptDir(r)
           \/ StartAttempt(r) \/ WriteFirstLog(r) \/ AppendCreated(r)
  <2>1. \/ pc[r] = "preflight" /\ pc'[r] = "allocate"
        \/ pc[r] = "allocate" /\ pc'[r] = "claim"
        \/ pc[r] = "claim" /\ pc'[r] = "mkdir"
        \/ pc[r] = "mkdir" /\ pc'[r] = "clock"
        \/ pc[r] = "clock" /\ pc'[r] = "first"
        \/ pc[r] = "first" /\ pc'[r] = "created"
        \/ pc[r] = "created" /\ pc'[r] = "setup"
    BY <1>2, <1>7 DEF CheckCollision, OpenClaim, WriteClaim, MakeAttemptDir, StartAttempt,
       WriteFirstLog, AppendCreated
  <2>2. \E k \in 2..8 : StepsLeft(r) = Region + k /\ StepsLeft(r)' = Region + (k - 1)
    BY <1>1, <2>1, StepsAtPoint
  <2> QED BY <1>4, <2>2
<1>8. CASE \/ ClaimRefused(r) \/ SetupFails(r)
           \/ \E how \in {"error", "interrupt"} : Escapes(r, how)
  <2>1. \/ pc[r] \in Allocating /\ pc'[r] \in {"error", "interrupt"}
        \/ pc[r] \in Setup /\ pc'[r] \in {"finalize", "interrupt"}
        \/ pc[r] \in Finalizing \cup {"finalize", "returned", "run_error"} /\ pc'[r] = "interrupt"
    BY <1>2, <1>8 DEF ClaimRefused, SetupFails, Escapes, Allocating, Setup
  <2>2. CASE pc[r] \in Allocating \cup Setup
    <3>1. StepsLeft(r) \in {Region + k : k \in 1..8}
      BY <1>1, <1>4, <2>2, StepsAtPoint DEF Allocating, Setup
    <3>2. StepsLeft(r)' \in {1, 9}
      BY <1>1, <2>1, <2>2, PcSets, StepsAtPoint
    <3> QED BY <1>4, <3>1, <3>2
  <2>3. CASE pc[r] \in Finalizing \cup {"finalize", "returned", "run_error"}
    <3>1. StepsLeft(r) \in 2..12
      BY <1>1, <2>3, StepsAtPoint DEF Finalizing
    <3>2. StepsLeft(r)' = 1
      BY <1>1, <2>1, <2>3, PcSets, StepsAtPoint
    <3> QED BY <3>1, <3>2
  <2> QED BY <2>1, <2>2, <2>3
<1>9. CASE FinishSetup(r)
  <2>1. pc[r] = "setup" /\ pc'[r] = "work" /\ step'[r] = 1
    BY <1>2, <1>9 DEF FinishSetup
  <2>2. StepsLeft(r) = Region + 1 /\ StepsLeft(r)' = next + 4
    BY <1>1, <2>1, StepsAtPoint
  <2> QED BY <1>4, <1>6, <2>1, <2>2, ScriptFacts DEF Guarded
<1>10. CASE Stage(r) \/ Connect(r) \/ Reveal(r) \/ Capture(r) \/ Freeze(r)
  <2>1. /\ pc[r] = "work" /\ pc'[r] \in {"save", "append"} /\ step'[r] = step[r]
        /\ step[r] \in Steps /\ Script[step[r]] # "converse"
        /\ log'[r].calls = log[r].calls
    BY <1>2, <1>10 DEF Stage, Connect, Reveal, Capture, Freeze, At, memory, Logs
  <2>2. next = rest /\ then = 0
    BY <1>5, <1>6, <2>1 DEF Guarded
  <2>3. StepsLeft(r) = rest + 4 /\ StepsLeft(r)' \in {rest + 3 + 0, rest + 2 + 0}
    BY <1>1, <2>1, <2>2, StepsAtPoint
  <2> QED BY <1>5, <2>1, <2>3 DEF Guarded
<1>11. CASE Ask(r)
  <2>1. /\ pc[r] = "work" /\ pc'[r] = "save" /\ step'[r] = step[r] /\ step[r] \in Steps
        /\ log'[r].calls = Append(log[r].calls, "attempted")
        /\ Len(log[r].calls) < MaxTurns - Reserved(step[r])
    BY <1>2, <1>11 DEF Ask, At, Logs
  <2>2. next = rest - 10
    <3>1. Len(log'[r].calls) = Len(log[r].calls) + 1 /\ Len(log[r].calls) \in Nat
      BY <1>2, <2>1
    <3>2. TurnsLeft(log'[r].calls) = TurnsLeft(log[r].calls) - 1 /\ TurnsLeft(log[r].calls) \in Nat
      BY <2>1, <3>1, StepsTypes DEF TurnsLeft, Reserved
    <3>3. step[r] \in Nat
      BY <2>1, ScriptFacts
    <3>4. Rest(step'[r], log'[r].calls)
            = 12 + 5 * (Len(Script) - step[r]) + 10 * (TurnsLeft(log[r].calls) - 1)
      BY <2>1, <3>2 DEF Rest
    <3>5. Rest(step'[r], log'[r].calls) = Rest(step[r], log[r].calls) - 10
      BY <3>2, <3>3, <3>4, StepsTypes DEF Rest
    <3> QED BY <1>5, <1>6, <2>1, <3>5 DEF Guarded
  <2>3. StepsLeft(r) = rest + 4 /\ StepsLeft(r)' = next + 3 + then
    BY <1>1, <2>1, StepsAtPoint
  <2> QED BY <1>5, <1>6, <2>1, <2>2, <2>3 DEF Guarded

<1>12. ASSUME NEW answer \in Answers, Answer(r, answer)
       PROVE  Goal
  <2>1. /\ pc[r] = "answer" /\ pc'[r] = "save" /\ step'[r] = step[r]
        /\ step[r] \in Steps /\ Script[step[r]] = "converse" /\ log[r].calls # <<>>
        /\ log'[r].calls = [log[r].calls EXCEPT ![Len(log[r].calls)] = answer]
    BY <1>2, <1>3, <1>12 DEF Answer, Logs, StepInv, Guarded
  <2>2. /\ Len(log'[r].calls) = Len(log[r].calls)
        /\ log'[r].calls # <<>> /\ log'[r].calls[Len(log'[r].calls)] # "attempted"
    <3>1. Len(log[r].calls) \in Nat \ {0} /\ answer # "attempted"
      BY <1>2, <2>1 DEF Answers
    <3>2. Len(log'[r].calls) = Len(log[r].calls)
      BY <1>2, <2>1
    <3>3. log'[r].calls[Len(log[r].calls)] = answer
      BY <1>2, <2>1, <3>1
    <3> QED BY <3>1, <3>2, <3>3
  <2>3. next = rest /\ then = 3
    <3>1. TurnsLeft(log'[r].calls) = TurnsLeft(log[r].calls)
      BY <2>2 DEF TurnsLeft
    <3>2. Rest(step'[r], log'[r].calls) = Rest(step[r], log[r].calls)
      BY <2>1, <3>1 DEF Rest
    <3>3. Pause(step'[r], log'[r].calls) = 3
      BY <2>1, <2>2 DEF Pause
    <3> QED BY <1>5, <1>6, <2>1, <3>2, <3>3 DEF Guarded
  <2>4. StepsLeft(r) = rest + 11 /\ StepsLeft(r)' = next + 3 + then
    BY <1>1, <2>1, StepsAtPoint
  <2> QED BY <1>5, <2>1, <2>3, <2>4 DEF Guarded
<1>13. CASE Save(r)
  <2>1. pc[r] = "save" /\ pc'[r] = "append" /\ step' = step /\ log' = log
    BY <1>2, <1>13 DEF Save, memory
  <2>2. next = rest /\ then = pause
    BY <1>5, <1>6, <2>1 DEF Guarded
  <2>3. StepsLeft(r) = rest + 3 + pause /\ StepsLeft(r)' = next + 2 + then
    BY <1>1, <2>1, StepsAtPoint
  <2> QED BY <1>5, <2>1, <2>2, <2>3 DEF Guarded
<1>14. CASE AppendEvent(r)
  <2>1. pc[r] = "append" /\ log' = log /\ step[r] \in Steps /\ pc[r] \in Guarded
    BY <1>5, <1>14 DEF AppendEvent, Guarded
  <2>2. StepsLeft(r) = rest + 2 + pause
    BY <1>1, <2>1, StepsAtPoint
  <2> DEFINE last == IF log[r].calls = <<>> THEN "attempted"
                     ELSE log[r].calls[Len(log[r].calls)]
  <2>3. CASE pc'[r] = "work" /\ step'[r] = step[r] + 1
    <3>1. step'[r] \in Steps
      BY <1>3, <2>1, ScriptFacts, <2>3 DEF StepInv, Guarded
    <3>2. next = rest - 5
      <4>1. TurnsLeft(log[r].calls) \in Nat /\ step[r] \in Nat /\ Len(Script) \in Nat
        <5>1. Len(log[r].calls) \in Nat
          BY <2>1, <1>2
        <5>2. TurnsLeft(log[r].calls) \in Nat
          BY <5>1, StepsTypes DEF TurnsLeft
        <5> QED BY <2>1, <5>2, StepsTypes, ScriptFacts
      <4>2. Rest(step'[r], log'[r].calls)
              = 12 + 5 * (Len(Script) - (step[r] + 1)) + 10 * TurnsLeft(log[r].calls)
        BY <2>1, <2>3 DEF Rest
      <4>3. Rest(step'[r], log'[r].calls) = Rest(step[r], log[r].calls) - 5
        BY <4>1, <4>2 DEF Rest
      <4> QED BY <1>5, <1>6, <2>1, <2>3, <3>1, <4>3 DEF Guarded
    <3>3. StepsLeft(r)' = next + 4
      BY <1>1, <2>3, StepsAtPoint
    <3> QED BY <1>5, <2>1, <2>2, <3>2, <3>3
  <2>4. CASE /\ Script[step[r]] = "converse" /\ last = "attempted"
             /\ pc'[r] = "answer" /\ step' = step
    <3>1. pause = 10
      BY <1>5, <2>1, <2>4 DEF Pause
    <3>2. next = rest
      BY <1>5, <1>6, <2>1, <2>4 DEF Guarded
    <3>3. StepsLeft(r)' = next + 11
      BY <1>1, <2>4, StepsAtPoint
    <3> QED BY <1>5, <2>1, <2>2, <3>1, <3>2, <3>3
  <2>5. CASE /\ Script[step[r]] = "converse" /\ last # "attempted"
             /\ pc'[r] \in {"work", "raise"} /\ step' = step
    <3>1. pause = 3
      BY <1>5, <2>1, <2>5 DEF Pause
    <3>2. next = rest
      BY <1>5, <1>6, <2>1, <2>5 DEF Guarded
    <3>3. StepsLeft(r)' \in {next + 4, next + 1}
      BY <1>1, <2>5, StepsAtPoint
    <3> QED BY <1>5, <2>1, <2>2, <3>1, <3>2, <3>3
  <2>6. \/ pc'[r] = "work" /\ step'[r] = step[r] + 1
        \/ /\ Script[step[r]] = "converse" /\ last = "attempted"
           /\ pc'[r] = "answer" /\ step' = step
        \/ /\ Script[step[r]] = "converse" /\ last # "attempted"
           /\ pc'[r] \in {"work", "raise"} /\ step' = step
    <3>1. AfterEvent(r)
      BY <1>14 DEF AppendEvent
    <3> HIDE DEF last
    <3>2. CASE Script[step[r]] # "converse"
      BY <1>2, <2>1, <3>1, <3>2 DEF AfterEvent
    <3>3. CASE Script[step[r]] = "converse"
      BY <1>2, <3>1, <3>3 DEF AfterEvent, last
    <3> QED BY <3>2, <3>3
  <2> QED BY <2>3, <2>4, <2>5, <2>6
<1>15. CASE Complete(r) \/ \E category \in {"raised", "budget"} : WorkFails(r, category)
  <2>1. pc[r] \in Guarded /\ pc'[r] = "scrub"
    BY <1>2, <1>15 DEF Complete, WorkFails, At, Guarded
  <2>2. /\ StepsLeft(r) \in {rest + 4, rest + 3 + pause, rest + 2 + pause, rest + 11, rest + 1}
        /\ StepsLeft(r)' = 12
    BY <1>1, <2>1, StepsAtPoint DEF Guarded
  <2> QED BY <1>5, <2>1, <2>2
<1>16. CASE \/ Scrub(r) \/ CloseSandbox(r) \/ Tally(r) \/ AppendFinal(r) \/ Inventory(r)
            \/ WriteSealedLog(r) \/ WriteDigest(r) \/ Return(r) \/ CallEnds(r)
  <2>1. \/ pc[r] = "scrub" /\ pc'[r] = "close"
        \/ pc[r] = "close" /\ pc'[r] = "tally"
        \/ pc[r] = "tally" /\ pc'[r] = "finalize"
        \/ pc[r] = "finalize" /\ pc'[r] = "inventory"
        \/ pc[r] = "inventory" /\ pc'[r] = "seal"
        \/ pc[r] = "seal" /\ pc'[r] = "digest"
        \/ pc[r] = "digest" /\ pc'[r] = "sync"
        \/ pc[r] = "sync" /\ pc'[r] \in {"returned", "run_error"}
        \/ pc[r] \in Outcomes /\ pc'[r] = "idle"
    BY <1>2, <1>16 DEF Scrub, CloseSandbox, Tally, AppendFinal, Inventory, WriteSealedLog,
       WriteDigest, Return, CallEnds, Forget
  <2> QED BY <1>1, <2>1, StepsAtPoint DEF Outcomes
<1>17. CASE SealFails(r) \/ FailClosed(r) \/ FailDigest(r)
  <2>1. \/ pc[r] \in Sealing /\ pc'[r] \in FailClosedStates
        \/ pc[r] \in FailClosedStates /\ pc'[r] \in {"fail_digest", "run_error"}
        \/ pc[r] = "fail_digest" /\ pc'[r] = "run_error"
    BY <1>2, <1>17 DEF SealFails, FailClosed, FailDigest, FailClosedStates
  <2> QED BY <1>1, <2>1, StepsAtPoint DEF Sealing, FailClosedStates
<1> HIDE DEF Goal
<1> QED BY <1>7, <1>8, <1>9, <1>10, <1>11, <1>12, <1>13, <1>14, <1>15, <1>16, <1>17 DEF Proceed

\* Expire costs nothing, and what one call does leaves the steps of the others alone.
LEMMA OthersStepsKept ==
    ASSUME TypeOK, TypeOK', NEW r \in Runners, [Next]_vars,
           ~(\/ \E s \in Slots : Invoke(r, s)
             \/ Proceed(r)
             \/ \E how \in {"error", "interrupt"} : Escapes(r, how)
             \/ Killed(r))
    PROVE  StepsLeft(r)' = StepsLeft(r)
<1> SUFFICES pc'[r] = pc[r] /\ step'[r] = step[r] /\ log'[r] = log[r]
  BY DEF StepsLeft
<1>1. CASE Expire(r) \/ UNCHANGED vars
  BY <1>1 DEF Expire, vars, memory
<1>2. ASSUME NEW q \in Runners, q # r, Step(q)
      PROVE  pc'[r] = pc[r] /\ step'[r] = step[r] /\ log'[r] = log[r]
  <2>1. r \in Runners \ {q}
    BY <1>2
  <2> QED BY <1>2, <2>1, Shape
<1>3. CASE \E q \in Runners \ {r} : Step(q)
  BY <1>2, <1>3
<1> QED BY <1>1, <1>3 DEF Next, Step

\* Every step a call takes by itself, Ctrl-C and an escaping error included, brings it closer to
\* its end.  Its deadline costs nothing; only a new call gives steps.
StepsUsedUp ==
    [][\A r \in Runners :
         /\ Proceed(r) \/ (\E how \in {"error", "interrupt"} : Escapes(r, how))
              => StepsLeft(r)' < StepsLeft(r)
         /\ StepsLeft(r)' > StepsLeft(r) => \E s \in Slots : Invoke(r, s)]_vars

\* A call has steps left exactly as long as it is under way, and never more than MaxSteps.
StepsBound ==
    \A r \in Runners : StepsLeft(r) \in 0..MaxSteps /\ (StepsLeft(r) = 0 <=> pc[r] = "idle")

\* A call of execute_plan is over after at most MaxSteps = 5 * Len(Script) + 10 * MaxTurns + 20
\* steps of its own, whatever the provider answers, whichever append or save fails and whatever
\* other calls do on the same slot: no checkpoint, turn or attempt to seal is repeated without end.
THEOREM StepsBounded == Spec => []StepsBound /\ StepsUsedUp
<1>1. TypeOK /\ Inv => StepsBound
  BY StepsLeftType DEF StepsBound, Inv
<1>2. ASSUME TypeOK, TypeOK', Inv, StepsBound, StepsBound', [Next]_vars, NEW r \in Runners
      PROVE  /\ Proceed(r) \/ (\E how \in {"error", "interrupt"} : Escapes(r, how))
                  => StepsLeft(r)' < StepsLeft(r)
             /\ StepsLeft(r)' > StepsLeft(r) => \E s \in Slots : Invoke(r, s)
  <2> DEFINE own == Proceed(r) \/ \E how \in {"error", "interrupt"} : Escapes(r, how)
  <2>1. StepsLeft(r) \in Nat /\ StepsLeft(r)' \in Nat
    BY <1>2, StepsTypes DEF StepsBound, MaxSteps
  <2>2. CASE own
    <3>1. StepsLeft(r)' < StepsLeft(r)
      BY <1>2, <2>2, OwnStepsFall DEF Inv
    <3> QED BY <2>1, <3>1
  <2>3. CASE Killed(r) /\ ~own
    <3>1. StepsLeft(r)' = 0
      <4>1. pc'[r] = "idle"
        BY <1>2, <2>3 DEF Killed, Forget, Goto, TypeOK
      <4> QED BY <4>1, StepsAtPoint DEF StepsLeft
    <3> QED BY <2>1, <2>3, <3>1
  <2>4. CASE \E s \in Slots : Invoke(r, s) /\ ~own
    BY <2>4
  <2>5. CASE ~own /\ ~Killed(r) /\ ~\E s \in Slots : Invoke(r, s)
    <3>1. StepsLeft(r)' = StepsLeft(r)
      BY <1>2, <2>5, OthersStepsKept
    <3> QED BY <2>1, <2>5, <3>1
  <2> QED BY <2>2, <2>3, <2>4, <2>5
<1>3. TypeOK /\ TypeOK' /\ Inv /\ StepsBound /\ StepsBound' /\ [Next]_vars
        => [\A r \in Runners :
              /\ Proceed(r) \/ (\E how \in {"error", "interrupt"} : Escapes(r, how))
                   => StepsLeft(r)' < StepsLeft(r)
              /\ StepsLeft(r)' > StepsLeft(r) => \E s \in Slots : Invoke(r, s)]_vars
  BY <1>2
<1> QED BY <1>1, <1>3, ExecutorCorrect, PTL DEF Spec, StepsUsedUp
=============================================================================
