---------------------------- MODULE PhaseLoopProofs ----------------------------
(***************************************************************************)
(* Theorems about the conversation of an attempt, for every limit that an  *)
(* authorization may set and every list of answers a provider may give.    *)
(***************************************************************************)
EXTENDS PhaseLoop, TLAPS, SequenceTheorems, FiniteSetTheorems

USE MaxTurnsAssumption, BudgetAssumption

Stopped == {"raised", "dead"}

-----------------------------------------------------------------------------
(* The inductive invariant, one part for each thing that is kept count of. *)

\* Turns and calls.  A turn is counted before the call is recorded, and the call is
\* recorded before it is made; the baseline's turns leave two for the change.
TurnsInv ==
    /\ auth.change => MaxTurns >= 4
    /\ Len(calls) <= budget.turns
    /\ pc = "request" => Len(calls) < budget.turns /\ turn.now >= 1
    /\ pc \in {"call", "waiting"} => Len(calls) >= 1
    /\ phase = 1 /\ pc = "enter" => budget.turns = 0
    /\ auth.change /\ phase = 1
         => budget.turns = turn.now /\ turn.now <= turn.limit /\ turn.limit <= MaxTurns - 2
    /\ phase = 2 /\ pc = "enter" => MaxTurns - budget.turns >= 2

\* Tools: those still to be used are charged already.
ToolsInv ==
    /\ pc \notin {"tool", "settle"} \cup Stopped => todo = <<>>
    /\ pc = "tool" => todo # <<>>
    /\ did.tools + Len(todo) <= budget.tools
    /\ did.python + Pythons(todo) <= budget.python
    /\ \/ did.lateTools = 0
       \/ did.lateTools = 1 /\ (pc \in Stopped \/ (pc = "settle" /\ late))

\* Cost: what a metered attempt was charged is what its calls cost.
CostInv ==
    auth.metered =>
        /\ did.earlier <= MaxCost
        /\ pc \notin Stopped => budget.cost = did.earlier + did.cost /\ budget.cost <= MaxCost

\* Records: each call's but the last one's says that it was answered; the disk has
\* them all, and one more than was begun while the next is about to begin.
RecordsInv ==
    /\ \A i \in DOMAIN calls :
           /\ calls[i].late => calls[i].status # "response_received"
           /\ i < Len(calls) => calls[i].status = "response_received"
           /\ pc \notin Stopped \cup {"call", "waiting"} => calls[i].status = "response_received"
    /\ pc \notin Stopped =>
           saved = calls /\ Len(calls) = did.calls + (IF pc = "call" THEN 1 ELSE 0)

LoopInv == LoopTypeOK /\ TurnsInv /\ ToolsInv /\ CostInv /\ RecordsInv /\ AccountKept

-----------------------------------------------------------------------------
(* Answers, and the scripts they ask for. *)

LEMMA AnswersAreSequences ==
    ASSUME NEW answer \in Answers
    PROVE  answer \in Seq(Tools) /\ Len(answer) \in 0..MaxToolCalls
<1>1. PICK n \in 0..MaxToolCalls : answer \in [1..n -> Tools]
  BY DEF Answers
<1>2. answer \in Seq(Tools)
  BY <1>1, SeqDef
<1>3. Len(answer) = n
  BY <1>1, <1>2, LenProperties
<1> QED
  BY <1>2, <1>3

LEMMA SequencesAreAnswers ==
    ASSUME NEW answer \in Seq(Tools), Len(answer) <= MaxToolCalls
    PROVE  answer \in Answers
BY LenProperties DEF Answers

LEMMA PythonsType ==
    ASSUME NEW answer \in Seq(Tools)
    PROVE  /\ Pythons(answer) \in Nat
           /\ answer = <<>> => Pythons(answer) = 0
<1> DEFINE Scripts == {i \in DOMAIN answer : answer[i] = "run_python"}
<1>1. IsFiniteSet(1..Len(answer)) /\ DOMAIN answer = 1..Len(answer)
  BY LenProperties, FS_Interval
<1>2. IsFiniteSet(Scripts)
  <2>1. Scripts \in SUBSET (1..Len(answer))
    BY <1>1
  <2> QED
    BY <1>1, <2>1, FS_Subset
<1>3. answer = <<>> => Scripts = {}
  BY <1>1
<1> QED
  BY <1>2, <1>3, FS_CardinalityType, FS_EmptySet DEF Pythons

\* The next tool is a script or it is not; the others are those of the rest.
LEMMA PythonsOfTail ==
    ASSUME NEW answer \in Seq(Tools), answer # <<>>
    PROVE  Pythons(answer) = Pythons(Tail(answer)) + (IF Head(answer) = "run_python" THEN 1 ELSE 0)
<1> DEFINE Scripts == {i \in DOMAIN answer : answer[i] = "run_python"}
           Rest    == {i \in DOMAIN Tail(answer) : Tail(answer)[i] = "run_python"}
           Shift   == [i \in Rest |-> i + 1]
<1>1. /\ Len(answer) \in Nat \ {0} /\ DOMAIN answer = 1..Len(answer) /\ Head(answer) = answer[1]
      /\ DOMAIN Tail(answer) = 1..(Len(answer) - 1)
      /\ \A i \in 1..(Len(answer) - 1) : Tail(answer)[i] = answer[i + 1]
  BY LenProperties, EmptySeq, HeadTailProperties
<1>2. IsFiniteSet(Scripts) /\ IsFiniteSet(Rest)
  <2>1. IsFiniteSet(1..Len(answer)) /\ IsFiniteSet(1..(Len(answer) - 1))
    BY <1>1, FS_Interval
  <2>2. Scripts \in SUBSET (1..Len(answer)) /\ Rest \in SUBSET (1..(Len(answer) - 1))
    BY <1>1
  <2> QED
    BY <2>1, <2>2, FS_Subset
<1>3. Shift \in Bijection(Rest, Scripts \ {1})
  <2>1. \A i \in Rest : Shift[i] \in Scripts \ {1}
    BY <1>1
  <2>2. \A i, j \in Rest : Shift[i] = Shift[j] => i = j
    BY <1>1
  <2>3. \A j \in Scripts \ {1} : j - 1 \in Rest /\ Shift[j - 1] = j
    BY <1>1
  <2> QED
    BY <2>1, <2>2, <2>3 DEF Bijection, Injection, Surjection, IsInjective
<1>4. Cardinality(Scripts \ {1}) = Cardinality(Rest)
  BY ZenonT(60), <1>2, <1>3, FS_Bijection DEF ExistsBijection
<1>5. Cardinality(Scripts \ {1})
        = IF 1 \in Scripts THEN Cardinality(Scripts) - 1 ELSE Cardinality(Scripts)
  BY <1>2, FS_RemoveElement
<1>6. 1 \in Scripts <=> Head(answer) = "run_python"
  BY <1>1
<1>7. Cardinality(Scripts) \in Nat /\ Cardinality(Rest) \in Nat
  BY <1>2, FS_CardinalityType
<1>8. Pythons(answer) = Cardinality(Scripts) /\ Pythons(Tail(answer)) = Cardinality(Rest)
  BY DEF Pythons
<1> HIDE DEF Scripts, Rest
<1> QED
  BY <1>4, <1>5, <1>6, <1>7, <1>8

-----------------------------------------------------------------------------
(* Records. *)

\* What becomes of the list when its last record is completed.
LEMMA RecordedKeepsOthers ==
    ASSUME calls \in Seq(Records), Len(calls) >= 1, NEW record \in Records, Recorded(record)
    PROVE  /\ calls' \in Seq(Records)
           /\ Len(calls') = Len(calls)
           /\ DOMAIN calls' = 1..Len(calls)
           /\ \A i \in 1..Len(calls) : calls'[i] = IF i = Len(calls) THEN record ELSE calls[i]
<1>1. Len(calls) \in Nat /\ Len(calls) \in 1..Len(calls)
  BY LenProperties
<1>2. /\ calls' \in Seq(Records)
      /\ Len(calls') = Len(calls)
      /\ \A i \in 1..Len(calls) : calls'[i] = IF i = Len(calls) THEN record ELSE calls[i]
  BY <1>1, ExceptSeq DEF Recorded
<1>3. DOMAIN calls' = 1..Len(calls)
  BY <1>2, LenProperties
<1> QED
  BY <1>2, <1>3

LEMMA LastIsRecord ==
    ASSUME calls \in Seq(Records), Len(calls) >= 1
    PROVE  Last \in Records
BY LenProperties, ElementOfSeq DEF Last

\* The ways in which a record is completed give a record.
LEMMA CompletedIsRecord ==
    ASSUME NEW record \in Records, NEW status \in Final, NEW cost \in CostReports,
           NEW n \in 0..MaxToolCalls, NEW l \in BOOLEAN
    PROVE  [record EXCEPT !.status = status, !.cost = cost, !.tools = n, !.late = l] \in Records
BY DEF Records

LEMMA OtherEndingsAreRecords ==
    ASSUME NEW record \in Records, NEW l \in BOOLEAN
    PROVE  /\ [record EXCEPT !.status = "attempted_not_reported"] \in Records
           /\ [record EXCEPT !.status = "response_rejected", !.late = l] \in Records
BY DEF Records, Final

LEMMA CounterTypes ==
    ASSUME LoopTypeOK
    PROVE  /\ auth.change \in BOOLEAN /\ auth.metered \in BOOLEAN
           /\ turn.now \in 0..MaxTurns /\ turn.limit \in 0..MaxTurns
           /\ budget.turns \in 0..MaxTurns /\ budget.tools \in 0..MaxTools
           /\ budget.python \in 0..MaxPython /\ budget.cost \in Nat
           /\ did.calls \in Nat /\ did.tools \in Nat /\ did.python \in Nat
           /\ did.lateTools \in Nat /\ did.cost \in Nat /\ did.earlier \in Nat
BY DEF LoopTypeOK, TurnCounts, Budgets, Histories

\* What the actions make of the counters are counters.
LEMMA TurnCounted ==
    ASSUME NEW i \in 0..MaxTurns, NEW t \in TurnCounts, NEW k \in 0..MaxTurns, NEW b \in Budgets
    PROVE  [t EXCEPT !.now = i] \in TurnCounts /\ [b EXCEPT !.turns = k] \in Budgets
BY DEF TurnCounts, Budgets

LEMMA AnswerCharged ==
    ASSUME NEW n \in 0..MaxTools, NEW p \in 0..MaxPython, NEW c \in Nat, NEW b \in Budgets
    PROVE  [b EXCEPT !.cost = c, !.tools = n, !.python = p] \in Budgets
BY DEF Budgets

LEMMA CallCounted ==
    ASSUME NEW h \in Histories, NEW m \in Nat
    PROVE  [h EXCEPT !.calls = m] \in Histories
BY DEF Histories

LEMMA ToolCounted ==
    ASSUME NEW h \in Histories, NEW m \in Nat, NEW n \in Nat, NEW l \in Nat
    PROVE  [h EXCEPT !.tools = m, !.python = n, !.lateTools = l] \in Histories
BY DEF Histories

LEMMA CostCounted ==
    ASSUME NEW h \in Histories, NEW m \in Nat, NEW n \in Nat
    PROVE  [h EXCEPT !.earlier = m, !.cost = n] \in Histories
BY DEF Histories

LEMMA VerdictType ==
    ASSUME NEW answer \in Answers, NEW cost \in CostReports
    PROVE  Verdict(answer, cost) \in Final
BY DEF Verdict, Final

LEMMA ChargedType ==
    ASSUME budget.cost \in Nat, NEW cost \in CostReports
    PROVE  Charged(cost) \in Nat
BY DEF Charged, CostReports, None

\* What an accepted answer fits into.
LEMMA AcceptedFits ==
    ASSUME LoopTypeOK, NEW answer \in Answers, NEW cost \in CostReports,
           Verdict(answer, cost) = "response_received"
    PROVE  /\ ~late
           /\ auth.metered => Charged(cost) <= MaxCost /\ cost # None
           /\ ~OverTools(answer) /\ ~OverPython(answer)
<1>1. auth.metered \in BOOLEAN /\ late \in BOOLEAN /\ Charged(cost) \in Nat
  BY CounterTypes, ChargedType DEF LoopTypeOK
<1>2. ~(auth.metered /\ cost = None) /\ ~(auth.metered /\ cost # None /\ Charged(cost) > MaxCost)
  BY DEF Verdict
<1>3. ~late
  BY <1>2 DEF Verdict
<1>4. ~OverTools(answer) /\ ~OverPython(answer)
  BY <1>2, <1>3 DEF Verdict
<1> QED
  BY <1>1, <1>2, <1>3, <1>4

\* What Answered does to the records, in the terms of the lemmas above.
LEMMA AnsweredRecords ==
    ASSUME LoopTypeOK, Len(calls) >= 1, NEW answer \in Answers, NEW cost \in CostReports,
           Answered(answer, cost)
    PROVE  \E record \in Records :
              /\ record.status = Verdict(answer, cost) /\ record.late = late
              /\ Recorded(record)
<1> DEFINE record == [Last EXCEPT !.status = Verdict(answer, cost), !.cost = cost,
                                  !.tools = Len(answer), !.late = late]
<1>1. Last \in Records
  BY LastIsRecord DEF LoopTypeOK
<1>2. Verdict(answer, cost) \in Final /\ Len(answer) \in 0..MaxToolCalls /\ late \in BOOLEAN
  BY VerdictType, AnswersAreSequences DEF LoopTypeOK
<1>3. record \in Records
  BY <1>1, <1>2, CompletedIsRecord
<1>4. record.status = Verdict(answer, cost) /\ record.late = late
  BY <1>1 DEF Records
<1>5. Recorded(record)
  BY DEF Answered
<1> QED
  BY <1>3, <1>4, <1>5

-----------------------------------------------------------------------------
(* Each part of the invariant is preserved, by the actions that touch it and by the others. *)

LEMMA TypesPreserved ==
    ASSUME LoopInv, LoopNext
    PROVE  LoopTypeOK'
<1>t. LoopTypeOK
  BY DEF LoopInv
<1>1. CASE Enter
  <2>1. turn' \in TurnCounts
    BY <1>t, <1>1 DEF LoopTypeOK, Enter, Reserved, TurnCounts, Budgets
  <2> QED
    BY <1>t, <1>1, <2>1 DEF LoopTypeOK, Enter, Labels, Outcome
<1>2. CASE CountTurn
  <2>1. turn.now + 1 \in 0..MaxTurns /\ budget.turns + 1 \in 0..MaxTurns
    BY <1>t, <1>2, CounterTypes DEF CountTurn
  <2>2. turn' \in TurnCounts /\ budget' \in Budgets
    BY <1>t, <1>2, <2>1, TurnCounted DEF LoopTypeOK, CountTurn
  <2>3. pc' = "request" /\ UNCHANGED <<auth, phase, calls, saved, size, todo, late, did>>
    BY <1>2 DEF CountTurn
  <2> QED
    BY <1>t, <2>2, <2>3 DEF LoopTypeOK, Labels
<1>3. CASE RecordAttempt
  <2>1. turn.now \in 1..MaxTurns /\ budget.turns \in 1..MaxTurns
    BY <1>t, <1>3, LenProperties
       DEF LoopTypeOK, LoopInv, TurnsInv, RecordAttempt, TurnCounts, Budgets
  <2>2. Attempt \in Records
    BY <1>t, <2>1 DEF LoopTypeOK, Attempt, Records, CostReports
  <2>3. calls' \in Seq(Records)
    BY <1>t, <1>3, <2>2, AppendProperties DEF LoopTypeOK, RecordAttempt
  <2>4. saved' \in Seq(Records) /\ pc' \in {"call", "raised"}
    BY <1>t, <1>3, <2>3 DEF LoopTypeOK, RecordAttempt, Checkpoint
  <2>5. UNCHANGED <<auth, phase, turn, budget, size, todo, late, did>>
    BY <1>3 DEF RecordAttempt
  <2> QED
    BY <1>t, <2>3, <2>4, <2>5 DEF LoopTypeOK, Labels, Outcome
<1>4. CASE BeginCall
  <2>1. did' \in Histories
    <3>1. did.calls + 1 \in Nat /\ did \in Histories
      BY <1>t, CounterTypes DEF LoopTypeOK
    <3>2. did' = [did EXCEPT !.calls = did.calls + 1]
      BY <1>4 DEF BeginCall
    <3> QED
      BY <3>1, <3>2, CallCounted
  <2>2. pc' = "waiting" /\ UNCHANGED <<auth, phase, turn, budget, calls, saved, size, todo, late>>
    BY <1>4 DEF BeginCall
  <2> QED
    BY <1>t, <2>1, <2>2 DEF LoopTypeOK, Labels
<1>5. CASE CallFails \/ AnswerRejected
  <2>1. Len(calls) >= 1
    BY <1>5 DEF LoopInv, TurnsInv, CallFails, AnswerRejected
  <2>2. PICK record \in Records : Recorded(record)
    BY <1>t, <1>5, <2>1, LastIsRecord, OtherEndingsAreRecords
       DEF LoopTypeOK, CallFails, AnswerRejected
  <2>3. calls' \in Seq(Records)
    BY <1>t, <2>1, <2>2, RecordedKeepsOthers DEF LoopTypeOK
  <2>4. saved' \in Seq(Records) /\ pc' = "raised"
    BY <1>t, <1>5, <2>3 DEF LoopTypeOK, CallFails, AnswerRejected
  <2>5. UNCHANGED <<auth, phase, turn, budget, size, todo, late, did>>
    BY <1>5 DEF CallFails, AnswerRejected
  <2> QED
    BY <1>t, <2>3, <2>4, <2>5 DEF LoopTypeOK, Labels, Outcome
<1>6. ASSUME NEW answer \in Answers, NEW cost \in CostReports, Answered(answer, cost)
      PROVE  LoopTypeOK'
  <2>1. Len(calls) >= 1
    BY <1>6 DEF LoopInv, TurnsInv, Answered
  <2>2. calls' \in Seq(Records)
    BY <1>t, <1>6, <2>1, AnsweredRecords, RecordedKeepsOthers DEF LoopTypeOK
  <2>3. saved' \in Seq(Records) /\ pc' \in {"captured", "tool", "raised"}
    BY <1>t, <1>6, <2>2 DEF LoopTypeOK, Answered, Checkpoint
  <2>4. budget' \in Budgets
    <3>1. Len(answer) \in Nat /\ Pythons(answer) \in Nat
      BY AnswersAreSequences, PythonsType
    <3>2. budget.cost \in Nat /\ budget.tools \in 0..MaxTools /\ budget.python \in 0..MaxPython
      BY <1>t, CounterTypes
    <3>3. Charged(cost) \in Nat
      BY <3>2, ChargedType
    <3>4. Verdict(answer, cost) = "response_received"
            => budget.tools + Len(answer) <= MaxTools /\ budget.python + Pythons(answer) <= MaxPython
      BY <1>t, <3>1, <3>2, AcceptedFits DEF OverTools, OverPython
    <3> DEFINE accepted == Verdict(answer, cost) = "response_received"
               n == IF accepted THEN budget.tools + Len(answer) ELSE budget.tools
               p == IF accepted THEN budget.python + Pythons(answer) ELSE budget.python
    <3>5. n \in 0..MaxTools /\ p \in 0..MaxPython
      BY <3>1, <3>2, <3>4
    <3>6. budget' = [budget EXCEPT !.cost = Charged(cost), !.tools = n, !.python = p]
      BY <1>6 DEF Answered
    <3> HIDE DEF n, p
    <3> QED
      BY <1>t, <3>3, <3>5, <3>6, AnswerCharged DEF LoopTypeOK
  <2>5. did' \in Histories
    <3>1. did.earlier + did.cost \in Nat /\ (IF cost = None THEN 0 ELSE cost) \in Nat
      BY <1>t, CounterTypes DEF CostReports, None
    <3>2. did' = [did EXCEPT !.earlier = did.earlier + did.cost,
                             !.cost    = IF cost = None THEN 0 ELSE cost]
      BY <1>6 DEF Answered
    <3> QED
      BY <1>t, <3>1, <3>2, CostCounted DEF LoopTypeOK
  <2>6. size' \in Nat /\ todo' \in Answers
    BY <1>t, <1>6 DEF LoopTypeOK, Answered
  <2>7. UNCHANGED <<auth, phase, turn, late>>
    BY <1>6 DEF Answered
  <2> QED
    BY <1>t, <2>2, <2>3, <2>4, <2>5, <2>6, <2>7 DEF LoopTypeOK, Labels, Outcome
<1>7. CASE UseTool
  <2>1. todo \in Seq(Tools) /\ todo # <<>> /\ Len(todo) <= MaxToolCalls
    BY <1>t, <1>7, AnswersAreSequences DEF LoopTypeOK, LoopInv, ToolsInv, UseTool
  <2>2. todo' \in Answers
    <3>1. Tail(todo) \in Seq(Tools) /\ Len(Tail(todo)) <= MaxToolCalls
      BY <2>1, HeadTailProperties, LenProperties
    <3>2. Tail(todo) \in Answers
      BY <3>1, SequencesAreAnswers
    <3> QED
      BY <1>7, <3>2 DEF UseTool
  <2>3. did' \in Histories
    <3>1. PICK runs \in {0, 1} :
               did' = [did EXCEPT !.tools = @ + 1, !.python = @ + runs,
                                  !.lateTools = IF late THEN @ + 1 ELSE @]
      BY <1>7 DEF UseTool, Runs
    <3> DEFINE l == IF late THEN did.lateTools + 1 ELSE did.lateTools
    <3>2. did.tools \in Nat /\ did.python \in Nat /\ did.lateTools \in Nat
      BY <1>t, CounterTypes
    <3>3. did.tools + 1 \in Nat /\ did.python + runs \in Nat /\ l \in Nat
      BY <3>2
    <3>4. did \in Histories
      BY <1>t DEF LoopTypeOK
    <3>5. did' = [did EXCEPT !.tools = did.tools + 1, !.python = did.python + runs, !.lateTools = l]
      BY <3>1
    <3> HIDE DEF l
    <3> QED
      BY <3>3, <3>4, <3>5, ToolCounted
  <2>4. size' = size + 1 /\ pc' = "settle"
        /\ UNCHANGED <<auth, phase, turn, budget, calls, saved, late>>
    BY <1>7 DEF UseTool
  <2> QED
    BY <1>t, <2>2, <2>3, <2>4 DEF LoopTypeOK, Labels
<1>8. CASE NextPhase
  <2>1. pc' \in {"enter", "done", "raised"} /\ phase' \in {phase, 2} /\ size' \in {size, size + 1}
        /\ UNCHANGED <<auth, turn, budget, calls, saved, todo, late, did>>
    BY <1>8 DEF NextPhase
  <2> QED
    BY <1>t, <2>1 DEF LoopTypeOK, Labels, Outcome
<1>9. CASE Expire
  BY <1>t, <1>9 DEF LoopTypeOK, Expire
<1>10. CASE \/ LoopEnds \/ Refuse \/ RequestTooLong \/ ToolRaises \/ Settle \/ SettleFails \/ Dies
  <2>1. UNCHANGED <<auth, phase, turn, budget, calls, saved, size, todo, late, did>>
    BY <1>10 DEF LoopEnds, Refuse, RequestTooLong, ToolRaises, Settle, SettleFails, Dies
  <2>2. pc' \in {"captured", "raised", "tool", "check", "dead"}
    BY <1>10 DEF LoopEnds, Refuse, RequestTooLong, ToolRaises, Settle, SettleFails, Dies
  <2> QED
    BY <1>t, <2>1, <2>2 DEF LoopTypeOK, Labels, Outcome
<1> QED
  BY <1>1, <1>2, <1>3, <1>4, <1>5, <1>6, <1>7, <1>8, <1>9, <1>10 DEF LoopNext, LoopStep

-----------------------------------------------------------------------------
\* A call that has been made ends in one of three ways; each completes its record, and charges no turn.
CallEnds ==
    \/ CallFails \/ AnswerRejected
    \/ \E answer \in Answers, cost \in CostReports : Answered(answer, cost)

LEMMA CallEndsRecord ==
    ASSUME LoopInv, CallEnds
    PROVE  /\ pc = "waiting" /\ Len(calls) >= 1
           /\ pc' \in {"captured", "tool", "raised"}
           /\ UNCHANGED <<auth, phase, turn>> /\ budget'.turns = budget.turns
           /\ did'.calls = did.calls
           /\ \E record \in Records :
                 /\ Recorded(record)
                 /\ record.late => record.status # "response_received"
                 /\ pc' # "raised" => record.status = "response_received"
           /\ saved' \in {saved, calls'} /\ (pc' # "raised" => saved' = calls')
<1>t. LoopTypeOK
  BY DEF LoopInv
<1>1. pc = "waiting" /\ Len(calls) >= 1
  BY DEF CallEnds, CallFails, AnswerRejected, Answered, LoopInv, TurnsInv
<1>2. Last \in Records
  BY <1>t, <1>1, LastIsRecord DEF LoopTypeOK
<1>3. CASE CallFails
  <2> DEFINE record == [Last EXCEPT !.status = "attempted_not_reported"]
  <2>1. record \in Records /\ record.status = "attempted_not_reported" /\ Recorded(record)
    BY <1>2, <1>3, OtherEndingsAreRecords DEF CallFails, Records
  <2>2. UNCHANGED <<auth, phase, turn, budget, did>> /\ pc' = "raised" /\ saved' \in {saved, calls'}
    BY <1>3 DEF CallFails
  <2> QED
    BY <1>1, <2>1, <2>2
<1>4. CASE AnswerRejected
  <2> DEFINE record == [Last EXCEPT !.status = "response_rejected", !.late = late]
  <2>1. record \in Records /\ record.status = "response_rejected" /\ Recorded(record)
    BY <1>t, <1>2, <1>4, OtherEndingsAreRecords DEF AnswerRejected, Records, LoopTypeOK
  <2>2. UNCHANGED <<auth, phase, turn, budget, did>> /\ pc' = "raised" /\ saved' \in {saved, calls'}
    BY <1>4 DEF AnswerRejected
  <2> QED
    BY <1>1, <2>1, <2>2
<1>5. ASSUME NEW answer \in Answers, NEW cost \in CostReports, Answered(answer, cost)
      PROVE  /\ pc' \in {"captured", "tool", "raised"}
             /\ UNCHANGED <<auth, phase, turn>> /\ budget'.turns = budget.turns
             /\ did'.calls = did.calls
             /\ \E record \in Records :
                   /\ Recorded(record)
                   /\ record.late => record.status # "response_received"
                   /\ pc' # "raised" => record.status = "response_received"
             /\ saved' \in {saved, calls'} /\ (pc' # "raised" => saved' = calls')
  <2>1. PICK record \in Records :
           record.status = Verdict(answer, cost) /\ record.late = late /\ Recorded(record)
    BY <1>t, <1>1, <1>5, AnsweredRecords
  <2>2. Verdict(answer, cost) = "response_received" => ~late
    BY <1>t, AcceptedFits
  <2>3. pc' # "raised" => Verdict(answer, cost) = "response_received"
    BY <1>5 DEF Answered
  <2>4. pc' \in {"captured", "tool", "raised"} /\ saved' \in {saved, calls'}
        /\ (pc' # "raised" => saved' = calls')
    BY <1>5 DEF Answered, Checkpoint
  <2>5. budget'.turns = budget.turns
    BY <1>t, <1>5 DEF Answered, LoopTypeOK, Budgets
  <2>6. did'.calls = did.calls
    BY <1>t, <1>5 DEF Answered, LoopTypeOK, Histories
  <2>7. UNCHANGED <<auth, phase, turn>>
    BY <1>5 DEF Answered
  <2> QED
    BY <2>1, <2>2, <2>3, <2>4, <2>5, <2>6, <2>7
<1> QED
  BY <1>1, <1>3, <1>4, <1>5 DEF CallEnds

LEMMA TurnsPreserved ==
    ASSUME LoopInv, LoopNext
    PROVE  TurnsInv'
<1>t. LoopTypeOK /\ TurnsInv /\ Len(calls) \in Nat
  BY LenProperties DEF LoopInv, LoopTypeOK
<1>c. /\ turn.now \in Nat /\ turn.limit \in Nat /\ budget.turns \in Nat
      /\ auth.change \in BOOLEAN
  BY SMTT(30), <1>t, CounterTypes
<1>1. CASE Enter
  <2>1. /\ UNCHANGED <<auth, phase, budget, calls>> /\ pc' \in {"check", "raised"}
        /\ \/ turn' = turn
           \/ turn'.now = 0 /\ turn'.limit = MaxTurns - budget.turns - Reserved /\ turn'.limit >= 1
    BY <1>1, <1>c DEF Enter, Reserved
  <2> QED
    BY <1>t, <1>c, <1>1, <2>1 DEF TurnsInv, Enter, Reserved
<1>2. CASE CountTurn
  <2>1. UNCHANGED <<auth, phase, calls>> /\ pc = "check" /\ pc' = "request" /\ turn.now < turn.limit
    BY <1>2 DEF CountTurn
  <2>2. budget'.turns = budget.turns + 1 /\ turn'.now = turn.now + 1 /\ turn'.limit = turn.limit
    BY <1>t, <1>2 DEF CountTurn, LoopTypeOK, TurnCounts, Budgets
  <2> QED
    BY <1>t, <1>c, <2>1, <2>2 DEF TurnsInv
<1>3. CASE RecordAttempt
  <2>1. Len(calls') = Len(calls) + 1
    BY <1>t, <1>3, LenProperties DEF RecordAttempt, LoopTypeOK
  <2>2. UNCHANGED <<auth, phase, turn, budget>> /\ pc = "request" /\ pc' \in {"call", "raised"}
    BY <1>3 DEF RecordAttempt, Checkpoint
  <2> QED
    BY <1>t, <1>c, <2>1, <2>2 DEF TurnsInv
<1>4. CASE CallEnds
  <2>1. Len(calls') = Len(calls)
    BY <1>t, <1>4, CallEndsRecord, RecordedKeepsOthers DEF LoopTypeOK
  <2>2. /\ pc' \in {"captured", "tool", "raised"} /\ UNCHANGED <<auth, phase, turn>>
        /\ budget'.turns = budget.turns /\ pc = "waiting"
    BY <1>4, CallEndsRecord
  <2> QED
    BY <1>t, <2>1, <2>2 DEF TurnsInv
<1>5. CASE NextPhase
  <2>1. /\ UNCHANGED <<auth, turn, budget, calls>> /\ pc = "captured"
        /\ \/ auth.change /\ phase = 1 /\ phase' = 2 /\ pc' = "enter"
           \/ pc' \in {"done", "raised"} /\ phase' = phase
    BY <1>5 DEF NextPhase
  <2> QED
    BY <1>t, <1>c, <2>1 DEF TurnsInv
<1>6. CASE \/ LoopEnds \/ Refuse \/ RequestTooLong \/ UseTool \/ ToolRaises \/ Settle \/ SettleFails \/ Dies
  <2>1. /\ UNCHANGED <<auth, phase, turn, budget, calls>>
        /\ pc' \in {"captured", "raised", "settle", "tool", "check", "dead"}
    BY <1>6 DEF LoopEnds, Refuse, RequestTooLong, UseTool, ToolRaises, Settle, SettleFails, Dies
  <2> QED
    BY <1>t, <2>1 DEF TurnsInv
<1>7. CASE BeginCall
  BY <1>t, <1>7 DEF TurnsInv, BeginCall
<1>8. CASE Expire
  BY <1>t, <1>8 DEF TurnsInv, Expire
<1> QED
  BY <1>1, <1>2, <1>3, <1>4, <1>5, <1>6, <1>7, <1>8 DEF LoopNext, LoopStep, CallEnds

LEMMA ToolsPreserved ==
    ASSUME LoopInv, LoopNext
    PROVE  ToolsInv'
<1>t. LoopTypeOK /\ ToolsInv
  BY DEF LoopInv
<1>c. /\ did.tools \in Nat /\ did.python \in Nat /\ did.lateTools \in Nat
      /\ budget.tools \in Nat /\ budget.python \in Nat
      /\ todo \in Seq(Tools) /\ Len(todo) \in Nat /\ Pythons(todo) \in Nat
  BY <1>t, CounterTypes, AnswersAreSequences, PythonsType DEF LoopTypeOK
<1>1. ASSUME NEW answer \in Answers, NEW cost \in CostReports, Answered(answer, cost)
      PROVE  ToolsInv'
  <2>1. todo = <<>> /\ pc = "waiting" /\ did.lateTools = 0
    BY <1>t, <1>1 DEF ToolsInv, Answered, Stopped
  <2>2. did'.tools = did.tools /\ did'.python = did.python /\ did'.lateTools = did.lateTools
    BY <1>t, <1>1 DEF Answered, LoopTypeOK, Histories
  <2>3. Len(todo) = 0 /\ Pythons(todo) = 0
    BY <1>c, <2>1, PythonsType, EmptySeq
  <2>a. Len(answer) \in Nat /\ Pythons(answer) \in Nat /\ answer \in Seq(Tools)
    BY AnswersAreSequences, PythonsType
  <2>4. CASE Verdict(answer, cost) = "response_received"
    <3>1. budget'.tools = budget.tools + Len(answer) /\ budget'.python = budget.python + Pythons(answer)
      BY <1>t, <1>1, <2>4 DEF Answered, LoopTypeOK, Budgets
    <3>2. todo' = answer /\ pc' \in {"raised", IF answer = <<>> THEN "captured" ELSE "tool"}
      BY <1>1, <2>4 DEF Answered, Checkpoint
    <3>3. did'.tools + Len(todo') <= budget'.tools /\ did'.python + Pythons(todo') <= budget'.python
      BY <1>t, <1>c, <2>2, <2>3, <2>a, <3>1, <3>2 DEF ToolsInv
    <3> QED
      BY <2>1, <2>2, <3>2, <3>3 DEF ToolsInv, Stopped
  <2>5. CASE Verdict(answer, cost) # "response_received"
    <3>1. budget'.tools = budget.tools /\ budget'.python = budget.python
      BY <1>t, <1>1, <2>5 DEF Answered, LoopTypeOK, Budgets
    <3>2. todo' = todo /\ pc' = "raised"
      BY <1>1, <2>5 DEF Answered
    <3> QED
      BY <1>t, <2>1, <2>2, <3>1, <3>2 DEF ToolsInv, Stopped
  <2> QED
    BY <2>4, <2>5
<1>2. CASE UseTool
  <2>1. todo # <<>> /\ todo' = Tail(todo) /\ pc = "tool" /\ pc' = "settle" /\ late' = late
        /\ budget' = budget
    BY <1>t, <1>2 DEF ToolsInv, UseTool
  <2>2. Len(Tail(todo)) = Len(todo) - 1 /\ Tail(todo) \in Seq(Tools)
    BY <1>c, <2>1, HeadTailProperties
  <2>3. Pythons(todo) = Pythons(Tail(todo)) + (IF Head(todo) = "run_python" THEN 1 ELSE 0)
        /\ Pythons(Tail(todo)) \in Nat
    BY <1>c, <2>1, <2>2, PythonsOfTail, PythonsType
  <2>4. PICK runs \in Runs(Head(todo)) :
           did' = [did EXCEPT !.tools = @ + 1, !.python = @ + runs,
                              !.lateTools = IF late THEN @ + 1 ELSE @]
    BY <1>2 DEF UseTool
  <2>5. did'.tools = did.tools + 1 /\ did'.python = did.python + runs
        /\ did'.lateTools = IF late THEN did.lateTools + 1 ELSE did.lateTools
    BY <1>t, <2>4 DEF LoopTypeOK, Histories
  <2>6. runs \in {0, 1} /\ (Head(todo) # "run_python" => runs = 0)
    BY DEF Runs
  <2>7. did.lateTools = 0
    BY <1>t, <2>1 DEF ToolsInv, Stopped
  <2>8. did'.tools + Len(todo') <= budget'.tools /\ did'.python + Pythons(todo') <= budget'.python
    BY SMTT(30), <1>t, <1>c, <2>1, <2>2, <2>3, <2>5, <2>6 DEF ToolsInv
  <2>9. did'.lateTools = 0 \/ (did'.lateTools = 1 /\ late')
    BY <2>1, <2>5, <2>7
  <2> QED
    BY <2>1, <2>8, <2>9 DEF ToolsInv, Stopped
<1>3. CASE Enter \/ LoopEnds \/ Refuse \/ RequestTooLong \/ RecordAttempt
  <2>1. UNCHANGED <<budget, todo, late, did>> /\ pc \in {"enter", "check", "request"}
        /\ pc' \in {"check", "captured", "raised", "call"}
    BY <1>3 DEF Enter, LoopEnds, Refuse, RequestTooLong, RecordAttempt, Checkpoint
  <2> QED
    BY <1>t, <2>1 DEF ToolsInv, Stopped
<1>4. CASE CountTurn
  <2>1. UNCHANGED <<todo, late, did>> /\ pc = "check" /\ pc' = "request"
        /\ budget'.tools = budget.tools /\ budget'.python = budget.python
    BY <1>t, <1>4 DEF CountTurn, LoopTypeOK, Budgets
  <2> QED
    BY <1>t, <2>1 DEF ToolsInv, Stopped
<1>5. CASE BeginCall
  <2>1. UNCHANGED <<todo, late, budget>> /\ pc = "call" /\ pc' = "waiting"
        /\ did'.tools = did.tools /\ did'.python = did.python /\ did'.lateTools = did.lateTools
    BY <1>t, <1>5 DEF BeginCall, LoopTypeOK, Histories
  <2> QED
    BY <1>t, <2>1 DEF ToolsInv, Stopped
<1>6. CASE CallFails \/ AnswerRejected \/ ToolRaises \/ SettleFails \/ Dies
  <2>1. UNCHANGED <<budget, todo, late, did>> /\ pc' \in Stopped
    BY <1>6 DEF CallFails, AnswerRejected, ToolRaises, SettleFails, Dies, Stopped
  <2> QED
    BY <1>t, <2>1 DEF ToolsInv, Stopped
<1>7. CASE Settle
  <2>1. UNCHANGED <<budget, todo, late, did>> /\ pc = "settle" /\ late \in BOOLEAN
    BY <1>t, <1>7 DEF Settle, LoopTypeOK
  <2>2. \/ pc' = "raised"
        \/ ~late /\ todo # <<>> /\ pc' = "tool"
        \/ ~late /\ todo = <<>> /\ pc' \in {"captured", "check"}
    BY <1>7 DEF Settle
  <2> QED
    BY <1>t, <2>1, <2>2 DEF ToolsInv, Stopped
<1>8. CASE NextPhase
  <2>1. UNCHANGED <<budget, todo, late, did>> /\ pc = "captured" /\ pc' \in {"enter", "done", "raised"}
    BY <1>8 DEF NextPhase
  <2> QED
    BY <1>t, <2>1 DEF ToolsInv, Stopped
<1>9. CASE Expire
  BY <1>t, <1>9 DEF ToolsInv, Stopped, Expire
<1> QED
  BY <1>1, <1>2, <1>3, <1>4, <1>5, <1>6, <1>7, <1>8, <1>9 DEF LoopNext, LoopStep

LEMMA CostPreserved ==
    ASSUME LoopInv, LoopNext
    PROVE  CostInv'
<1>t. LoopTypeOK /\ CostInv
  BY DEF LoopInv
<1>c. did.cost \in Nat /\ did.earlier \in Nat /\ budget.cost \in Nat /\ auth.metered \in BOOLEAN
  BY <1>t, CounterTypes
<1>1. ASSUME NEW answer \in Answers, NEW cost \in CostReports, Answered(answer, cost)
      PROVE  CostInv'
  <2>1. auth' = auth /\ pc = "waiting"
    BY <1>1 DEF Answered
  <2>2. /\ did'.earlier = did.earlier + did.cost
        /\ did'.cost = IF cost = None THEN 0 ELSE cost
    BY <1>t, <1>1 DEF Answered, LoopTypeOK, Histories
  <2>3. budget'.cost = Charged(cost)
    BY <1>t, <1>1 DEF Answered, LoopTypeOK, Budgets
  <2>4. CASE pc' = "raised"
    BY <1>t, <1>c, <2>1, <2>2, <2>4 DEF CostInv, Stopped
  <2>5. CASE pc' # "raised"
    <3>1. Verdict(answer, cost) = "response_received"
      BY <1>1, <2>5 DEF Answered
    <3>2. auth.metered => Charged(cost) <= MaxCost /\ cost # None
      BY <1>t, <3>1, AcceptedFits
    <3>3. auth.metered => Charged(cost) = budget.cost + cost
      BY <3>2 DEF Charged
    <3> QED
      BY <1>t, <1>c, <2>1, <2>2, <2>3, <3>2, <3>3 DEF CostInv, Stopped, CostReports, None
  <2> QED
    BY <2>4, <2>5
<1>2. CASE CountTurn
  <2>1. UNCHANGED <<auth, did>> /\ pc = "check" /\ budget'.cost = budget.cost
    BY <1>t, <1>2 DEF CountTurn, LoopTypeOK, Budgets
  <2> QED
    BY <1>t, <2>1 DEF CostInv, Stopped
<1>3. CASE BeginCall
  <2>1. UNCHANGED <<auth, budget>> /\ pc = "call"
        /\ did'.earlier = did.earlier /\ did'.cost = did.cost
    BY <1>t, <1>3 DEF BeginCall, LoopTypeOK, Histories
  <2> QED
    BY <1>t, <2>1 DEF CostInv, Stopped
<1>4. CASE UseTool
  <2>1. UNCHANGED <<auth, budget>> /\ pc = "tool"
        /\ did'.earlier = did.earlier /\ did'.cost = did.cost
    BY <1>t, <1>4 DEF UseTool, LoopTypeOK, Histories
  <2> QED
    BY <1>t, <2>1 DEF CostInv, Stopped
<1>5. CASE \/ Enter \/ LoopEnds \/ Refuse \/ RequestTooLong \/ RecordAttempt \/ CallFails
           \/ AnswerRejected \/ ToolRaises \/ Settle \/ SettleFails \/ NextPhase \/ Expire \/ Dies
  <2>1. UNCHANGED <<auth, budget, did>> /\ pc \notin Stopped
    BY <1>5 DEF Enter, LoopEnds, Refuse, RequestTooLong, RecordAttempt, CallFails, AnswerRejected,
                ToolRaises, Settle, SettleFails, NextPhase, Expire, Dies, Stopped, Outcome
  <2> QED
    BY <1>t, <2>1 DEF CostInv
<1> QED
  BY <1>1, <1>2, <1>3, <1>4, <1>5 DEF LoopNext, LoopStep

\* The disk lags behind by the last record at most, and only when the attempt has stopped.
LEMMA RecordsPreserved ==
    ASSUME LoopInv, LoopNext
    PROVE  RecordsInv' /\ AccountKept'
<1>t. LoopTypeOK /\ RecordsInv /\ AccountKept /\ LoopTypeOK'
  BY TypesPreserved DEF LoopInv
<1>c. /\ calls \in Seq(Records) /\ Len(calls) \in Nat /\ DOMAIN calls = 1..Len(calls)
      /\ did.calls \in Nat
  BY <1>t, CounterTypes, LenProperties DEF LoopTypeOK
<1>1. CASE RecordAttempt
  <2>1. pc = "request" /\ pc' \in {"call", "raised"} /\ did' = did /\ calls' = Append(calls, Attempt)
        /\ saved' \in {saved, calls'} /\ (pc' = "call" => saved' = calls')
    BY <1>1 DEF RecordAttempt, Checkpoint
  <2>2. saved = calls /\ Len(calls) = did.calls
        /\ \A i \in 1..Len(calls) : /\ calls[i].late => calls[i].status # "response_received"
                                    /\ calls[i].status = "response_received"
    BY <1>t, <1>c, <2>1 DEF RecordsInv, Stopped
  <2>3. Attempt \in Records
    <3>1. turn.now \in 1..MaxTurns /\ budget.turns \in 1..MaxTurns
      BY <1>c, <2>1, CounterTypes DEF LoopInv, TurnsInv
    <3> QED
      BY <1>t, <3>1 DEF LoopTypeOK, Attempt, Records, CostReports
  <2>4. /\ Len(calls') = Len(calls) + 1 /\ DOMAIN calls' = 1..(Len(calls) + 1)
        /\ \A i \in 1..Len(calls) : calls'[i] = calls[i]
        /\ calls'[Len(calls) + 1] = Attempt
    BY <1>c, <2>1, <2>3, AppendProperties, LenProperties
  <2>5. Attempt.late = FALSE
    BY DEF Attempt
  <2>6. RecordsInv'
    BY <1>c, <2>1, <2>2, <2>4, <2>5 DEF RecordsInv, Stopped
  <2>7. AccountKept'
    BY <1>c, <2>1, <2>2, <2>4 DEF AccountKept
  <2> QED
    BY <2>6, <2>7
<1>2. CASE CallEnds
  <2>1. PICK record \in Records :
           /\ Recorded(record)
           /\ record.late => record.status # "response_received"
           /\ pc' # "raised" => record.status = "response_received"
    BY <1>2, CallEndsRecord
  <2>2. /\ pc = "waiting" /\ Len(calls) >= 1 /\ pc' \in {"captured", "tool", "raised"}
        /\ did'.calls = did.calls
        /\ saved' \in {saved, calls'} /\ (pc' # "raised" => saved' = calls')
    BY <1>2, CallEndsRecord
  <2>3. /\ Len(calls') = Len(calls) /\ DOMAIN calls' = 1..Len(calls)
        /\ \A i \in 1..Len(calls) : calls'[i] = IF i = Len(calls) THEN record ELSE calls[i]
    <3>1. calls \in Seq(Records) /\ Len(calls) >= 1 /\ Recorded(record)
      BY <1>c, <2>1, <2>2
    <3> QED
      BY <3>1, RecordedKeepsOthers
  <2>4. saved = calls /\ Len(calls) = did.calls
        /\ \A i \in 1..Len(calls) :
               /\ calls[i].late => calls[i].status # "response_received"
               /\ i < Len(calls) => calls[i].status = "response_received"
    BY <1>t, <1>c, <2>2 DEF RecordsInv, Stopped
  <2>5. RecordsInv'
    BY <1>c, <2>1, <2>2, <2>3, <2>4 DEF RecordsInv, Stopped
  <2>6. AccountKept'
    BY <1>c, <2>2, <2>3, <2>4 DEF AccountKept
  <2> QED
    BY <2>5, <2>6
<1>3. CASE BeginCall
  <2>1. UNCHANGED <<calls, saved>> /\ pc = "call" /\ pc' = "waiting" /\ did'.calls = did.calls + 1
    BY <1>t, <1>3 DEF BeginCall, LoopTypeOK, Histories
  <2>2. RecordsInv'
    BY <1>t, <1>c, <2>1 DEF RecordsInv, Stopped
  <2>3. saved = calls /\ Len(calls) = did.calls + 1
    BY <1>t, <2>1 DEF RecordsInv, Stopped
  <2>4. AccountKept'
    BY <1>c, <2>1, <2>3 DEF AccountKept
  <2> QED
    BY <2>2, <2>4
<1>4. CASE UseTool
  <2>1. UNCHANGED <<calls, saved>> /\ pc = "tool" /\ pc' = "settle" /\ did'.calls = did.calls
    BY <1>t, <1>4 DEF UseTool, LoopTypeOK, Histories
  <2>2. saved = calls /\ Len(calls) = did.calls
        /\ \A i \in DOMAIN calls : /\ calls[i].late => calls[i].status # "response_received"
                                   /\ calls[i].status = "response_received"
    BY <1>t, <1>c, <2>1 DEF RecordsInv, Stopped
  <2>3. RecordsInv'
    BY <1>c, <2>1, <2>2 DEF RecordsInv, Stopped
  <2>4. AccountKept'
    BY <1>t, <2>1 DEF AccountKept
  <2> QED
    BY <2>3, <2>4
<1>5. CASE \/ Enter \/ LoopEnds \/ Refuse \/ CountTurn \/ RequestTooLong \/ ToolRaises \/ Settle
           \/ SettleFails \/ NextPhase
  <2>1. /\ UNCHANGED <<calls, saved, did>> /\ pc \notin Stopped \cup {"call", "waiting"}
        /\ pc' # "call"
    BY <1>5 DEF Enter, LoopEnds, Refuse, CountTurn, RequestTooLong, ToolRaises, Settle, SettleFails,
                NextPhase, Stopped
  <2> QED
    BY <1>t, <2>1 DEF RecordsInv, AccountKept, Stopped
<1>6. CASE Dies
  <2>1. UNCHANGED <<calls, saved, did>> /\ pc' \in Stopped
    BY <1>6 DEF Dies, Stopped
  <2> QED
    BY <1>t, <2>1 DEF RecordsInv, AccountKept
<1>7. CASE Expire
  BY <1>t, <1>7 DEF Expire, RecordsInv, AccountKept
<1> QED
  BY <1>1, <1>2, <1>3, <1>4, <1>5, <1>6, <1>7 DEF LoopNext, LoopStep, CallEnds

-----------------------------------------------------------------------------
LEMMA LoopInvariant == LoopSpec => []LoopInv
<1>1. LoopInit => LoopInv
  <2> SUFFICES ASSUME LoopInit PROVE LoopInv
    OBVIOUS
  <2>1. /\ pc = "enter" /\ phase = 1 /\ turn = [now |-> 0, limit |-> 0]
        /\ budget = [turns |-> 0, tools |-> 0, python |-> 0, cost |-> 0]
        /\ calls = <<>> /\ saved = <<>> /\ size = 2 /\ todo = <<>> /\ late = FALSE
        /\ did = [calls |-> 0, tools |-> 0, python |-> 0, lateTools |-> 0, cost |-> 0, earlier |-> 0]
        /\ auth \in [change : BOOLEAN, metered : BOOLEAN] /\ (auth.change => MaxTurns >= 4)
    BY DEF LoopInit
  <2>2. calls \in Seq(Records) /\ saved \in Seq(Records) /\ Len(calls) = 0 /\ Len(saved) = 0
    BY <2>1, EmptySeq
  <2>e. DOMAIN calls = {}
    BY <2>2, LenProperties
  <2>p. todo \in Seq(Tools) /\ Len(todo) = 0
    BY <2>1, EmptySeq
  <2>z. Pythons(todo) = 0
    BY <2>1, <2>p, PythonsType
  <2>3. todo \in Answers
    <3>1. todo \in Seq(Tools) /\ Len(todo) <= MaxToolCalls
      BY <2>p
    <3> QED
      BY <3>1, SequencesAreAnswers
  <2>4. turn \in TurnCounts /\ budget \in Budgets /\ did \in Histories
    BY <2>1 DEF TurnCounts, Budgets, Histories
  <2>5. LoopTypeOK
    <3>1. pc \in Labels
      BY <2>1 DEF Labels
    <3>2. phase \in 1..2 /\ size \in Nat
      BY <2>1
    <3>3. auth \in [change : BOOLEAN, metered : BOOLEAN] /\ late \in BOOLEAN
      BY <2>1, Zenon
    <3> QED
      BY <2>2, <2>3, <2>4, <3>1, <3>2, <3>3 DEF LoopTypeOK
  <2>6. TurnsInv
    <3>1. budget.turns = 0 /\ turn.now = 0 /\ turn.limit = 0
      BY <2>1
    <3> QED
      BY <2>1, <2>2, <3>1 DEF TurnsInv
  <2>7. ToolsInv
    <3>1. did.tools = 0 /\ did.python = 0 /\ did.lateTools = 0
          /\ budget.tools = 0 /\ budget.python = 0
      BY <2>1
    <3> QED
      BY <2>1, <2>p, <2>z, <3>1 DEF ToolsInv, Stopped
  <2>8. CostInv
    BY <2>1 DEF CostInv
  <2>9. RecordsInv
    <3>1. did.calls = 0
      BY <2>1
    <3> QED
      BY <2>1, <2>2, <2>e, <3>1 DEF RecordsInv
  <2>10. AccountKept
    BY <2>1, <2>2 DEF AccountKept
  <2> QED
    BY <2>5, <2>6, <2>7, <2>8, <2>9, <2>10 DEF LoopInv
<1>2. LoopInv /\ [LoopNext]_loopVars => LoopInv'
  <2>1. ASSUME LoopInv, LoopNext PROVE LoopInv'
    BY <2>1, TypesPreserved, TurnsPreserved, ToolsPreserved, CostPreserved, RecordsPreserved
       DEF LoopInv
  <2>2. ASSUME LoopInv, UNCHANGED loopVars PROVE LoopInv'
    BY <2>2 DEF loopVars, LoopInv, LoopTypeOK, TurnsInv, ToolsInv, CostInv, RecordsInv, AccountKept,
                Pythons
  <2> QED
    BY <2>1, <2>2
<1> QED
  BY <1>1, <1>2, PTL DEF LoopSpec

\* No call, tool or script beyond what was authorized, over both phases on one budget, and the
\* baseline leaves the change its two turns: whatever the limits and the answers.
THEOREM SpendingIsBounded == LoopSpec => []SpendingBounded
<1>1. ASSUME LoopInv PROVE SpendingBounded
  <2>1. LoopTypeOK /\ TurnsInv /\ ToolsInv /\ CostInv /\ AccountKept /\ RecordsInv
    BY <1>1 DEF LoopInv
  <2>2. /\ Len(calls) \in Nat /\ Len(saved) \in Nat /\ Len(todo) \in Nat /\ Pythons(todo) \in Nat
        /\ budget.tools \in 0..MaxTools /\ budget.python \in 0..MaxPython
        /\ did.calls \in Nat /\ did.tools \in Nat /\ did.python \in Nat
    BY <2>1, CounterTypes, AnswersAreSequences, PythonsType, LenProperties DEF LoopTypeOK
  <2>3. did.calls <= Len(calls)
    BY <2>1, <2>2 DEF AccountKept
  <2>4. did.tools <= MaxTools /\ did.python <= MaxPython
    BY <2>1, <2>2 DEF ToolsInv
  <2> QED
    BY <2>1, <2>3, <2>4 DEF SpendingBounded, TurnsInv, CostInv
<1> QED
  BY <1>1, LoopInvariant, PTL

\* The first thing that goes wrong ends the conversation, also over the two phases, and an answer
\* that is late is not acted upon.
THEOREM OneStrikeOnly == LoopSpec => []OneStrike
<1>1. ASSUME LoopInv PROVE OneStrike
  BY <1>1 DEF LoopInv, OneStrike, ToolsInv, RecordsInv, Stopped, Outcome
<1> QED
  BY <1>1, LoopInvariant, PTL

\* Whenever the process dies, the run log on disk accounts for every call that may have been made.
THEOREM AccountIsKept == LoopSpec => []AccountKept
<1>1. LoopInv => AccountKept
  BY DEF LoopInv
<1> QED
  BY <1>1, LoopInvariant, PTL

-----------------------------------------------------------------------------
(***************************************************************************)
(* What can be proved of ConversationEnds: the conversation has a number   *)
(* of steps left that is bounded by the limits, and every step but the     *)
(* passing of the deadline uses up at least one.                           *)
(***************************************************************************)

\* More than the steps of one turn with all the tools an answer may ask for.
PerTurn == 2 * MaxToolCalls + 10

\* The allowance for the turns that have not been counted yet.
Room(turns) == PerTurn * (MaxTurns - turns)

\* 1 as long as another phase may follow.
PhasesLeft == IF auth.change /\ phase = 1 THEN 1 ELSE 0

\* Steps left at a program point with n tools still to be used.
StepsAt(point, room, again, n) ==
    CASE point = "enter"    -> room + 10 * again + 5
      [] point = "check"    -> room + 10 * again + 4
      [] point = "request"  -> room + PerTurn + 10 * again + 3
      [] point = "call"     -> room + PerTurn + 10 * again + 2
      [] point = "waiting"  -> room + PerTurn + 10 * again + 1
      [] point = "tool"     -> room + 10 * again + 4 + 2 * n
      [] point = "settle"   -> room + 10 * again + 5 + 2 * n
      [] point = "captured" -> room + 10 * again + 2
      [] point \in Outcome  -> 0

StepsLeft == StepsAt(pc, Room(budget.turns), PhasesLeft, Len(todo))

MaxSteps == PerTurn * MaxTurns + PerTurn + 15

LEMMA StepsAtPoint ==
    ASSUME NEW room, NEW again, NEW n
    PROVE  /\ StepsAt("enter", room, again, n) = room + 10 * again + 5
           /\ StepsAt("check", room, again, n) = room + 10 * again + 4
           /\ StepsAt("request", room, again, n) = room + PerTurn + 10 * again + 3
           /\ StepsAt("call", room, again, n) = room + PerTurn + 10 * again + 2
           /\ StepsAt("waiting", room, again, n) = room + PerTurn + 10 * again + 1
           /\ StepsAt("tool", room, again, n) = room + 10 * again + 4 + 2 * n
           /\ StepsAt("settle", room, again, n) = room + 10 * again + 5 + 2 * n
           /\ StepsAt("captured", room, again, n) = room + 10 * again + 2
           /\ StepsAt("done", room, again, n) = 0
           /\ StepsAt("raised", room, again, n) = 0
           /\ StepsAt("dead", room, again, n) = 0
BY DEF StepsAt, Outcome

\* Counting a turn makes the room of one turn available to it.
LEMMA RoomOfTurn ==
    ASSUME NEW turns \in 0..MaxTurns
    PROVE  /\ Room(turns) \in 0..(PerTurn * MaxTurns)
           /\ turns < MaxTurns => Room(turns) = Room(turns + 1) + PerTurn
<1>1. PerTurn \in Nat /\ PerTurn >= 10
  BY DEF PerTurn
<1>2. PICK rest \in Nat : rest = MaxTurns - turns
  OBVIOUS
<1>3. PerTurn * MaxTurns = PerTurn * rest + PerTurn * turns
  BY <1>1, <1>2
<1>4. PerTurn * rest \in Nat /\ PerTurn * turns \in Nat
  BY <1>1, <1>2
<1>5. Room(turns) = PerTurn * rest
  BY <1>2 DEF Room
<1>6. Room(turns) \in 0..(PerTurn * MaxTurns)
  BY <1>3, <1>4, <1>5
<1>7. Room(turns + 1) = PerTurn * rest - PerTurn
  <2>1. Room(turns + 1) = PerTurn * (rest - 1)
    BY <1>2 DEF Room
  <2> QED BY <1>1, <2>1
<1> QED BY <1>1, <1>4, <1>5, <1>6, <1>7

LEMMA StepsLeftType ==
    ASSUME LoopInv
    PROVE  StepsLeft \in 0..MaxSteps /\ (StepsLeft = 0 <=> pc \in Outcome)

<1> DEFINE room == Room(budget.turns)
           Goal == StepsLeft \in 0..MaxSteps /\ (StepsLeft = 0 <=> pc \in Outcome)
<1> SUFFICES Goal
  OBVIOUS
<1>1. room \in 0..(PerTurn * MaxTurns) /\ PerTurn \in Nat /\ PerTurn * MaxTurns \in Nat
  BY RoomOfTurn DEF LoopInv, LoopTypeOK, Budgets, PerTurn
<1>2. PhasesLeft \in {0, 1} /\ pc \in Labels
  BY DEF PhasesLeft, LoopInv, LoopTypeOK
<1>3. Len(todo) \in 0..MaxToolCalls
  BY AnswersAreSequences DEF LoopInv, LoopTypeOK
<1>4. PerTurn = 2 * MaxToolCalls + 10
  BY DEF PerTurn
<1> DEFINE most == PerTurn * MaxTurns
<1>5. most \in Nat /\ room \in 0..most /\ MaxSteps = most + PerTurn + 15
  BY <1>1 DEF MaxSteps
<1>6. StepsLeft = StepsAt(pc, room, PhasesLeft, Len(todo))
  BY DEF StepsLeft
<1> HIDE DEF room, most
<1>7. CASE pc \in {"enter", "check", "captured"}
  <2>1. StepsLeft \in {room + 10 * PhasesLeft + k : k \in 2..5}
    BY <1>1, <1>6, <1>7, StepsAtPoint
  <2> QED BY <1>1, <1>2, <1>5, <1>7, <2>1 DEF Outcome
<1>8. CASE pc \in {"request", "call", "waiting"}
  <2>1. StepsLeft \in {room + PerTurn + 10 * PhasesLeft + k : k \in 1..3}
    BY <1>1, <1>6, <1>8, StepsAtPoint
  <2> QED BY <1>1, <1>2, <1>5, <1>8, <2>1 DEF Outcome
<1>9. CASE pc \in {"tool", "settle"}
  <2>1. StepsLeft \in {room + 10 * PhasesLeft + 2 * Len(todo) + k : k \in 4..5}
    BY <1>1, <1>2, <1>3, <1>6, <1>9, StepsAtPoint
  <2> QED BY <1>1, <1>2, <1>3, <1>4, <1>5, <1>9, <2>1 DEF Outcome
<1>10. CASE pc \in Outcome
  <2>1. StepsLeft = 0
    BY <1>6, <1>10, StepsAtPoint DEF Outcome
  <2> QED BY <1>1, <1>5, <1>10, <2>1
<1> HIDE DEF Goal
<1> QED BY <1>2, <1>7, <1>8, <1>9, <1>10 DEF Labels

LEMMA EachStepFalls ==
    ASSUME LoopInv, LoopInv', LoopStep \/ Dies
    PROVE  StepsLeft' < StepsLeft
<1> DEFINE room == Room(budget.turns)
           next == Room(budget'.turns)
           Goal == StepsLeft' < StepsLeft
<1> SUFFICES Goal
  OBVIOUS
<1>1. /\ StepsLeft = StepsAt(pc, room, PhasesLeft, Len(todo))
      /\ StepsLeft' = StepsAt(pc', next, PhasesLeft', Len(todo'))
  BY DEF StepsLeft
<1>2. /\ budget.turns \in 0..MaxTurns /\ budget'.turns \in 0..MaxTurns
      /\ todo \in Answers /\ todo' \in Answers
  BY DEF LoopInv, LoopTypeOK, Budgets
<1>3. room \in Nat /\ next \in Nat /\ PerTurn = 2 * MaxToolCalls + 10
  BY <1>2, RoomOfTurn DEF PerTurn
<1>4. Len(todo) \in 0..MaxToolCalls /\ Len(todo') \in 0..MaxToolCalls
  BY <1>2, AnswersAreSequences
<1>5. PhasesLeft \in {0, 1} /\ (UNCHANGED <<auth, phase>> => PhasesLeft' = PhasesLeft)
  BY DEF PhasesLeft
<1>6. budget' = budget \/ budget'.turns = budget.turns => next = room
  OBVIOUS
<1>7. CASE pc' \in Outcome /\ pc \notin Outcome
  <2>1. StepsLeft' = 0
    BY <1>1, <1>7, StepsAtPoint DEF Outcome
  <2>2. StepsLeft \in Nat /\ StepsLeft # 0
    BY <1>3, <1>7, StepsLeftType DEF MaxSteps
  <2> QED BY <2>1, <2>2
<1> HIDE DEF room, next
<1>8. CASE Enter \/ LoopEnds \/ Refuse
  <2>1. \/ pc' \in Outcome /\ pc \notin Outcome
        \/ pc = "enter" /\ pc' = "check" /\ UNCHANGED <<auth, phase, budget>>
        \/ pc = "check" /\ pc' = "captured" /\ UNCHANGED <<auth, phase, budget>>
    BY <1>8 DEF Enter, LoopEnds, Refuse, Outcome
  <2>2. CASE pc = "enter" /\ pc' = "check" /\ UNCHANGED <<auth, phase, budget>>
    <3>1. StepsLeft = room + 10 * PhasesLeft + 5 /\ StepsLeft' = room + 10 * PhasesLeft + 4
      BY <1>1, <1>5, <1>6, <2>2, StepsAtPoint
    <3> QED BY <1>3, <1>5, <3>1
  <2>3. CASE pc = "check" /\ pc' = "captured" /\ UNCHANGED <<auth, phase, budget>>
    <3>1. StepsLeft = room + 10 * PhasesLeft + 4 /\ StepsLeft' = room + 10 * PhasesLeft + 2
      BY <1>1, <1>5, <1>6, <2>3, StepsAtPoint
    <3> QED BY <1>3, <1>5, <3>1
  <2> QED BY <1>7, <2>1, <2>2, <2>3
<1>9. CASE CountTurn
  <2>1. /\ pc = "check" /\ pc' = "request" /\ UNCHANGED <<auth, phase>>
        /\ budget.turns < MaxTurns /\ budget'.turns = budget.turns + 1
    BY <1>9 DEF CountTurn, LoopInv, LoopTypeOK, Budgets
  <2>2. room = next + PerTurn
    BY <1>2, <2>1, RoomOfTurn DEF room, next
  <2>3. /\ StepsLeft = room + 10 * PhasesLeft + 4
        /\ StepsLeft' = next + PerTurn + 10 * PhasesLeft + 3
    BY <1>1, <1>5, <2>1, StepsAtPoint
  <2> QED BY <1>3, <1>5, <2>2, <2>3
<1>10. CASE RequestTooLong \/ CallFails \/ AnswerRejected \/ ToolRaises \/ SettleFails \/ Dies
  BY <1>7, <1>10 DEF RequestTooLong, CallFails, AnswerRejected, ToolRaises, SettleFails, Dies, Outcome
<1>11. CASE RecordAttempt \/ BeginCall
  <2>1. \/ pc' \in Outcome /\ pc \notin Outcome
        \/ pc = "request" /\ pc' = "call" /\ UNCHANGED <<auth, phase, budget>>
        \/ pc = "call" /\ pc' = "waiting" /\ UNCHANGED <<auth, phase, budget>>
    BY <1>11 DEF RecordAttempt, Checkpoint, BeginCall, Outcome
  <2>2. CASE pc = "request" /\ pc' = "call" /\ UNCHANGED <<auth, phase, budget>>
    <3>1. /\ StepsLeft = room + PerTurn + 10 * PhasesLeft + 3
          /\ StepsLeft' = room + PerTurn + 10 * PhasesLeft + 2
      BY <1>1, <1>5, <1>6, <2>2, StepsAtPoint
    <3> QED BY <1>3, <1>5, <3>1
  <2>3. CASE pc = "call" /\ pc' = "waiting" /\ UNCHANGED <<auth, phase, budget>>
    <3>1. /\ StepsLeft = room + PerTurn + 10 * PhasesLeft + 2
          /\ StepsLeft' = room + PerTurn + 10 * PhasesLeft + 1
      BY <1>1, <1>5, <1>6, <2>3, StepsAtPoint
    <3> QED BY <1>3, <1>5, <3>1
  <2> QED BY <1>7, <2>1, <2>2, <2>3
<1>12. ASSUME NEW answer \in Answers, NEW cost \in CostReports, Answered(answer, cost)
       PROVE  Goal
  <2>1. /\ pc = "waiting" /\ pc' \in {"captured", "tool", "raised"}
        /\ UNCHANGED <<auth, phase>> /\ budget'.turns = budget.turns
    BY <1>12 DEF Answered, Checkpoint, LoopInv, LoopTypeOK, Budgets
  <2>2. CASE pc' = "raised"
    BY <1>7, <2>1, <2>2 DEF Outcome
  <2>3. CASE pc' \in {"captured", "tool"}
    <3>1. /\ StepsLeft = room + PerTurn + 10 * PhasesLeft + 1
          /\ StepsLeft' \in {room + 10 * PhasesLeft + 2,
                             room + 10 * PhasesLeft + 4 + 2 * Len(todo')}
      BY <1>1, <1>5, <1>6, <2>1, <2>3, StepsAtPoint
    <3> QED BY <1>3, <1>4, <1>5, <3>1
  <2> QED BY <2>1, <2>2, <2>3
<1>13. CASE UseTool
  <2>1. pc = "tool" /\ pc' = "settle" /\ todo' = Tail(todo) /\ UNCHANGED <<auth, phase, budget>>
    BY <1>13 DEF UseTool
  <2>2. todo \in Seq(Tools) /\ todo # <<>>
    BY <1>2, <2>1, AnswersAreSequences DEF LoopInv, ToolsInv
  <2>3. Len(todo') = Len(todo) - 1
    BY <2>1, <2>2, HeadTailProperties
  <2>4. /\ StepsLeft = room + 10 * PhasesLeft + 4 + 2 * Len(todo)
        /\ StepsLeft' = room + 10 * PhasesLeft + 5 + 2 * Len(todo')
    BY <1>1, <1>5, <1>6, <2>1, StepsAtPoint
  <2> QED BY <1>3, <1>4, <1>5, <2>3, <2>4
<1>14. CASE Settle
  <2>1. /\ pc = "settle" /\ pc' \in {"raised", "tool", "captured", "check"}
        /\ UNCHANGED <<auth, phase, budget, todo>>
    BY <1>14 DEF Settle
  <2>2. CASE pc' = "raised"
    BY <1>7, <2>1, <2>2 DEF Outcome
  <2>3. CASE pc' \in {"tool", "captured", "check"}
    <3>1. /\ StepsLeft = room + 10 * PhasesLeft + 5 + 2 * Len(todo)
          /\ StepsLeft' \in {room + 10 * PhasesLeft + 4 + 2 * Len(todo),
                             room + 10 * PhasesLeft + 4, room + 10 * PhasesLeft + 2}
      BY <1>1, <1>5, <1>6, <2>1, <2>3, StepsAtPoint
    <3> QED BY <1>3, <1>4, <1>5, <3>1
  <2> QED BY <2>1, <2>2, <2>3
<1>15. CASE NextPhase
  <2>1. pc = "captured" /\ UNCHANGED <<auth, budget>>
    BY <1>15 DEF NextPhase
  <2>2. CASE pc' = "enter"
    <3>1. PhasesLeft = 1 /\ PhasesLeft' = 0
      BY <1>15, <2>2 DEF NextPhase, PhasesLeft
    <3> QED BY <1>1, <1>3, <1>6, <2>1, <2>2, <3>1, StepsAtPoint
  <2>3. CASE pc' # "enter"
    BY <1>7, <1>15, <2>1, <2>3 DEF NextPhase, Outcome
  <2> QED BY <2>2, <2>3
<1> HIDE DEF Goal
<1> QED BY <1>8, <1>9, <1>10, <1>11, <1>12, <1>13, <1>14, <1>15 DEF LoopStep

\* Every step of the conversation brings it closer to its end; the passing of the deadline does
\* not put it off.
StepsUsedUp ==
    [][/\ LoopStep \/ Dies => StepsLeft' < StepsLeft
       /\ Expire => StepsLeft' = StepsLeft]_loopVars

\* Steps are left exactly as long as the conversation runs, and never more than MaxSteps.
StepsBound == StepsLeft \in 0..MaxSteps /\ (StepsLeft = 0 <=> pc \in Outcome)

\* A conversation is over after at most MaxSteps steps of the loop, a number that depends on
\* max_total_turns and the longest answer only: whatever the provider asks for and wherever time,
\* money or tools run out, neither loop of _phase_loop goes round without using up a turn or a
\* tool call.
THEOREM StepsBounded == LoopSpec => []StepsBound /\ StepsUsedUp
<1>1. LoopInv => StepsBound
  BY StepsLeftType DEF StepsBound
<1>2. LoopInv /\ LoopInv' /\ [LoopNext]_loopVars
        => [/\ LoopStep \/ Dies => StepsLeft' < StepsLeft
            /\ Expire => StepsLeft' = StepsLeft]_loopVars
  <2>1. ASSUME Expire
        PROVE  StepsLeft' = StepsLeft
    BY <2>1 DEF Expire, StepsLeft, PhasesLeft, Room
  <2> QED BY <2>1, EachStepFalls
<1> QED BY <1>1, <1>2, LoopInvariant, PTL DEF LoopSpec, StepsUsedUp
=============================================================================
