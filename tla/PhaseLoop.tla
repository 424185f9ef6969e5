------------------------------- MODULE PhaseLoop -------------------------------
(***************************************************************************)
(* The conversation of one attempt: cohort_executor._phase_loop, called    *)
(* for the baseline and, for a change task, for the change, in the same    *)
(* session and on one ExecutionBudget.  H2bExecutor has the files around   *)
(* it; here are the budgets: turns, tool calls, run_python calls, request  *)
(* and transcript bytes, cost and the wall-clock deadline, each of which   *)
(* is looked at in other places of the loop.                               *)
(*                                                                         *)
(* The provider may answer anything, at any time or not at all (the        *)
(* transport then raises), and the process may die at any step.            *)
(***************************************************************************)
EXTENDS Integers, Sequences, FiniteSets

CONSTANTS
    MaxTurns,      \* max_total_turns
    MaxTools,      \* max_total_tool_calls
    MaxPython,     \* max_run_python_calls
    MaxRequest,    \* max_request_bytes, in messages
    MaxTranscript, \* max_transcript_bytes, in messages
    MaxCost,       \* max_cost_usd
    Costs,         \* what the provider may report a call to cost
    MaxToolCalls   \* the longest list of tool calls in one answer

ASSUME MaxTurnsAssumption == MaxTurns \in Nat \ {0}
ASSUME BudgetAssumption ==
    /\ MaxTools \in Nat /\ MaxPython \in Nat /\ MaxRequest \in Nat /\ MaxTranscript \in Nat
    /\ MaxCost \in Nat /\ Costs \subseteq Nat /\ MaxToolCalls \in Nat

Tools == {"write_file", "run_python", "read_output"}
None  == -1   \* no cost was reported

\* A metered provider may leave the cost out; a free one may report one.
CostReports == Costs \cup {None}

Answers == UNION {[1..n -> Tools] : n \in 0..MaxToolCalls}

VARIABLES
    auth,    \* whether the task has a change, and the billing mode
    pc,
    phase,   \* 1: the baseline (or the only phase), 2: the change
    turn,    \* turns of this phase, and what they may come to
    budget,  \* what has been charged
    calls,   \* run_log["provider"]["calls"]
    saved,   \* the calls as the run log on disk has them
    size,    \* messages in the transcript
    todo,    \* tool calls of the last answer that are still to be carried out
    late,    \* the deadline has passed
    did      \* what happened outside: provider calls begun, tools used, scripts run, and
             \* what the last answer and the answers before it cost

loopVars == <<auth, pc, phase, turn, budget, calls, saved, size, todo, late, did>>

Final == {"attempted_not_reported", "response_rejected", "response_received", "cost_not_reported",
          "budget_exceeded", "zero_cost_contradicted", "after_deadline", "tool_budget",
          "python_budget"}

\* "ordinal" is the place in calls.
Records == [phase : 1..2, turn : 1..MaxTurns, total : 1..MaxTurns,
            status : {"attempted"} \cup Final,
            cost : CostReports, tools : 0..MaxToolCalls, late : BOOLEAN]

Outcome == {"done", "raised", "dead"}

Labels == {"enter", "check", "request", "call", "waiting", "tool", "settle", "captured"} \cup Outcome

TurnCounts == [now : 0..MaxTurns, limit : 0..MaxTurns]
Budgets    == [turns : 0..MaxTurns, tools : 0..MaxTools, python : 0..MaxPython, cost : Nat]
Histories  == [calls : Nat, tools : Nat, python : Nat, lateTools : Nat, cost : Nat, earlier : Nat]

LoopTypeOK ==
    /\ auth \in [change : BOOLEAN, metered : BOOLEAN]
    /\ pc \in Labels
    /\ phase \in 1..2
    /\ turn \in TurnCounts
    /\ budget \in Budgets
    /\ calls \in Seq(Records)
    /\ saved \in Seq(Records)
    /\ size \in Nat
    /\ todo \in Answers
    /\ late \in BOOLEAN
    /\ did \in Histories

\* The preflight refuses a change task with fewer than four turns.
LoopInit ==
    /\ auth \in [change : BOOLEAN, metered : BOOLEAN]
    /\ auth.change => MaxTurns >= 4
    /\ pc = "enter"
    /\ phase = 1
    /\ turn = [now |-> 0, limit |-> 0]
    /\ budget = [turns |-> 0, tools |-> 0, python |-> 0, cost |-> 0]
    /\ calls = <<>>
    /\ saved = <<>>
    /\ size = 2
    /\ todo = <<>>
    /\ late = FALSE
    /\ did = [calls |-> 0, tools |-> 0, python |-> 0, lateTools |-> 0, cost |-> 0, earlier |-> 0]

-----------------------------------------------------------------------------
Pythons(answer) == Cardinality({i \in DOMAIN answer : answer[i] = "run_python"})

Last == calls[Len(calls)]

\* The record of the current call is completed.
Recorded(record) == calls' = [calls EXCEPT ![Len(calls)] = record]

\* checkpoint(): the run log is written with the calls as they are now.  One that
\* raises may have written it or not.
Checkpoint(label) ==
    \/ saved' = calls' /\ pc' = label
    \/ saved' \in {saved, calls'} /\ pc' = "raised"

\* _assert_transcript_bound
TranscriptFits(n) == n <= MaxTranscript

\* Fault: the change phase finds what the baseline left it.
ReservedNone == 0

\* Turns kept for the change while the baseline is made.
Reserved == IF auth.change /\ phase = 1 THEN 2 ELSE 0

Enter ==
    /\ pc = "enter"
    /\ LET limit == MaxTurns - budget.turns - Reserved
       IN  IF limit < 1 THEN pc' = "raised" /\ UNCHANGED turn
           ELSE pc' = "check" /\ turn' = [now |-> 0, limit |-> limit]
    /\ UNCHANGED <<auth, phase, budget, calls, saved, size, todo, late, did>>

\* The end of the loop without an answer that asks for no tools.
LoopEnds ==
    /\ pc = "check"
    /\ turn.now >= turn.limit \/ budget.turns >= MaxTurns
    /\ pc' = "captured"
    /\ UNCHANGED <<auth, phase, turn, budget, calls, saved, size, todo, late, did>>

CostExhausted == auth.metered /\ budget.cost >= MaxCost

\* Deadline and cost are looked at before the turn is counted.
Refuse ==
    /\ pc = "check"
    /\ turn.now < turn.limit /\ budget.turns < MaxTurns
    /\ late \/ CostExhausted
    /\ pc' = "raised"
    /\ UNCHANGED <<auth, phase, turn, budget, calls, saved, size, todo, late, did>>

\* Fault: a turn is charged when its answer has been accepted.
CountTurnLate ==
    /\ pc = "check"
    /\ turn.now < turn.limit /\ budget.turns < MaxTurns
    /\ ~late /\ ~CostExhausted
    /\ pc' = "request"
    /\ turn' = [turn EXCEPT !.now = @ + 1]
    /\ UNCHANGED <<auth, phase, budget, calls, saved, size, todo, late, did>>

CountTurn ==
    /\ pc = "check"
    /\ turn.now < turn.limit /\ budget.turns < MaxTurns
    /\ ~late /\ ~CostExhausted
    /\ pc' = "request"
    /\ turn' = [turn EXCEPT !.now = @ + 1]
    /\ budget' = [budget EXCEPT !.turns = @ + 1]
    /\ UNCHANGED <<auth, phase, calls, saved, size, todo, late, did>>

\* Fault: a request that is too long gives its turn back.
RequestTooLongRefunded ==
    /\ pc = "request"
    /\ ~TranscriptFits(size) \/ size > MaxRequest
    /\ pc' = "check"
    /\ turn' = [turn EXCEPT !.now = @ - 1]
    /\ budget' = [budget EXCEPT !.turns = @ - 1]
    /\ UNCHANGED <<auth, phase, calls, saved, size, todo, late, did>>

\* The turn is spent even if the transcript or the request is too long to be sent.
RequestTooLong ==
    /\ pc = "request"
    /\ ~TranscriptFits(size) \/ size > MaxRequest
    /\ pc' = "raised"
    /\ UNCHANGED <<auth, phase, turn, budget, calls, saved, size, todo, late, did>>

Attempt == [phase |-> phase, turn |-> turn.now, total |-> budget.turns, status |-> "attempted",
            cost |-> None, tools |-> 0, late |-> FALSE]

\* Fault: the attempt is recorded in memory only; the next checkpoint saves it.
RecordAttemptUnsaved ==
    /\ pc = "request"
    /\ TranscriptFits(size) /\ size <= MaxRequest
    /\ calls' = Append(calls, Attempt)
    /\ pc' = "call"
    /\ UNCHANGED <<auth, phase, turn, budget, saved, size, todo, late, did>>

\* The attempt is on disk before the provider hears of it.
RecordAttempt ==
    /\ pc = "request"
    /\ TranscriptFits(size) /\ size <= MaxRequest
    /\ calls' = Append(calls, Attempt)
    /\ Checkpoint("call")
    /\ UNCHANGED <<auth, phase, turn, budget, size, todo, late, did>>

\* session.complete begins: the request may reach the provider.
BeginCall ==
    /\ pc = "call"
    /\ pc' = "waiting"
    /\ did' = [did EXCEPT !.calls = @ + 1]
    /\ UNCHANGED <<auth, phase, turn, budget, calls, saved, size, todo, late>>

\* The transport raised, timed out or was interrupted.
CallFails ==
    /\ pc = "waiting"
    /\ Recorded([Last EXCEPT !.status = "attempted_not_reported"])
    /\ saved' \in {saved, calls'}
    /\ pc' = "raised"
    /\ UNCHANGED <<auth, phase, turn, budget, size, todo, late, did>>

\* Fault: an answer of another model is passed over, and the next turn begins.
AnswerPassedOver ==
    /\ pc = "waiting"
    /\ Recorded([Last EXCEPT !.status = "response_rejected", !.late = late])
    /\ saved' = calls'
    /\ pc' = "check"
    /\ UNCHANGED <<auth, phase, turn, budget, size, todo, late, did>>

\* Malformed, or from another model than the authorized one.
AnswerRejected ==
    /\ pc = "waiting"
    /\ Recorded([Last EXCEPT !.status = "response_rejected", !.late = late])
    /\ saved' \in {saved, calls'}
    /\ pc' = "raised"
    /\ UNCHANGED <<auth, phase, turn, budget, size, todo, late, did>>

\* Fault: what this answer asks for is compared with the budget on its own.
OverToolsEach(answer) == Len(answer) > MaxTools

OverTools(answer) == budget.tools + Len(answer) > MaxTools

OverPython(answer) == budget.python + Pythons(answer) > MaxPython

Charged(cost) == IF auth.metered /\ cost # None THEN budget.cost + cost ELSE budget.cost

\* Fault: the deadline is left to the next turn.
VerdictTimeless(answer, cost) ==
    CASE auth.metered /\ cost = None                          -> "cost_not_reported"
      [] auth.metered /\ cost # None /\ Charged(cost) > MaxCost -> "budget_exceeded"
      [] ~auth.metered /\ cost \notin {None, 0}               -> "zero_cost_contradicted"
      [] OverTools(answer)                               -> "tool_budget"
      [] OverPython(answer)                              -> "python_budget"
      [] OTHER                                           -> "response_received"

\* What a well-formed answer is worth, in the order in which the code asks.
Verdict(answer, cost) ==
    CASE auth.metered /\ cost = None                          -> "cost_not_reported"
      [] auth.metered /\ cost # None /\ Charged(cost) > MaxCost -> "budget_exceeded"
      [] ~auth.metered /\ cost \notin {None, 0}               -> "zero_cost_contradicted"
      [] late                                            -> "after_deadline"
      [] OverTools(answer)                               -> "tool_budget"
      [] OverPython(answer)                              -> "python_budget"
      [] OTHER                                           -> "response_received"

\* Cost is charged before it is compared; tools are charged when all is accepted,
\* before the first of them is carried out.
Answered(answer, cost) ==
    /\ pc = "waiting"
    /\ LET verdict  == Verdict(answer, cost)
           accepted == verdict = "response_received"
       IN  /\ Recorded([Last EXCEPT !.status = verdict, !.cost = cost, !.tools = Len(answer),
                                    !.late = late])
           /\ budget' = [budget EXCEPT !.cost = Charged(cost),
                                       !.tools = IF accepted THEN @ + Len(answer) ELSE @,
                                       !.python = IF accepted THEN @ + Pythons(answer) ELSE @]
           /\ IF accepted
              THEN /\ size' = size + 1
                   /\ todo' = answer
                   /\ \/ /\ Checkpoint(IF answer = <<>> THEN "captured" ELSE "tool")
                         /\ TranscriptFits(size + 1)
                      \/ saved' \in {saved, calls'} /\ pc' = "raised"
              ELSE /\ saved' \in {saved, calls'} /\ pc' = "raised"
                   /\ UNCHANGED <<size, todo>>
    /\ did' = [did EXCEPT !.earlier = @ + did.cost, !.cost = IF cost = None THEN 0 ELSE cost]
    /\ UNCHANGED <<auth, phase, turn, late>>

\* run_python runs a file that the model has written, or answers with an error text.
Runs(tool) == IF tool = "run_python" THEN {0, 1} ELSE {0}

\* One tool call.  write_file and read_output answer with an error text where they
\* fail; a staged kit that has changed, or time that has run out, ends the attempt
\* before a script is run.
UseTool ==
    /\ pc = "tool"
    /\ LET tool == Head(todo)
       IN  /\ tool = "run_python" => ~late
           /\ \E runs \in Runs(tool) :
                did' = [did EXCEPT !.tools = @ + 1, !.python = @ + runs,
                                   !.lateTools = IF late THEN @ + 1 ELSE @]
    /\ size' = size + 1
    /\ todo' = Tail(todo)
    /\ pc' = "settle"
    /\ UNCHANGED <<auth, phase, turn, budget, calls, saved, late>>

\* Material that must not be retained, a changed kit, no time left.
ToolRaises ==
    /\ pc = "tool"
    /\ pc' = "raised"
    /\ UNCHANGED <<auth, phase, turn, budget, calls, saved, size, todo, late, did>>

\* Fault: the clock is read once per answer.
SettleUntimed ==
    /\ pc = "settle"
    /\ pc' = IF ~TranscriptFits(size) \/ (late /\ todo = <<>>) THEN "raised"
             ELSE IF todo # <<>> THEN "tool"
             ELSE IF budget.turns >= MaxTurns THEN "captured"
             ELSE "check"
    /\ UNCHANGED <<auth, phase, turn, budget, calls, saved, size, todo, late, did>>

\* After each tool: transcript, deadline, scrubbing, kit.
Settle ==
    /\ pc = "settle"
    /\ pc' = IF late \/ ~TranscriptFits(size) THEN "raised"
             ELSE IF todo # <<>> THEN "tool"
             ELSE IF budget.turns >= MaxTurns THEN "captured"
             ELSE "check"
    /\ UNCHANGED <<auth, phase, turn, budget, calls, saved, size, todo, late, did>>

SettleFails ==
    /\ pc = "settle"
    /\ pc' = "raised"
    /\ UNCHANGED <<auth, phase, turn, budget, calls, saved, size, todo, late, did>>

\* The phase is over: its outputs are captured, and the change request is revealed
\* or the attempt is complete; each of these steps may raise.
NextPhase ==
    /\ pc = "captured"
    /\ \/ /\ auth.change /\ phase = 1 /\ ~late
          /\ phase' = 2 /\ pc' = "enter" /\ size' = size + 1
       \/ /\ ~(auth.change /\ phase = 1) /\ ~late
          /\ pc' = "done"
          /\ UNCHANGED <<phase, size>>
       \/ pc' = "raised" /\ UNCHANGED <<phase, size>>
    /\ UNCHANGED <<auth, turn, budget, calls, saved, todo, late, did>>

Expire ==
    /\ ~late
    /\ pc \notin Outcome
    /\ late' = TRUE
    /\ UNCHANGED <<auth, pc, phase, turn, budget, calls, saved, size, todo, did>>

Dies ==
    /\ pc \notin Outcome
    /\ pc' = "dead"
    /\ UNCHANGED <<auth, phase, turn, budget, calls, saved, size, todo, late, did>>

LoopStep ==
    \/ Enter \/ LoopEnds \/ Refuse \/ CountTurn \/ RequestTooLong \/ RecordAttempt \/ BeginCall
    \/ CallFails \/ AnswerRejected
    \/ \E answer \in Answers, cost \in CostReports : Answered(answer, cost)
    \/ UseTool \/ ToolRaises \/ Settle \/ SettleFails \/ NextPhase

LoopNext == LoopStep \/ Expire \/ Dies

\* The transport's timeout ends every call; everything else is the executor's own.
LoopSpec == LoopInit /\ [][LoopNext]_loopVars /\ WF_loopVars(LoopStep)

-----------------------------------------------------------------------------
\* Budgets over both phases, whatever the provider answers and wherever the limits
\* are looked at: no call, tool or script beyond what was authorized; at most the
\* answer that ends the attempt costs more than is left; and the baseline never uses up
\* the two turns of the change.
SpendingBounded ==
    /\ did.calls <= Len(calls) /\ Len(calls) <= budget.turns
    /\ did.tools <= MaxTools
    /\ did.python <= MaxPython
    /\ auth.metered => did.earlier <= MaxCost
    /\ phase = 2 /\ pc = "enter" => MaxTurns - budget.turns >= 2

\* The first thing that goes wrong is the last thing the attempt does: every call but
\* the last was answered, in time and within all limits, also across the two phases; an
\* answer that comes after the deadline is recorded and never acted upon, and once the
\* deadline has passed at most one more tool is used.
OneStrike ==
    /\ did.lateTools <= 1
    /\ \A i \in DOMAIN calls :
           /\ calls[i].late => calls[i].status # "response_received"
           /\ i < Len(calls) => calls[i].status = "response_received"
           /\ pc \notin Outcome \cup {"call", "waiting"} => calls[i].status = "response_received"

\* Whenever the process dies, the run log on disk has a record of every call that may
\* have reached the provider, and of no call that cannot have; only the last record
\* may lag behind.
AccountKept ==
    /\ did.calls <= Len(saved) /\ Len(saved) <= did.calls + 1
    /\ Len(saved) \in {Len(calls) - 1, Len(calls)}
    /\ \A i \in 1..(Len(saved) - 1) : saved[i] = calls[i]

\* Whatever the provider asks for, the conversation ends.
ConversationEnds == <>(pc \in Outcome)
=============================================================================
