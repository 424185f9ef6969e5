--------------------------- MODULE ProviderTransport ---------------------------
(***************************************************************************)
(* cohort_executor._subprocess_provider_transport: one provider call made  *)
(* by a short-lived helper process (provider_transport.py), so that the    *)
(* executor can put one wall-clock limit on it.  One thread writes the     *)
(* request to the helper's standard input, another collects its standard   *)
(* output, and the calling thread waits for the process.                   *)
(*                                                                         *)
(* The helper's server answers, or fails, or never answers; the helper has *)
(* no timeout of its own.  Both pipes hold one chunk.                      *)
(***************************************************************************)
EXTENDS Integers

CONSTANTS
    Request,       \* chunks of the request
    MaxAnswer,     \* the longest answer the helper may give, in chunks
    Limit,         \* MAX_PROVIDER_HELPER_STDOUT_BYTES, in chunks
    MaxInterrupts  \* how often Ctrl-C strikes

ASSUME TransportAssumption ==
    /\ Request \in Nat \ {0} /\ MaxAnswer \in Nat \ {0}
    /\ Limit \in Nat \ {0} /\ MaxInterrupts \in Nat

VARIABLES
    caller,  \* the calling thread
    helper,  \* the helper process
    writer,  \* writer_thread
    reader,  \* stdout_thread and its capture
    pipes    \* chunks in the helper's standard input and output

transportVars == <<caller, helper, writer, reader, pipes>>

Terminating == {"kill", "reap", "join_writer", "join_reader"}

Callers == [pc  : {"spawn", "threads", "start_reader", "start_writer", "wait", "written", "read",
                   "judge", "returned", "raised"} \cup Terminating,
            how : {"none", "timeout", "process", "interrupt", "other"},  \* the exception on its way
            interrupts : 0..MaxInterrupts,
            cut : BOOLEAN]  \* Ctrl-C struck while the helper was being terminated

\* "sent": the whole answer is in the pipe or beyond.
Helpers == [st     : {"none", "reading", "asking", "answering", "exited", "killed"},
            read   : 0..Request,
            answer : 0..MaxAnswer,  \* chunks of its answer
            wrote  : 0..MaxAnswer,
            code   : {-9, 0, 1, 2}]

Threads == {"none", "made", "running", "done", "failed"}
Writers == [st : Threads, wrote : 0..Request]
Readers == [st : Threads, kept : 0..Limit, truncated : BOOLEAN]
Pipes   == [in : 0..1, out : 0..1]

TransportTypeOK ==
    /\ caller \in Callers
    /\ helper \in Helpers
    /\ writer \in Writers
    /\ reader \in Readers
    /\ pipes \in Pipes

TransportInit ==
    /\ caller = [pc |-> "spawn", how |-> "none", interrupts |-> 0, cut |-> FALSE]
    /\ helper = [st |-> "none", read |-> 0, answer |-> 0, wrote |-> 0, code |-> 0]
    /\ writer = [st |-> "none", wrote |-> 0]
    /\ reader = [st |-> "none", kept |-> 0, truncated |-> FALSE]
    /\ pipes = [in |-> 0, out |-> 0]

HelperAlive   == helper.st \in {"reading", "asking", "answering"}
Settled == {"none", "made", "done", "failed"}

CallAt(label)     == caller' = [caller EXCEPT !.pc = label]
Handle(how)     == caller' = [caller EXCEPT !.pc = "kill", !.how = how]
OnlyCaller      == UNCHANGED <<helper, writer, reader, pipes>>

-----------------------------------------------------------------------------
(* The helper, provider_transport.main. *)

\* Standard input is read to its end, or to one byte more than is allowed.
HelperReads ==
    /\ helper.st = "reading"
    /\ \/ /\ pipes.in = 1
          /\ pipes' = [pipes EXCEPT !.in = 0]
          /\ helper' = [helper EXCEPT !.read = @ + 1]
       \/ /\ pipes.in = 0 /\ writer.st \in {"done", "failed"}
          /\ helper' = [helper EXCEPT !.st = "asking"]
          /\ UNCHANGED pipes
    /\ UNCHANGED <<caller, writer, reader>>

\* The server answered, and the answer passed the helper's checks.
HelperAnswers(length) ==
    /\ helper.st = "asking"
    /\ helper.read = Request
    /\ helper' = [helper EXCEPT !.st = "answering", !.answer = length]
    /\ UNCHANGED <<caller, writer, reader, pipes>>

\* The request or the answer was refused, the server failed: a short error text
\* and exit status 2.
HelperRefuses ==
    /\ helper.st \in {"reading", "asking"}
    /\ helper' = [helper EXCEPT !.st = "answering", !.answer = 1, !.code = 2]
    /\ UNCHANGED <<caller, writer, reader, pipes>>

HelperWrites ==
    /\ helper.st = "answering"
    /\ helper.wrote < helper.answer
    /\ pipes.out = 0 /\ reader.st \notin {"done", "failed"}
    /\ pipes' = [pipes EXCEPT !.out = 1]
    /\ helper' = [helper EXCEPT !.wrote = @ + 1]
    /\ UNCHANGED <<caller, writer, reader>>

\* Everything was written, or nobody reads any more.
HelperExits ==
    /\ helper.st = "answering"
    /\ \/ helper.wrote = helper.answer /\ helper' = [helper EXCEPT !.st = "exited"]
       \/ /\ helper.wrote < helper.answer /\ reader.st \in {"done", "failed"}
          /\ helper' = [helper EXCEPT !.st = "exited", !.code = 1]
    /\ UNCHANGED <<caller, writer, reader, pipes>>

HelperCrashes ==
    /\ HelperAlive
    /\ helper' = [helper EXCEPT !.st = "exited", !.code = 1]
    /\ UNCHANGED <<caller, writer, reader, pipes>>

HelperStep ==
    \/ HelperReads \/ HelperRefuses \/ HelperWrites \/ HelperExits \/ HelperCrashes
    \/ \E length \in 1..MaxAnswer : HelperAnswers(length)

-----------------------------------------------------------------------------
(* The two threads. *)

\* _write_provider_input; a helper that is gone breaks the pipe.
WriterWrites ==
    /\ writer.st = "running"
    /\ \/ /\ writer.wrote < Request /\ pipes.in = 0 /\ helper.st = "reading"
          /\ pipes' = [pipes EXCEPT !.in = 1]
          /\ writer' = [writer EXCEPT !.wrote = @ + 1]
       \/ /\ writer.wrote = Request
          /\ writer' = [writer EXCEPT !.st = "done"]
          /\ UNCHANGED pipes
       \/ /\ writer.wrote < Request /\ helper.st \in {"exited", "killed"}
          /\ writer' = [writer EXCEPT !.st = "failed"]
          /\ UNCHANGED pipes
    /\ UNCHANGED <<caller, helper, reader>>

\* One more chunk was read; what exceeds the limit is read on and dropped.
Capture ==
    [reader EXCEPT !.kept = IF @ < Limit THEN @ + 1 ELSE @,
                   !.truncated = @ \/ reader.kept = Limit]

\* _ProviderOutputCapture.consume, until the end of the output.
ReaderReads ==
    /\ reader.st = "running"
    /\ \/ /\ pipes.out = 1
          /\ pipes' = [pipes EXCEPT !.out = 0]
          /\ reader' = Capture
       \/ /\ pipes.out = 0 /\ ~HelperAlive
          /\ reader' = [reader EXCEPT !.st = "done"]
          /\ UNCHANGED pipes
    /\ UNCHANGED <<caller, helper, writer>>

\* An exception ends the thread; what it has read so far stays in the buffer.
ReaderFails ==
    /\ reader.st = "running"
    /\ reader' = [reader EXCEPT !.st = "failed"]
    /\ UNCHANGED <<caller, helper, writer, pipes>>

-----------------------------------------------------------------------------
(* The calling thread. *)

SpawnHelper ==
    /\ caller.pc = "spawn"
    /\ helper' = [helper EXCEPT !.st = "reading"]
    /\ CallAt("threads")
    /\ UNCHANGED <<writer, reader, pipes>>

SpawnHelperFails ==
    /\ caller.pc \in {"spawn", "threads"}
    /\ Handle("process")
    /\ OnlyCaller

MakeThreads ==
    /\ caller.pc = "threads"
    /\ writer' = [writer EXCEPT !.st = "made"]
    /\ reader' = [reader EXCEPT !.st = "made"]
    /\ CallAt("start_reader")
    /\ UNCHANGED <<helper, pipes>>

StartReader ==
    /\ caller.pc = "start_reader"
    /\ reader' = [reader EXCEPT !.st = "running"]
    /\ CallAt("start_writer")
    /\ UNCHANGED <<helper, writer, pipes>>

StartWriter ==
    /\ caller.pc = "start_writer"
    /\ writer' = [writer EXCEPT !.st = "running"]
    /\ CallAt("wait")
    /\ UNCHANGED <<helper, reader, pipes>>

\* RuntimeError: can't start new thread.
ThreadFails ==
    /\ caller.pc \in {"start_reader", "start_writer"}
    /\ Handle("other")
    /\ OnlyCaller

\* process.wait returns; a helper that exits at the last moment is still in time.
HelperEnded ==
    /\ caller.pc = "wait"
    /\ ~HelperAlive
    /\ CallAt("written")
    /\ OnlyCaller

TimedOut ==
    /\ caller.pc = "wait"
    /\ Handle("timeout")
    /\ OnlyCaller

\* Fault: a timeout is reported and the helper left to itself.
KillHelperLeaving ==
    /\ caller.pc = "kill"
    /\ CallAt("raised")
    /\ OnlyCaller

\* Fault: only a helper that has begun to answer is killed.
KillHelperAnswering ==
    /\ caller.pc = "kill"
    /\ helper' = IF helper.st = "answering" THEN [helper EXCEPT !.st = "killed", !.code = -9]
                 ELSE helper
    /\ CallAt("reap")
    /\ UNCHANGED <<writer, reader, pipes>>

\* _terminate_provider_process
KillHelper ==
    /\ caller.pc = "kill"
    /\ helper' = IF HelperAlive THEN [helper EXCEPT !.st = "killed", !.code = -9] ELSE helper
    /\ CallAt("reap")
    /\ UNCHANGED <<writer, reader, pipes>>

\* process.wait() without a limit.
ReapHelper ==
    /\ caller.pc = "reap"
    /\ ~HelperAlive
    /\ CallAt("join_writer")
    /\ OnlyCaller

\* Joining a thread that was made and not started raises RuntimeError, here in the
\* place of the exception being handled.
JoinWriter ==
    /\ caller.pc = "join_writer"
    /\ writer.st \in Settled
    /\ IF writer.st = "made"
       THEN caller' = [caller EXCEPT !.pc = "raised", !.how = "other"]
       ELSE CallAt("join_reader")
    /\ OnlyCaller

JoinReader ==
    /\ caller.pc = "join_reader"
    /\ reader.st \in Settled
    /\ CallAt("raised")
    /\ OnlyCaller

AllWritten ==
    /\ caller.pc = "written"
    /\ writer.st \in Settled
    /\ CallAt("read")
    /\ OnlyCaller

\* Fault: the output is looked at as soon as the helper is gone.
AllReadUnjoined ==
    /\ caller.pc = "read"
    /\ CallAt("judge")
    /\ OnlyCaller

AllRead ==
    /\ caller.pc = "read"
    /\ reader.st \in Settled
    /\ CallAt("judge")
    /\ OnlyCaller

\* Fault: the beginning of an answer is taken for an answer.
ParsesAnything == TRUE

\* Only the whole text is a JSON object with the four fields.
Parses == reader.kept = helper.answer

JudgeOutput ==
    /\ caller.pc = "judge"
    /\ CallAt(IF helper.code = 0 /\ ~reader.truncated /\ writer.st # "failed" /\ Parses
            THEN "returned" ELSE "raised")
    /\ OnlyCaller

\* Ctrl-C.  The two try statements of _terminate_provider_process swallow it, at
\* the price of the statement it struck; between them it gets through.
CallInterrupted ==
    /\ caller.pc \notin {"returned", "raised"}
    /\ caller.interrupts < MaxInterrupts
    /\ LET struck(label, how) ==
             caller' = [caller EXCEPT !.pc = label, !.how = how, !.interrupts = @ + 1,
                                      !.cut = @ \/ caller.pc \in Terminating]
       IN CASE caller.pc \in {"spawn", "threads", "start_reader", "start_writer", "wait"} ->
                  struck("kill", "interrupt")
            [] caller.pc = "kill" -> struck("reap", caller.how) \/ struck("raised", "interrupt")
            [] caller.pc = "reap" -> struck("join_writer", caller.how)
            [] OTHER -> struck("raised", "interrupt")
    /\ OnlyCaller

CallerStep ==
    \/ SpawnHelper \/ SpawnHelperFails \/ MakeThreads \/ StartReader \/ StartWriter \/ ThreadFails
    \/ HelperEnded \/ TimedOut
    \/ KillHelper \/ ReapHelper \/ JoinWriter \/ JoinReader
    \/ AllWritten \/ AllRead \/ JudgeOutput

ThreadStep == WriterWrites \/ ReaderReads

TransportNext == CallerStep \/ CallInterrupted \/ HelperStep \/ ThreadStep \/ ReaderFails

\* The scheduler runs every thread; time passes, so the wait ends by itself; what the
\* helper does is up to its server.
TransportSpec ==
    /\ TransportInit /\ [][TransportNext]_transportVars
    /\ WF_transportVars(CallerStep)
    /\ WF_transportVars(WriterWrites) /\ WF_transportVars(ReaderReads)

-----------------------------------------------------------------------------
\* A response is handed to the conversation only if the helper gave it to the end
\* and by itself, after it had the whole request, and all of it was collected:
\* neither a helper that was killed while it answered nor a thread that lost part
\* of the output passes for an answer.
ReturnedWhole ==
    caller.pc = "returned" =>
        /\ helper.st = "exited" /\ helper.code = 0
        /\ helper.read = Request
        /\ reader.kept = helper.answer

\* An answer that came in time, completely and within the limit is not thrown away
\* by the order in which the process, the writer and the reader end.
GoodAnswerKept ==
    caller.pc = "raised" /\ caller.how = "none" =>
        \/ helper.code # 0
        \/ helper.answer > Limit
        \/ reader.st = "failed"
        \/ writer.st = "failed"

\* When the call is over no helper is left talking to the server, however it ended;
\* unless Ctrl-C strikes while the helper is being terminated.
HelperGone ==
    caller.pc \in {"returned", "raised"} /\ ~caller.cut => ~HelperAlive

\* The call comes back although the server may never answer; unless, again, Ctrl-C
\* strikes while the helper is being terminated, for then nothing bounds the wait.
CallEnds == <>(caller.pc \in {"returned", "raised"} \/ caller.cut)
=============================================================================
