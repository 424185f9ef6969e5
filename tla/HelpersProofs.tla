----------------------------- MODULE HelpersProofs -----------------------------
(***************************************************************************)
(* Theorems about the four supervisors of HelpersMC, each for every value  *)
(* of its own constants: the authorized git, the provider's helper, the    *)
(* limiter of the container and the qualification of an image.             *)
(***************************************************************************)
EXTENDS HelpersMC, TLAPS

-----------------------------------------------------------------------------
(* The authorized git. *)

USE GitAssumption

GitBefore == {"open", "hash", "spawn"}
GitJudged == {"judge", "compare", "accepted"}

\* git runs where it may, what it printed is where it was put, and the lock is held
\* from the digest to the start.
GitInv ==
    /\ GitTypeOK
    /\ at.pc \in GitBefore => git.st = "none" /\ spawn.ran = "none"
    /\ at.pc \in {"join"} \cup GitJudged => ~GitAlive
    /\ at.pc \in {"compare", "accepted"} => git.code = 0
    /\ at.pc = "accepted" => git.right /\ blob.kept = git.out /\ blob.st # "running"
    /\ at.pc \in GitJudged => blob.st # "running"
    /\ at.pc \in {"reap", "shut", "settle"} \cup Over /\ ~at.cut => ~GitAlive
    /\ Sharing /\ at.pc \in {"hash", "spawn"} => spawn.held
    /\ Sharing /\ at.pc = "spawn" => exe = "authorized"
    /\ Sharing => spawn.ran # "other"

LEMMA GitCallerKeeps ==
    ASSUME GitInv, ReaderStep
    PROVE  GitInv'
<1>1. CASE Lock \/ Unlock \/ SetupFails \/ Hash
  <2>1. spawn' \in Spawns /\ spawn'.ran = spawn.ran
    BY <1>1 DEF Lock, Unlock, SetupFails, Hash, GitInv, GitTypeOK, Spawns
  <2>2. at' \in BlobCalls /\ at'.cut = at.cut /\ at.cut \in BOOLEAN
    BY <1>1 DEF Lock, Unlock, SetupFails, Hash, ReaderAt, GitInv, GitTypeOK, BlobCalls, Ending, Over
  <2>3. UNCHANGED <<exe, git, blob>>
    BY <1>1 DEF Lock, Unlock, SetupFails, Hash
  <2>4. /\ at'.pc \in {"hash", "spawn", "thread", "kill", "raised"}
        /\ at'.pc \in {"hash", "spawn", "raised"} => at.pc \in {"open", "hash"}
    BY <1>1 DEF Lock, Unlock, SetupFails, Hash, ReaderAt, GitInv, GitTypeOK, BlobCalls
  <2>5. /\ Sharing /\ at'.pc \in {"hash", "spawn"} => spawn'.held
        /\ at'.pc = "spawn" => exe = "authorized"
    BY <1>1 DEF Lock, Unlock, SetupFails, Hash, ReaderAt, GitInv, GitTypeOK, BlobCalls, Spawns
  <2> QED BY <2>1, <2>2, <2>3, <2>4, <2>5 DEF GitInv, GitTypeOK, GitBefore, GitJudged, GitAlive, Over
<1>2. CASE SpawnGit
  <2>1. at' \in BlobCalls /\ at'.pc = "close" /\ UNCHANGED <<exe, blob>>
    BY <1>2 DEF SpawnGit, ReaderAt, GitInv, GitTypeOK, BlobCalls
  <2>2. spawn' \in Spawns /\ spawn'.ran = exe
    BY <1>2 DEF SpawnGit, GitInv, GitTypeOK, Spawns
  <2>3. PICK out \in 0..MaxBlob, right \in BOOLEAN :
              git' = [git EXCEPT !.st = "running", !.out = out, !.right = right]
    BY <1>2 DEF SpawnGit
  <2>4. git' \in Gits
    BY <2>3 DEF GitInv, GitTypeOK, Gits
  <2> QED
    BY <1>2, <2>1, <2>2, <2>4 DEF SpawnGit, GitInv, GitTypeOK, GitBefore, GitJudged, GitAlive, Over
<1>3. CASE MakeThread \/ StartThread
  <2>1. blob' \in Blobs /\ at' \in BlobCalls /\ at'.pc \in {"start", "wait"}
    BY <1>3 DEF MakeThread, StartThread, ReaderAt, GitInv, GitTypeOK, Blobs, BlobCalls
  <2>2. UNCHANGED <<exe, spawn, git>>
    BY <1>3 DEF MakeThread, StartThread
  <2> QED BY <2>1, <2>2 DEF GitInv, GitTypeOK, GitBefore, GitJudged, GitAlive, Over
<1>4. CASE Wait \/ Join \/ JudgeGit
  <2>1. at' \in BlobCalls /\ at'.cut = at.cut
    BY <1>4 DEF Wait, Join, JudgeGit, ReaderAt, GitInv, GitTypeOK, BlobCalls, Ending, Over
  <2>2. UNCHANGED <<exe, spawn, git, blob>>
    BY <1>4 DEF Wait, Join, JudgeGit
  <2>3. /\ at'.pc \in {"kill", "join", "judge", "compare", "raised"}
        /\ at'.pc = "join" => ~GitAlive
        /\ at'.pc \in {"judge", "compare", "raised"} => at.pc \in {"join", "judge"}
        /\ at'.pc \in {"judge", "compare"} => blob.st # "running"
        /\ at'.pc = "compare" => git.code = 0
    BY <1>4 DEF Wait, Join, JudgeGit, BlobIdle, ReaderAt, GitInv, GitTypeOK, GitJudged, BlobCalls
  <2> QED BY <2>1, <2>2, <2>3 DEF GitInv, GitTypeOK, GitBefore, GitJudged, GitAlive, Over
<1>5. CASE Compare
  <2>1. at' \in BlobCalls /\ at'.pc = IF Matches THEN "accepted" ELSE "raised"
    BY <1>5 DEF Compare, ReaderAt, GitInv, GitTypeOK, BlobCalls, Over
  <2>2. UNCHANGED <<exe, spawn, git, blob>> /\ at.pc = "compare"
    BY <1>5 DEF Compare
  <2> QED BY <2>1, <2>2 DEF Matches, GitInv, GitTypeOK, GitBefore, GitJudged, GitAlive, Over
<1>6. CASE KillGit
  <2>1. at' \in BlobCalls /\ at'.pc = "reap" /\ UNCHANGED <<exe, spawn, blob>> /\ at.pc = "kill"
    BY <1>6 DEF KillGit, ReaderAt, GitInv, GitTypeOK, BlobCalls, Ending
  <2>2. git' \in Gits /\ git'.st # "running"
    <3>1. CASE GitAlive
      <4>1. PICK code \in {-9, 0, 1} : git' = [git EXCEPT !.st = "killed", !.code = code]
        BY <1>6, <3>1 DEF KillGit
      <4> QED BY <4>1 DEF GitInv, GitTypeOK, Gits
    <3>2. CASE ~GitAlive
      BY <1>6, <3>2 DEF KillGit, GitAlive, GitInv, GitTypeOK
    <3> QED BY <3>1, <3>2
  <2> QED BY <2>1, <2>2 DEF GitInv, GitTypeOK, GitBefore, GitJudged, GitAlive, Over
<1>7. CASE ReapGit \/ Shut \/ Settle
  <2>1. /\ at' \in BlobCalls /\ at'.cut = at.cut /\ at'.pc \in {"shut", "settle", "raised"}
        /\ at.pc \in {"reap", "shut", "settle"}
    BY <1>7 DEF ReapGit, Shut, Settle, ReaderAt, GitInv, GitTypeOK, BlobCalls, Ending, Over
  <2>2. UNCHANGED <<exe, spawn, git, blob>>
    BY <1>7 DEF ReapGit, Shut, Settle
  <2> QED BY <2>1, <2>2 DEF GitInv, GitTypeOK, GitBefore, GitJudged, GitAlive, Over
<1> QED BY <1>1, <1>2, <1>3, <1>4, <1>5, <1>6, <1>7 DEF ReaderStep

\* What others, git and the collecting thread do while the call goes on.
LEMMA GitOthersKeep ==
    ASSUME GitInv, Signalled \/ Replace \/ GitStep \/ Collect \/ CollectFails
    PROVE  GitInv'
<1>1. CASE Signalled
  <2>1. /\ at'.pc \in Ending \cup {"raised"}
        /\ at'.pc \in {"reap", "shut", "settle"} => at'.cut
        /\ at'.pc = "raised" /\ ~at'.cut => at.pc \in {"open", "hash", "join", "judge", "compare"}
    BY <1>1 DEF Signalled, GitInv, GitTypeOK, BlobCalls, Ending, Over
  <2>2. at' \in BlobCalls
    <3>1. at'.pc \in Ending \cup {"raised"} /\ at'.cut \in BOOLEAN /\ at'.signals \in 0..MaxSignals
      BY <2>1, <1>1 DEF Signalled, GitInv, GitTypeOK, BlobCalls
    <3>2. at' = [pc |-> at'.pc, signals |-> at'.signals, cut |-> at'.cut]
      BY <1>1 DEF Signalled
    <3> QED BY <3>1, <3>2 DEF BlobCalls, Over
  <2>3. spawn' = [spawn EXCEPT !.held = FALSE]
    BY <1>1 DEF Signalled
  <2>4. spawn' \in Spawns /\ spawn'.ran = spawn.ran
    BY <2>3 DEF GitInv, GitTypeOK, Spawns
  <2>5. UNCHANGED <<exe, git, blob>>
    BY <1>1 DEF Signalled
  <2> QED BY <2>1, <2>2, <2>4, <2>5 DEF GitInv, GitTypeOK, GitBefore, GitJudged, GitAlive, Ending, Over
<1>2. CASE Replace
  BY <1>2 DEF Replace, GitInv, GitTypeOK, GitBefore, GitJudged, GitAlive, Over
<1>3. CASE GitStep
  <2>1. UNCHANGED <<exe, spawn, blob, at>> /\ GitAlive
    BY <1>3 DEF GitStep, GitPrints, GitExits
  <2>4. git' \in Gits
    <3>1. CASE GitPrints
      <4>1. PICK n : n = git.wrote + 1
        OBVIOUS
      <4>2. PICK one : one = 1
        OBVIOUS
      <4>3. git' = [git EXCEPT !.wrote = n, !.pipe = one]
        BY <3>1, <4>1, <4>2 DEF GitPrints
      <4>4. n \in 0..MaxBlob /\ one \in 0..1
        BY <3>1, <4>1, <4>2 DEF GitPrints, GitInv, GitTypeOK, Gits
      <4> QED BY <4>3, <4>4 DEF GitInv, GitTypeOK, Gits
    <3>2. CASE GitExits
      <4>1. PICK code \in {0, 1}, inherited \in BOOLEAN :
               /\ code = 0 => git.wrote = git.out
               /\ git' = [git EXCEPT !.st = "exited", !.code = code, !.inherited = inherited]
        BY <3>2 DEF GitExits
      <4> QED BY <4>1 DEF GitInv, GitTypeOK, Gits
    <3> QED BY <1>3, <3>1, <3>2 DEF GitStep
  <2> QED BY <2>1, <2>4 DEF GitInv, GitTypeOK, GitBefore, GitJudged, GitAlive, Over
<1>4. CASE Collect
  <2>1. UNCHANGED <<exe, spawn, at>> /\ blob.st = "running"
    BY <1>4 DEF Collect
  <2>2. blob' \in Blobs
    <3>1. PICK n : n = blob.kept + 1
      OBVIOUS
    <3>2. \/ blob' = [blob EXCEPT !.kept = n] /\ blob.kept < BlobLimit
          \/ blob' = [blob EXCEPT !.truncated = TRUE, !.st = "done"]
          \/ blob' = [blob EXCEPT !.st = "done"]
      BY <1>4, <3>1 DEF Collect
    <3>3. blob.kept < BlobLimit => n \in 0..BlobLimit
      BY <3>1 DEF GitInv, GitTypeOK, Blobs
    <3> QED BY <3>2, <3>3 DEF GitInv, GitTypeOK, Blobs
  <2>3. git' \in Gits /\ (~GitAlive => git'.st = git.st)
    <3>1. PICK zero : zero = 0
      OBVIOUS
    <3>2. PICK minus : minus = -9
      OBVIOUS
    <3>3. \/ git' = [git EXCEPT !.pipe = zero]
          \/ GitAlive /\ git' = [git EXCEPT !.pipe = zero, !.st = "killed", !.code = minus]
          \/ UNCHANGED git
      <4>1. \/ git' = [git EXCEPT !.pipe = 0]
            \/ git' = [git EXCEPT !.pipe = 0, !.st = IF GitAlive THEN "killed" ELSE @,
                                  !.code = IF GitAlive THEN -9 ELSE @]
            \/ UNCHANGED git
        BY <1>4 DEF Collect
      <4>2. git \in Gits
        BY DEF GitInv, GitTypeOK
      <4>3. CASE git' = [git EXCEPT !.pipe = 0, !.st = IF GitAlive THEN "killed" ELSE @,
                                    !.code = IF GitAlive THEN -9 ELSE @]
        <5>1. CASE GitAlive
          BY <3>1, <3>2, <4>2, <4>3, <5>1 DEF Gits
        <5>2. CASE ~GitAlive
          BY <3>1, <4>2, <4>3, <5>2 DEF Gits
        <5> QED BY <5>1, <5>2
      <4> QED BY <3>1, <4>1, <4>3
    <3>4. zero \in 0..1 /\ minus \in {-9, 0, 1}
      BY <3>1, <3>2
    <3> QED BY <3>3, <3>4 DEF GitInv, GitTypeOK, Gits
  <2> QED BY <2>1, <2>2, <2>3 DEF GitInv, GitTypeOK, GitBefore, GitJudged, GitAlive, Over
<1>5. CASE CollectFails
  <2>1. blob' \in Blobs /\ blob.st = "running" /\ UNCHANGED <<exe, spawn, git, at>>
    BY <1>5 DEF CollectFails, GitInv, GitTypeOK, Blobs
  <2> QED BY <2>1 DEF GitInv, GitTypeOK, GitBefore, GitJudged, GitAlive, Over
<1> QED BY <1>1, <1>2, <1>3, <1>4, <1>5

LEMMA GitKeeps ==
    ASSUME GitInv, [GitNext]_gitVars
    PROVE  GitInv'
<1>1. CASE UNCHANGED gitVars
  BY <1>1 DEF gitVars, GitInv, GitTypeOK, GitAlive
<1> QED BY <1>1, GitCallerKeeps, GitOthersKeep DEF GitNext

LEMMA GitStarts == GitInit => GitInv
BY DEF GitInit, GitInv, GitTypeOK, Spawns, Gits, Blobs, BlobCalls, GitBefore, GitJudged, GitAlive,
  Ending, Over

\* What git prints is used only if the executable was the authorized one, all of the file was
\* printed and collected, and git is gone, with any executable and any output.
THEOREM GitCorrect == GitSpec => [](SpawnedAuthorized /\ AcceptedWhole /\ GitGone)
<1>1. GitInv => SpawnedAuthorized /\ AcceptedWhole /\ GitGone
  BY DEF GitInv, SpawnedAuthorized, AcceptedWhole, GitGone, Over, GitTypeOK, BlobCalls
<1> QED BY <1>1, GitStarts, GitKeeps, PTL DEF GitSpec

HIDE GitAssumption

-----------------------------------------------------------------------------
(* The provider's helper. *)

USE TransportAssumption

\* Where the calling thread is, what it knows of the helper and of the collecting thread.
CallerInv ==
    /\ caller.pc = "spawn" => helper.st = "none"
    /\ caller.pc \in {"spawn", "threads"} => reader.st = "none"
    /\ caller.pc \in {"threads", "start_reader", "start_writer", "wait", "written", "read",
                      "judge", "returned"} => helper.st # "none"
    /\ caller.pc \in {"written", "read", "judge", "returned"} => ~HelperAlive
    /\ caller.pc \in {"start_writer", "wait", "written", "read", "judge"} =>
          reader.st \in {"running", "done", "failed"}
    /\ caller.pc \in {"judge", "returned"} => reader.st # "running"
    /\ caller.pc \in Terminating => caller.how # "none"
    /\ caller.pc = "raised" /\ caller.how = "none" => ~HelperAlive /\ reader.st # "running"
    /\ caller.pc \in {"reap", "join_writer", "join_reader", "returned", "raised"} /\ ~caller.cut =>
          ~HelperAlive

\* Exit status 0 is that of a helper that had the whole request and wrote its whole answer.
HelperInv ==
    /\ helper.code = 0 /\ helper.st \in {"answering", "exited"} => helper.read = Request
    /\ helper.code = 0 /\ helper.st = "exited" => helper.wrote = helper.answer
    /\ helper.st = "killed" => helper.code # 0

\* No chunk is lost or made up between the processes, and the end of the output is seen only
\* when there is nothing more to come.
FlowInv ==
    /\ helper.read + pipes.in = writer.wrote
    /\ IF reader.truncated THEN helper.wrote > Limit + pipes.out
       ELSE helper.wrote = reader.kept + pipes.out
    /\ reader.st = "done" => pipes.out = 0 /\ ~HelperAlive

TransportInv ==
    /\ TransportTypeOK
    /\ CallerInv /\ HelperInv /\ FlowInv
    /\ ReturnedWhole /\ GoodAnswerKept

LEMMA TransportStarts == TransportInit => TransportInv
BY DEF TransportInit, TransportInv, TransportTypeOK, Callers, Helpers, Writers, Readers, Pipes,
  Threads, CallerInv, HelperInv, FlowInv, ReturnedWhole, GoodAnswerKept, HelperAlive, Terminating

\* The steps in which only the calling thread moves.
LEMMA CallerAloneKeeps ==
    ASSUME TransportInv, OnlyCaller,
           \/ SpawnHelperFails \/ ThreadFails \/ HelperEnded \/ TimedOut \/ ReapHelper
           \/ JoinWriter \/ JoinReader \/ AllWritten \/ AllRead \/ JudgeOutput \/ CallInterrupted
    PROVE  TransportInv'
<1>1. UNCHANGED <<helper, writer, reader, pipes>>
  BY DEF OnlyCaller
<1>2. HelperInv' /\ FlowInv' /\ (HelperAlive' <=> HelperAlive)
  BY <1>1 DEF TransportInv, HelperInv, FlowInv, HelperAlive
<1>3. CASE SpawnHelperFails \/ ThreadFails \/ TimedOut
  <2>1. caller' \in Callers /\ caller'.pc = "kill" /\ caller'.how # "none"
    BY <1>3 DEF SpawnHelperFails, ThreadFails, TimedOut, Handle, TransportInv, TransportTypeOK,
      Callers, Terminating
  <2> QED BY <1>1, <1>2, <2>1 DEF TransportInv, TransportTypeOK, CallerInv, Terminating,
      ReturnedWhole, GoodAnswerKept
<1>4. CASE HelperEnded \/ ReapHelper \/ AllWritten \/ AllRead
  <2>1. caller' \in Callers /\ caller'.how = caller.how /\ caller'.cut = caller.cut
    BY <1>4 DEF HelperEnded, ReapHelper, AllWritten, AllRead, CallAt, TransportInv, TransportTypeOK,
      Callers, Terminating
  <2>2. \/ caller.pc = "wait" /\ caller'.pc = "written" /\ ~HelperAlive
        \/ caller.pc = "reap" /\ caller'.pc = "join_writer" /\ ~HelperAlive
        \/ caller.pc = "written" /\ caller'.pc = "read"
        \/ caller.pc = "read" /\ caller'.pc = "judge" /\ reader.st # "running"
    BY <1>4 DEF HelperEnded, ReapHelper, AllWritten, AllRead, CallAt, TransportInv, TransportTypeOK,
      Callers, Settled
  <2> QED BY <1>1, <1>2, <2>1, <2>2 DEF TransportInv, TransportTypeOK, CallerInv, Terminating,
      ReturnedWhole, GoodAnswerKept
<1>5. CASE JoinWriter \/ JoinReader
  <2>1. /\ caller' \in Callers /\ caller'.cut = caller.cut
        /\ caller.pc \in {"join_writer", "join_reader"} /\ caller'.pc \in {"join_reader", "raised"}
        /\ caller'.how = caller.how \/ caller'.how = "other"
    BY <1>5 DEF JoinWriter, JoinReader, CallAt, TransportInv, TransportTypeOK, Callers, Terminating
  <2> QED BY <1>1, <1>2, <2>1 DEF TransportInv, TransportTypeOK, CallerInv, Terminating,
      ReturnedWhole, GoodAnswerKept
<1>6. CASE JudgeOutput
  <2>1. /\ caller' \in Callers /\ caller'.cut = caller.cut /\ caller'.how = caller.how
        /\ caller.pc = "judge"
        /\ IF helper.code = 0 /\ ~reader.truncated /\ writer.st # "failed" /\ Parses
           THEN caller'.pc = "returned" ELSE caller'.pc = "raised"
    BY <1>6 DEF JudgeOutput, CallAt, TransportInv, TransportTypeOK, Callers
  <2>2. ~HelperAlive /\ reader.st \in {"done", "failed"} /\ helper.st \in {"exited", "killed"}
    BY <2>1 DEF TransportInv, TransportTypeOK, CallerInv, HelperAlive, Helpers
  <2>3. helper.code = 0 => helper.st = "exited" /\ helper.read = Request /\ helper.wrote = helper.answer
    BY <2>2 DEF TransportInv, HelperInv
  <2>4. ReturnedWhole'
    BY <1>1, <2>1, <2>3 DEF ReturnedWhole, Parses
  <2>5. helper.code = 0 /\ reader.st # "failed" =>
           helper.answer > Limit \/ (~reader.truncated /\ reader.kept = helper.answer)
    BY <2>2, <2>3 DEF TransportInv, TransportTypeOK, FlowInv, Helpers, Readers, Pipes
  <2>6. GoodAnswerKept'
    BY <1>1, <2>1, <2>5 DEF GoodAnswerKept, Parses
  <2> QED BY <1>1, <1>2, <2>1, <2>2, <2>4, <2>6 DEF TransportInv, TransportTypeOK, CallerInv,
      Terminating
<1>7. CASE CallInterrupted
  <2> DEFINE Struck(label, how) ==
           caller' = [caller EXCEPT !.pc = label, !.how = how, !.interrupts = @ + 1,
                                    !.cut = @ \/ caller.pc \in Terminating]
  <2>1. PICK label \in {"kill", "reap", "join_writer", "raised"},
             how \in {"timeout", "process", "interrupt", "other"} :
           /\ Struck(label, how)
           /\ label # "kill" => caller.pc \in Terminating \/ ~HelperAlive
    BY <1>7 DEF CallInterrupted, TransportInv, TransportTypeOK, Callers, CallerInv, Terminating
  <2>2. PICK n : n = caller.interrupts + 1
    OBVIOUS
  <2>4. PICK cut : cut = (caller.cut \/ caller.pc \in Terminating)
    OBVIOUS
  <2>5. caller' = [caller EXCEPT !.pc = label, !.how = how, !.interrupts = n, !.cut = cut]
    BY <2>1, <2>2, <2>4
  <2>6. n \in 0..MaxInterrupts /\ cut \in BOOLEAN
    BY <1>7, <2>2, <2>4 DEF CallInterrupted, TransportInv, TransportTypeOK, Callers
  <2>3. caller' \in Callers /\ caller'.pc = label /\ caller'.how = how /\ caller'.cut = cut
    BY <2>5, <2>6 DEF TransportInv, TransportTypeOK, Callers, Terminating
  <2> HIDE DEF Struck
  <2> QED BY <1>1, <1>2, <2>1, <2>3, <2>4 DEF TransportInv, TransportTypeOK, CallerInv, Terminating,
      ReturnedWhole, GoodAnswerKept
<1> QED BY <1>3, <1>4, <1>5, <1>6, <1>7

\* The steps of the calling thread that touch the helper or the two threads.
LEMMA CallerActsKeeps ==
    ASSUME TransportInv, SpawnHelper \/ MakeThreads \/ StartReader \/ StartWriter \/ KillHelper
    PROVE  TransportInv'
<1>1. CASE SpawnHelper
  <2>1. /\ caller' \in Callers /\ caller.pc = "spawn" /\ caller'.pc = "threads"
        /\ caller'.how = caller.how /\ UNCHANGED <<writer, reader, pipes>>
    BY <1>1 DEF SpawnHelper, CallAt, TransportInv, TransportTypeOK, Callers
  <2>2. /\ helper' \in Helpers /\ helper'.st = "reading" /\ helper'.code = helper.code
        /\ helper'.wrote = helper.wrote /\ helper'.read = helper.read
    BY <1>1 DEF SpawnHelper, TransportInv, TransportTypeOK, Helpers
  <2>3. reader.st = "none"
    BY <2>1 DEF TransportInv, CallerInv
  <2> QED BY <2>1, <2>2, <2>3 DEF TransportInv, TransportTypeOK, CallerInv, HelperInv, FlowInv,
      HelperAlive, Terminating, ReturnedWhole, GoodAnswerKept
<1>2. CASE MakeThreads \/ StartReader \/ StartWriter
  <2>1. /\ caller' \in Callers /\ caller.pc \in {"threads", "start_reader", "start_writer"}
        /\ caller'.pc \in {"start_reader", "start_writer", "wait"} /\ UNCHANGED <<helper, pipes>>
    BY <1>2 DEF MakeThreads, StartReader, StartWriter, CallAt, TransportInv, TransportTypeOK, Callers
  <2>2. writer' \in Writers /\ writer'.wrote = writer.wrote
    BY <1>2 DEF MakeThreads, StartReader, StartWriter, TransportInv, TransportTypeOK, Writers, Threads
  <2>3. /\ reader' \in Readers /\ reader'.kept = reader.kept
        /\ reader'.truncated = reader.truncated /\ reader.truncated \in BOOLEAN
        /\ reader' = reader \/ reader'.st \in {"made", "running"}
    BY <1>2 DEF MakeThreads, StartReader, StartWriter, TransportInv, TransportTypeOK, Readers, Threads
  <2>4. /\ caller'.pc = "start_writer" => reader'.st = "running"
        /\ caller'.pc = "wait" => caller.pc = "start_writer" /\ reader' = reader
    BY <1>2 DEF MakeThreads, StartReader, StartWriter, CallAt, TransportInv, TransportTypeOK,
      Callers, Readers
  <2> QED BY <2>1, <2>2, <2>3, <2>4 DEF TransportInv, TransportTypeOK, CallerInv, HelperInv, FlowInv,
      HelperAlive, Terminating, ReturnedWhole, GoodAnswerKept
<1>3. CASE KillHelper
  <2>1. /\ caller' \in Callers /\ caller.pc = "kill" /\ caller'.pc = "reap"
        /\ caller'.how = caller.how /\ UNCHANGED <<writer, reader, pipes>>
    BY <1>3 DEF KillHelper, CallAt, TransportInv, TransportTypeOK, Callers, Terminating
  <2>2. /\ helper' \in Helpers /\ helper'.wrote = helper.wrote /\ helper'.read = helper.read
        /\ ~HelperAlive' /\ HelperInv'
    <3>1. CASE HelperAlive
      <4>1. PICK code \in {-9, 0, 1, 2} :
               helper' = [helper EXCEPT !.st = "killed", !.code = code] /\ code # 0
        BY <1>3, <3>1 DEF KillHelper
      <4> QED BY <4>1 DEF TransportInv, TransportTypeOK, Helpers, HelperAlive, HelperInv
    <3>2. CASE ~HelperAlive
      BY <1>3, <3>2 DEF KillHelper, TransportInv, TransportTypeOK, HelperAlive, HelperInv
    <3> QED BY <3>1, <3>2
  <2> QED BY <2>1, <2>2 DEF TransportInv, TransportTypeOK, CallerInv, FlowInv,
      HelperAlive, Terminating, ReturnedWhole, GoodAnswerKept
<1> QED BY <1>1, <1>2, <1>3

\* What a living helper does: the call is still under way then, or it was interrupted.
LEMMA HelperKeeps ==
    ASSUME TransportInv, HelperStep
    PROVE  TransportInv'
<1>0. HelperAlive /\ UNCHANGED <<caller, writer, reader>>
  BY DEF HelperStep, HelperReads, HelperAnswers, HelperRefuses, HelperWrites, HelperExits,
    HelperCrashes, HelperAlive
<1>1. SUFFICES /\ helper' \in Helpers /\ pipes' \in Pipes /\ helper'.st # "none"
               /\ HelperInv' /\ FlowInv'
  BY <1>0 DEF TransportInv, TransportTypeOK, CallerInv, HelperAlive, ReturnedWhole, GoodAnswerKept
<1>2. CASE HelperReads
  <2>1. CASE pipes.in = 0
    BY <1>0, <1>2, <2>1 DEF HelperReads, TransportInv, TransportTypeOK, Helpers, Pipes, HelperInv,
      FlowInv, HelperAlive
  <2>2. CASE pipes.in = 1
    <3>1. PICK n : n = helper.read + 1
      OBVIOUS
    <3>2. PICK zero : zero = 0
      OBVIOUS
    <3>3. pipes' = [pipes EXCEPT !.in = zero] /\ helper' = [helper EXCEPT !.read = n]
      BY <1>2, <2>2, <3>1, <3>2 DEF HelperReads
    <3>4. n \in 0..Request /\ zero \in 0..1
      BY <2>2, <3>1, <3>2 DEF TransportInv, TransportTypeOK, Helpers, Writers, FlowInv
    <3>5. /\ helper' \in Helpers /\ pipes' \in Pipes /\ pipes'.in = 0 /\ pipes'.out = pipes.out
          /\ helper'.read = n /\ helper'.wrote = helper.wrote /\ helper'.st = helper.st
          /\ helper'.code = helper.code /\ helper'.answer = helper.answer
      BY <3>2, <3>3, <3>4 DEF TransportInv, TransportTypeOK, Helpers, Pipes
    <3>6. helper.st = "reading"
      BY <1>2 DEF HelperReads
    <3> QED BY <1>0, <2>2, <3>1, <3>5, <3>6 DEF TransportInv, TransportTypeOK, Helpers, HelperInv,
        FlowInv, HelperAlive
  <2> QED BY <1>2, <2>1, <2>2 DEF HelperReads
<1>3. CASE \E length \in 1..MaxAnswer : HelperAnswers(length)
  <2>1. PICK length \in 1..MaxAnswer : HelperAnswers(length)
    BY <1>3
  <2>2. length \in 0..MaxAnswer
    OBVIOUS
  <2>3. helper' = [helper EXCEPT !.st = "answering", !.answer = length] /\ UNCHANGED pipes
        /\ helper.read = Request
    BY <2>1 DEF HelperAnswers
  <2>4. /\ helper' \in Helpers /\ helper'.st = "answering" /\ helper'.read = helper.read
        /\ helper'.wrote = helper.wrote
    BY <2>2, <2>3 DEF TransportInv, TransportTypeOK, Helpers
  <2> QED BY <1>0, <2>3, <2>4 DEF TransportInv, TransportTypeOK, HelperInv, FlowInv, HelperAlive
<1>4. CASE HelperRefuses \/ HelperCrashes
  <2>1. UNCHANGED pipes
    BY <1>4 DEF HelperRefuses, HelperCrashes
  <2>2. PICK one : one = 1
    OBVIOUS
  <2>3. PICK code : code = IF HelperRefuses THEN 2 ELSE 1
    OBVIOUS
  <2>4. \/ helper' = [helper EXCEPT !.st = "answering", !.answer = one, !.code = code]
        \/ helper' = [helper EXCEPT !.st = "exited", !.code = code]
    BY <1>4, <2>2, <2>3 DEF HelperRefuses, HelperCrashes
  <2>5. one \in 0..MaxAnswer /\ code \in {-9, 0, 1, 2} /\ code # 0
    BY <2>2, <2>3
  <2>6. /\ helper' \in Helpers /\ helper'.st \in {"answering", "exited"} /\ helper'.code # 0
        /\ helper'.read = helper.read /\ helper'.wrote = helper.wrote
    BY <2>4, <2>5 DEF TransportInv, TransportTypeOK, Helpers
  <2> QED BY <1>0, <2>1, <2>6 DEF TransportInv, TransportTypeOK, HelperInv, FlowInv, HelperAlive
<1>5. CASE HelperWrites
  <2>1. PICK n : n = helper.wrote + 1
    OBVIOUS
  <2>2. PICK one : one = 1
    OBVIOUS
  <2>3. pipes' = [pipes EXCEPT !.out = one] /\ helper' = [helper EXCEPT !.wrote = n]
    BY <1>5, <2>1, <2>2 DEF HelperWrites
  <2>4. n \in 0..MaxAnswer /\ one \in 0..1
    BY <1>5, <2>1, <2>2 DEF HelperWrites, TransportInv, TransportTypeOK, Helpers
  <2>5. /\ helper' \in Helpers /\ pipes' \in Pipes /\ pipes'.out = one /\ pipes'.in = pipes.in
        /\ helper'.read = helper.read /\ helper'.wrote = n /\ helper'.st = helper.st
        /\ helper'.code = helper.code
    BY <2>3, <2>4 DEF TransportInv, TransportTypeOK, Helpers, Pipes
  <2>6. pipes.out = 0 /\ reader.st # "done" /\ helper.st = "answering"
    BY <1>5 DEF HelperWrites
  <2> QED BY <1>0, <2>1, <2>2, <2>5, <2>6 DEF TransportInv, TransportTypeOK, Helpers, Readers,
      HelperInv, FlowInv, HelperAlive
<1>6. CASE HelperExits
  <2>1. UNCHANGED pipes /\ helper.st = "answering"
    BY <1>6 DEF HelperExits
  <2>2. PICK one : one = 1
    OBVIOUS
  <2>3. \/ helper' = [helper EXCEPT !.st = "exited"] /\ helper.wrote = helper.answer
        \/ helper' = [helper EXCEPT !.st = "exited", !.code = one]
    BY <1>6, <2>2 DEF HelperExits
  <2>4. one \in {-9, 0, 1, 2} /\ one # 0
    BY <2>2
  <2>5. /\ helper' \in Helpers /\ helper'.st = "exited"
        /\ helper'.read = helper.read /\ helper'.wrote = helper.wrote
        /\ helper'.code = 0 => helper.code = 0 /\ helper'.wrote = helper'.answer
    BY <2>3, <2>4 DEF TransportInv, TransportTypeOK, Helpers
  <2> QED BY <1>0, <2>1, <2>5 DEF TransportInv, TransportTypeOK, HelperInv, FlowInv, HelperAlive
<1> QED BY <1>2, <1>3, <1>4, <1>5, <1>6 DEF HelperStep

LEMMA WriterKeeps ==
    ASSUME TransportInv, WriterWrites
    PROVE  TransportInv'
<1>1. UNCHANGED <<caller, helper, reader>> /\ writer.st = "running"
  BY DEF WriterWrites
<1>2. /\ writer' \in Writers /\ pipes' \in Pipes /\ pipes'.out = pipes.out
      /\ helper.read + pipes'.in = writer'.wrote
  <2>1. CASE writer.wrote < Request /\ pipes.in = 0 /\ pipes' = [pipes EXCEPT !.in = 1]
             /\ writer' = [writer EXCEPT !.wrote = @ + 1]
    <3>1. PICK n : n = writer.wrote + 1
      OBVIOUS
    <3>2. PICK one : one = 1
      OBVIOUS
    <3>3. pipes' = [pipes EXCEPT !.in = one] /\ writer' = [writer EXCEPT !.wrote = n]
      BY <2>1, <3>1, <3>2
    <3>4. n \in 0..Request /\ one \in 0..1
      BY <2>1, <3>1, <3>2 DEF TransportInv, TransportTypeOK, Writers
    <3>5. /\ writer' \in Writers /\ pipes' \in Pipes /\ pipes'.out = pipes.out
          /\ pipes'.in = one /\ writer'.wrote = n
      BY <3>3, <3>4 DEF TransportInv, TransportTypeOK, Writers, Pipes
    <3> QED BY <2>1, <3>1, <3>2, <3>5 DEF TransportInv, TransportTypeOK, Helpers, Writers, FlowInv
  <2>2. CASE UNCHANGED pipes
             /\ (writer' = [writer EXCEPT !.st = "done"] \/ writer' = [writer EXCEPT !.st = "failed"])
    BY <2>2 DEF TransportInv, TransportTypeOK, Writers, Threads, FlowInv
  <2> QED BY <2>1, <2>2 DEF WriterWrites
<1> QED
  BY <1>1, <1>2 DEF TransportInv, TransportTypeOK, CallerInv, HelperInv, FlowInv, HelperAlive,
    ReturnedWhole, GoodAnswerKept

LEMMA ReaderKeeps ==
    ASSUME TransportInv, ReaderReads \/ ReaderFails
    PROVE  TransportInv'
<1>1. UNCHANGED <<caller, helper, writer>> /\ reader.st = "running"
  BY DEF ReaderReads, ReaderFails
<1>2. SUFFICES /\ reader' \in Readers /\ pipes' \in Pipes
               /\ reader'.st \in {"running", "done", "failed"} /\ FlowInv'
  BY <1>1 DEF TransportInv, TransportTypeOK, CallerInv, HelperInv, HelperAlive,
    ReturnedWhole, GoodAnswerKept
<1>3. CASE UNCHANGED pipes /\ \/ reader' = [reader EXCEPT !.st = "failed"]
                              \/ /\ reader' = [reader EXCEPT !.st = "done"]
                                 /\ pipes.out = 0 /\ ~HelperAlive
  <2>1. /\ reader' \in Readers /\ reader'.st \in {"done", "failed"} /\ reader'.kept = reader.kept
        /\ reader'.truncated = reader.truncated
        /\ reader'.st = "done" => pipes.out = 0 /\ ~HelperAlive
    BY <1>3 DEF TransportInv, TransportTypeOK, Readers, Threads
  <2> QED BY <1>1, <1>3, <2>1 DEF TransportInv, TransportTypeOK, FlowInv, HelperAlive
<1>4. CASE pipes.out = 1 /\ pipes' = [pipes EXCEPT !.out = 0] /\ reader' = Capture
  <2>1. PICK n : n = IF reader.kept < Limit THEN reader.kept + 1 ELSE reader.kept
    OBVIOUS
  <2>2. PICK zero : zero = 0
    OBVIOUS
  <2>3. PICK cut : cut = (reader.truncated \/ reader.kept = Limit)
    OBVIOUS
  <2>4. pipes' = [pipes EXCEPT !.out = zero] /\ reader' = [reader EXCEPT !.kept = n, !.truncated = cut]
    BY <1>4, <2>1, <2>2, <2>3 DEF Capture
  <2>5. n \in 0..Limit /\ zero \in 0..1 /\ cut \in BOOLEAN
    BY <2>1, <2>2, <2>3 DEF TransportInv, TransportTypeOK, Readers
  <2>6. /\ reader' \in Readers /\ pipes' \in Pipes /\ pipes'.out = zero /\ pipes'.in = pipes.in
        /\ reader'.kept = n /\ reader'.truncated = cut /\ reader'.st = reader.st
    BY <2>4, <2>5 DEF TransportInv, TransportTypeOK, Readers, Pipes
  <2> QED BY <1>1, <1>4, <2>1, <2>2, <2>3, <2>6 DEF TransportInv, TransportTypeOK, Helpers, Readers,
      FlowInv, HelperAlive
<1> QED BY <1>3, <1>4 DEF ReaderReads, ReaderFails

LEMMA TransportKeeps ==
    ASSUME TransportInv, [TransportNext]_transportVars
    PROVE  TransportInv'
<1>1. CASE UNCHANGED transportVars
  BY <1>1 DEF transportVars, TransportInv, TransportTypeOK, CallerInv, HelperInv, FlowInv,
    HelperAlive, ReturnedWhole, GoodAnswerKept
<1>2. CASE CallerStep \/ CallInterrupted
  <2>1. \/ SpawnHelper \/ MakeThreads \/ StartReader \/ StartWriter \/ KillHelper
        \/ OnlyCaller /\ (\/ SpawnHelperFails \/ ThreadFails \/ HelperEnded \/ TimedOut \/ ReapHelper
                          \/ JoinWriter \/ JoinReader \/ AllWritten \/ AllRead \/ JudgeOutput
                          \/ CallInterrupted)
    BY <1>2 DEF CallerStep, SpawnHelperFails, ThreadFails, HelperEnded, TimedOut, ReapHelper,
      JoinWriter, JoinReader, AllWritten, AllRead, JudgeOutput, CallInterrupted
  <2> QED BY <2>1, CallerAloneKeeps, CallerActsKeeps
<1> QED BY <1>1, <1>2, HelperKeeps, WriterKeeps, ReaderKeeps DEF TransportNext, ThreadStep

\* A response is handed on only if the helper gave it to the end, whatever the lengths, the
\* limit and the order in which process and threads end; a good one is not thrown away; and
\* no helper stays behind.
THEOREM TransportCorrect == TransportSpec => [](ReturnedWhole /\ GoodAnswerKept /\ HelperGone)
<1>1. TransportInv => ReturnedWhole /\ GoodAnswerKept /\ HelperGone
  BY DEF TransportInv, CallerInv, HelperGone
<1> QED BY <1>1, TransportStarts, TransportKeeps, PTL DEF TransportSpec

HIDE TransportAssumption

-----------------------------------------------------------------------------
(* The qualification of an image. *)

\* Evidence is written only where there is none, for any number of images and changes.
THEOREM EvidenceNeverReplacedCorrect == SmokeSpec => EvidenceNeverReplaced
<1>1. ASSUME [SmokeNext]_smokeVars, output.file # "absent"
      PROVE  output' = output
  <2>1. CASE UNCHANGED smokeVars
    BY <2>1 DEF smokeVars
  <2>2. CASE SmokeNext
    BY <1>1, <2>2 DEF SmokeNext, Meddle, Raises, Rejected, VerificationFails, ReadManifest, CheckHead,
      CheckStatus, CheckBlobs, CheckDocker, SetUpCase, CheckBefore, Inspect, Execute, CheckAfter,
      CheckCase, Leave, Judge, JudgePolicy, WriteEvidence, Readback, Interrupted
  <2> QED BY <1>1, <2>1, <2>2
<1>2. [SmokeNext]_smokeVars => [output.file # "absent" => output' = output]_smokeVars
  BY <1>1
<1> QED BY <1>2, PTL DEF SmokeSpec, EvidenceNeverReplaced

\* The program points: the checkout is verified, the case is prepared, run and judged.
Verifying == {"manifest", "head", "status", "blobs"}
Preparing == {"setup", "before", "inspect", "execute"}
InCase    == Preparing \cup {"after", "check"}
Decided   == {"write", "readback", "end", "interrupted"}

\* What a call that did not count can still be blamed on: a record, ...
Failed == \E i \in DOMAIN records : ~records[i]

\* ... the host, which never returns to what it was, ...
Changed == host.docker = "other" \/ ~Clean

\* ... or what was reported of the case that has not been judged yet.
Refuted ==
    \/ ~outcome.expected
    \/ outcome.rest \notin {"clean", "unverified"}
    \/ tool = "smoke" /\ outcome.image # Nothing /\ truth.image \notin {Nothing, outcome.image}

BeginInv ==
    /\ part = "pre" /\ spc \in Verifying \cup {"docker"} =>
          /\ records = <<>> /\ truth.calls = 0 /\ truth.sound
          /\ pinned = Nothing /\ truth.image = Nothing /\ outcome = NotCalled
    /\ spc \in InCase \cup {"docker", "leave"} => part = "pre"
    /\ spc = "judge" => part = "post"

\* The cases so far were all as they should be, or something can be blamed.
CasesInv ==
    /\ spc \in InCase =>
          /\ Len(records) < Cases /\ ~Failed
          /\ Len(records) = 0 => pinned = Nothing
          /\ Len(records) # 0 => pinned = truth.image /\ tool = "smoke"
    /\ spc \in Preparing =>
          /\ truth.calls = Len(records) /\ (truth.sound \/ Changed) /\ outcome = NotCalled
          /\ Len(records) = 0 => truth.image = Nothing
    /\ spc \in {"after", "check"} =>
          \/ outcome = NotCalled /\ tool = "smoke"
          \/ /\ truth.calls = Len(records) + 1
             /\ truth.sound \/ Changed \/ Refuted
             /\ Len(records) = 0 => truth.image = outcome.image
    /\ spc \in {"before", "inspect", "check", "leave"} => tool = "smoke"
    /\ spc = "leave" => Failed \/ (truth.calls = Cases /\ (truth.sound \/ Changed))

\* What the second look at the checkout and the executable still has to find out.
SmokeAfterInv ==
    part = "post" /\ tool = "smoke" =>
        /\ spc = "manifest" => Failed \/ (truth.calls = Cases /\ (seen.docker => truth.sound \/ ~Clean))
        /\ spc \in {"head", "status", "blobs"} =>
              Failed \/ (truth.calls = Cases /\ (seen.docker /\ seen.manifest = "committed" => truth.sound))
        /\ spc = "judge" =>
              Failed \/ (truth.calls = Cases /\ (seen.docker /\ seen.source => truth.sound))

PolicyAfterInv ==
    part = "post" /\ tool = "policy" =>
        /\ spc \in Verifying \cup {"judge"} => truth.calls = Cases
        /\ spc \in {"manifest", "head", "status"} => (seen.after => truth.sound \/ ~Clean \/ Refuted)
        /\ spc = "blobs" => (seen.after => truth.sound \/ Refuted)
        /\ spc = "judge" => (seen.after /\ seen.source => truth.sound \/ Refuted)

VerdictDone ==
    /\ verdict # Nothing => spc \in Decided
    /\ exit # Nothing => spc = "end"
    /\ spc \in {"write", "readback"} => tool = "smoke" /\ exit = Nothing
    /\ spc = "readback" => output = [file |-> "whole", status |-> verdict]

SmokeInv ==
    /\ SmokeTypeOK
    /\ BeginInv /\ CasesInv /\ SmokeAfterInv /\ PolicyAfterInv /\ VerdictDone
    /\ PassHappened

USE SmokeAssumption

LEMMA KindsNine ==
    /\ Len(Kinds) = 9
    /\ \A k \in 1..9 : Kinds[k] \in {"positive", "result", "failure", "refused"}
<1>1. Len(Kinds) = 9
  BY DEF Kinds
<1>2. ASSUME NEW k \in 1..9
      PROVE  Kinds[k] \in {"positive", "result", "failure", "refused"}
  <2>1. k \in {1, 2, 3, 4, 5, 6, 7, 8, 9}
    BY <1>2
  <2> QED BY <2>1 DEF Kinds
<1> QED BY <1>1, <1>2

LEMMA CasesAre ==
    ASSUME tool \in {"smoke", "policy"}
    PROVE  Cases \in Nat /\ Cases = IF tool = "smoke" THEN 9 ELSE 1
BY KindsNine DEF Cases

LEMMA SmokeStarts == SmokeInit => SmokeInv
<1> SUFFICES ASSUME SmokeInit PROVE SmokeInv
  OBVIOUS
<1>1. Cases \in Nat
  BY CasesAre DEF SmokeInit
<1>2. /\ host \in Hosts /\ seen \in Memories /\ outcome \in Outcomes /\ records \in Seq(BOOLEAN)
      /\ output \in Report
  BY DEF SmokeInit, Hosts, Memories, NotCalled, Outcomes, Report, Nothing
<1>3. PICK zero : zero = 0
  OBVIOUS
<1>4. truth = [calls |-> zero, sound |-> TRUE, image |-> Nothing] /\ zero \in 0..Cases
  BY <1>1, <1>3 DEF SmokeInit
<1>5. truth \in Truths /\ truth.calls = zero /\ truth.sound = TRUE /\ truth.image = Nothing
  BY <1>4 DEF Truths
<1>6. SmokeTypeOK
  BY <1>2, <1>5 DEF SmokeInit, SmokeTypeOK
<1> QED
  BY <1>3, <1>5, <1>6 DEF SmokeInit, SmokeInv, BeginInv, CasesInv, SmokeAfterInv, PolicyAfterInv,
    VerdictDone, PassHappened, InCase, Preparing, Verifying, Decided, Nothing

\* Whoever gives up has claimed nothing.
LEMMA RejectedKeeps ==
    ASSUME SmokeInv, Rejected
    PROVE  SmokeInv'
<1>1. UNCHANGED <<tool, host, part, seen, outcome, records, pinned, truth, output, verdict>>
  BY DEF Rejected
<1>2. exit' = "2" /\ spc' = "end"
  BY DEF Rejected
<1>3. SmokeTypeOK' /\ (Cases = Cases')
  BY <1>1, <1>2 DEF SmokeInv, SmokeTypeOK, Truths, Cases, Nothing
<1> QED
  BY <1>1, <1>2, <1>3 DEF SmokeInv, BeginInv, CasesInv, SmokeAfterInv, PolicyAfterInv,
    VerdictDone, PassHappened, InCase, Preparing, Verifying, Decided, Nothing

\* What has changed stays so; what was found out is not undone by it.
LEMMA MeddleKeeps ==
    ASSUME SmokeInv, Meddle
    PROVE  SmokeInv'
<1>1. UNCHANGED <<spc, tool, part, seen, outcome, records, pinned, truth, verdict, exit>>
  BY DEF Meddle
<1>2. /\ host' \in Hosts /\ output' \in Report
      /\ (Changed => Changed') /\ (~Clean => ~Clean')
      /\ output.file # "absent" => output' = output
  <2>1. CASE UNCHANGED output /\ \E h \in [docker : {host.docker, "other"}, image : Images,
               changes : {host.changes + 1},
               checkout : {"untracked", "edited", "moved"} \cup {host.checkout}] :
            /\ host.checkout \in {"edited", "moved"} => h.checkout = host.checkout
            /\ host' = h
    <3>1. PICK h \in [docker : {host.docker, "other"}, image : Images,
                      changes : {host.changes + 1},
                      checkout : {"untracked", "edited", "moved"} \cup {host.checkout}] :
            /\ host.checkout \in {"edited", "moved"} => h.checkout = host.checkout
            /\ host' = h
      BY <2>1
    <3>2. host.changes + 1 \in 0..MaxChanges
      BY DEF Meddle, SmokeInv, SmokeTypeOK, Hosts, Nothing
    <3>3. host' \in Hosts
      BY <3>1, <3>2 DEF SmokeInv, SmokeTypeOK, Hosts
    <3>4. /\ host.docker = "other" => host'.docker = "other"
          /\ host'.checkout \in {"untracked", "edited", "moved"} \cup {host.checkout}
          /\ host.checkout \in {"edited", "moved"} => host'.checkout = host.checkout
      BY <3>1
    <3>5. host.checkout \in {"committed", "untracked", "edited", "moved"}
      BY DEF SmokeInv, SmokeTypeOK, Hosts
    <3>6. ~Clean => ~Clean'
      BY <1>1, <3>4, <3>5 DEF Clean
    <3>7. output' \in Report /\ output' = output
      BY <2>1 DEF SmokeInv, SmokeTypeOK
    <3> QED BY <3>3, <3>4, <3>6, <3>7 DEF Changed
  <2>2. CASE output.file = "absent" /\ output' = [output EXCEPT !.file = "foreign"] /\ UNCHANGED host
    BY <1>1, <2>2 DEF SmokeInv, SmokeTypeOK, Report, Changed, Clean
  <2> QED BY <2>1, <2>2 DEF Meddle
<1>3. SmokeTypeOK'
  BY <1>1, <1>2 DEF SmokeInv, SmokeTypeOK, Truths, Cases
<1>4. UNCHANGED <<Failed, Refuted, Cases>>
  BY <1>1 DEF Failed, Refuted, Cases
<1>5. BeginInv' /\ CasesInv'
  BY <1>1, <1>2, <1>4 DEF SmokeInv, BeginInv, CasesInv
<1>6. SmokeAfterInv' /\ PolicyAfterInv'
  BY <1>1, <1>2, <1>4 DEF SmokeInv, SmokeAfterInv, PolicyAfterInv
<1>7. VerdictDone' /\ PassHappened'
  BY <1>1, <1>2, <1>4 DEF SmokeInv, VerdictDone, PassHappened
<1> QED BY <1>3, <1>5, <1>6, <1>7 DEF SmokeInv

-----------------------------------------------------------------------------
(* The checkout and the executable are looked at. *)

LEMMA VerificationFailsKeeps ==
    ASSUME SmokeInv, VerificationFails, spc \in Verifying
    PROVE  SmokeInv'
<1>1. CASE part = "pre"
  BY <1>1, RejectedKeeps DEF VerificationFails
<1>2. CASE part = "post"
  <2>1. UNCHANGED <<tool, host, part, outcome, records, pinned, truth, output, verdict, exit>>
    BY <1>2 DEF VerificationFails
  <2>2. seen' = [seen EXCEPT !.source = FALSE] /\ spc' = "judge"
    BY <1>2 DEF VerificationFails
  <2>3. /\ seen' \in Memories /\ seen'.source = FALSE /\ seen'.after = seen.after
        /\ seen'.docker = seen.docker
    BY <2>2 DEF SmokeInv, SmokeTypeOK, Memories
  <2>4. UNCHANGED <<Failed, Refuted, Cases, Clean>>
    BY <2>1 DEF Failed, Refuted, Cases, Clean
  <2>5. SmokeTypeOK'
    BY <2>1, <2>3, <2>4 DEF SmokeInv, SmokeTypeOK, Truths
  <2>6. BeginInv' /\ CasesInv' /\ VerdictDone' /\ PassHappened'
    BY <1>2, <2>1, <2>2, <2>4 DEF SmokeInv, BeginInv, CasesInv, VerdictDone, PassHappened,
      InCase, Preparing, Verifying, Decided, Nothing
  <2>7. SmokeAfterInv' /\ PolicyAfterInv'
    BY <1>2, <2>1, <2>2, <2>3, <2>4 DEF SmokeInv, SmokeAfterInv, PolicyAfterInv, Verifying
  <2> QED BY <2>5, <2>6, <2>7 DEF SmokeInv
<1> QED BY <1>1, <1>2 DEF SmokeInv, SmokeTypeOK

\* One look that goes well: only what is remembered changes.
LEMMA LooksKeep ==
    ASSUME SmokeInv, ReadManifest \/ CheckHead \/ CheckStatus \/ CheckBlobs \/ CheckDocker,
           ~Rejected, ~VerificationFails
    PROVE  SmokeInv'
<1>1. /\ UNCHANGED <<tool, host, part, outcome, records, pinned, truth, output, verdict, exit>>
      /\ \/ spc = "manifest" /\ spc' = "head"
         \/ spc = "head" /\ spc' = "status"
         \/ spc = "status" /\ spc' = "blobs" /\ Clean
         \/ spc = "blobs" /\ spc' = (IF part = "pre" THEN "docker" ELSE "judge")
         \/ spc = "docker" /\ spc' = "setup"
  BY DEF ReadManifest, CheckHead, CheckStatus, CheckBlobs, CheckDocker
<1>2. /\ seen' \in Memories /\ seen'.after = seen.after
      /\ spc # "docker" => seen'.docker = seen.docker
      /\ spc # "blobs" => seen'.source = seen.source
      /\ spc = "manifest" => seen'.manifest = Files
      /\ spc # "manifest" => seen'.manifest = seen.manifest
      /\ spc = "blobs" => seen.manifest = "committed"
  <2>1. seen \in Memories
    BY DEF SmokeInv, SmokeTypeOK
  <2>2. CASE ReadManifest
    <3>1. spc = "manifest" /\ seen' = [seen EXCEPT !.manifest = Files]
      BY <2>2 DEF ReadManifest
    <3> QED BY <2>1, <3>1 DEF SmokeInv, SmokeTypeOK, Memories, Files
  <2>3. CASE CheckHead \/ CheckStatus
    <3>1. spc \in {"head", "status"} /\ seen' = seen
      BY <2>3 DEF CheckHead, CheckStatus
    <3> QED BY <2>1, <3>1
  <2>4. CASE CheckBlobs
    <3>1. spc = "blobs" /\ seen.manifest = "committed" /\ seen' = [seen EXCEPT !.source = TRUE]
      BY <2>4 DEF CheckBlobs
    <3> QED BY <2>1, <3>1 DEF Memories
  <2>5. CASE CheckDocker
    <3>1. spc = "docker" /\ seen' = [seen EXCEPT !.docker = TRUE]
      BY <2>5 DEF CheckDocker
    <3> QED BY <2>1, <3>1 DEF Memories
  <2> QED BY <2>2, <2>3, <2>4, <2>5
<1>3. UNCHANGED <<Failed, Refuted, Cases, Clean, Changed>>
  BY <1>1 DEF Failed, Refuted, Cases, Clean, Changed
<1>4. SmokeTypeOK'
  BY <1>1, <1>2, <1>3 DEF SmokeInv, SmokeTypeOK, Truths
<1>5. BeginInv'
  BY <1>1 DEF SmokeInv, SmokeTypeOK, BeginInv, InCase, Preparing, Verifying
<1>6. CasesInv'
  <2>1. CASE spc = "docker"
    <3>1. spc' = "setup" /\ records = <<>> /\ truth.calls = 0 /\ truth.sound /\ pinned = Nothing
          /\ truth.image = Nothing /\ outcome = NotCalled
      BY <1>1, <2>1 DEF SmokeInv, BeginInv, InCase, Verifying
    <3>2. Len(records) = 0 /\ ~Failed /\ Len(records) < Cases
      BY <3>1, CasesAre DEF Failed, SmokeInv, SmokeTypeOK
    <3> QED BY <1>1, <1>3, <3>1, <3>2 DEF CasesInv, InCase, Preparing
  <2>2. CASE spc # "docker"
    BY <1>1, <2>2 DEF CasesInv, InCase, Preparing
  <2> QED BY <2>1, <2>2
<1>7. SmokeAfterInv'
  <2>1. tool = "smoke" /\ seen'.manifest = "committed" /\ spc = "manifest" => Clean
    BY <1>2 DEF Files, Clean, SmokeInv, SmokeTypeOK, Hosts
  <2> QED BY <1>1, <1>2, <1>3, <2>1 DEF SmokeInv, SmokeAfterInv
<1>8. PolicyAfterInv'
  BY <1>1, <1>2, <1>3 DEF SmokeInv, PolicyAfterInv, Verifying
<1>9. VerdictDone' /\ PassHappened'
  BY <1>1, <1>3 DEF SmokeInv, VerdictDone, PassHappened, Decided
<1> QED BY <1>4, <1>5, <1>6, <1>7, <1>8, <1>9 DEF SmokeInv

LEMMA VerifyingKeeps ==
    ASSUME SmokeInv, ReadManifest \/ CheckHead \/ CheckStatus \/ CheckBlobs \/ CheckDocker
    PROVE  SmokeInv'
<1>1. CASE Rejected
  BY <1>1, RejectedKeeps
<1>2. CASE VerificationFails
  <2>1. spc \in Verifying \/ Rejected
    <3>1. spc \in Verifying \cup {"docker"}
      BY DEF ReadManifest, CheckHead, CheckStatus, CheckBlobs, CheckDocker, Verifying
    <3>2. spc = "docker" => part = "pre"
      BY DEF SmokeInv, BeginInv
    <3> QED BY <1>2, <3>1, <3>2 DEF VerificationFails
  <2> QED BY <1>2, <2>1, RejectedKeeps, VerificationFailsKeeps
<1>3. CASE ~Rejected /\ ~VerificationFails
  BY <1>3, LooksKeep
<1> QED BY <1>1, <1>2, <1>3

-----------------------------------------------------------------------------
(* The cases. *)

LEMMA PreparingKeeps ==
    ASSUME SmokeInv, SetUpCase \/ CheckBefore \/ Inspect
    PROVE  SmokeInv'
<1>1. /\ UNCHANGED <<tool, host, part, outcome, records, pinned, truth, output, verdict, exit>>
      /\ spc \in {"setup", "before", "inspect"}
      /\ spc' \in {"before", "inspect", "execute", "after"}
      /\ spc' \in {"before", "inspect", "after"} => tool = "smoke"
  BY DEF SetUpCase, CheckBefore, Inspect, SmokeInv, SmokeTypeOK, CasesInv
<1>2. seen' \in Memories
  <2>1. CASE SetUpCase
    <3>1. PICK b \in BOOLEAN, p \in Images \cup {Nothing} :
             seen' = [seen EXCEPT !.before = b, !.after = FALSE, !.provenance = p]
      BY <2>1 DEF SetUpCase
    <3> QED BY <3>1 DEF SmokeInv, SmokeTypeOK, Memories
  <2>2. CASE CheckBefore
    <3>1. PICK b \in BOOLEAN : seen' = [seen EXCEPT !.before = b]
      BY <2>2 DEF CheckBefore, DockerFits
    <3> QED BY <3>1 DEF SmokeInv, SmokeTypeOK, Memories
  <2>3. CASE Inspect
    BY <2>3 DEF Inspect, SmokeInv, SmokeTypeOK, Memories, Hosts
  <2> QED BY <2>1, <2>2, <2>3
<1>3. UNCHANGED <<Failed, Refuted, Cases, Clean, Changed>>
  BY <1>1 DEF Failed, Refuted, Cases, Clean, Changed
<1>4. SmokeTypeOK'
  BY <1>1, <1>2, <1>3 DEF SmokeInv, SmokeTypeOK, Truths
<1>5. part = "pre"
  BY <1>1 DEF SmokeInv, BeginInv, InCase, Preparing
<1>6. BeginInv' /\ SmokeAfterInv' /\ PolicyAfterInv'
  BY <1>1, <1>5 DEF SmokeInv, BeginInv, SmokeAfterInv, PolicyAfterInv, Verifying
<1>7. CasesInv'
  <2>1. /\ Len(records) < Cases /\ ~Failed /\ truth.calls = Len(records)
        /\ truth.sound \/ Changed
        /\ outcome = NotCalled
        /\ Len(records) = 0 => pinned = Nothing /\ truth.image = Nothing
        /\ Len(records) # 0 => pinned = truth.image /\ tool = "smoke"
    BY <1>1 DEF SmokeInv, CasesInv, InCase, Preparing
  <2> QED BY <1>1, <1>3, <2>1 DEF CasesInv, InCase, Preparing
<1>8. VerdictDone' /\ PassHappened'
  BY <1>1, <1>3 DEF SmokeInv, VerdictDone, PassHappened, Decided
<1> QED BY <1>4, <1>6, <1>7, <1>8 DEF SmokeInv

\* A call that does not count leaves something to blame.
LEMMA ExecuteKeeps ==
    ASSUME SmokeInv, Execute
    PROVE  SmokeInv'
<1>1. PICK o \in Outcomes :
         /\ outcome' = o
         /\ truth' = [calls |-> truth.calls + 1, sound |-> truth.sound /\ Sound(o),
                      image |-> IF Case = 1 THEN o.image ELSE truth.image]
  BY DEF Execute
<1>2. /\ spc = "execute" /\ spc' = "after"
      /\ UNCHANGED <<tool, host, part, seen, records, pinned, output, verdict, exit>>
  BY DEF Execute
<1>3. UNCHANGED <<Failed, Cases, Clean, Changed>>
  BY <1>2 DEF Failed, Cases, Clean, Changed
<1>4. /\ truth.calls = Len(records) /\ Len(records) < Cases /\ (truth.sound \/ Changed)
      /\ Len(records) \in Nat /\ Cases \in Nat /\ part = "pre"
      /\ Len(records) = 0 => truth.image = Nothing
  BY <1>2, CasesAre DEF SmokeInv, SmokeTypeOK, BeginInv, CasesInv, InCase, Preparing
<1>5. PICK n : n = truth.calls + 1
  OBVIOUS
<1>6. PICK sound \in BOOLEAN : sound = (truth.sound /\ Sound(o))
  BY DEF SmokeInv, SmokeTypeOK
<1>7. PICK image : image = IF Case = 1 THEN o.image ELSE truth.image
  OBVIOUS
<1>8. truth' = [calls |-> n, sound |-> sound, image |-> image]
  BY <1>1, <1>5, <1>6, <1>7
<1>9. n \in 0..Cases /\ image \in Images \cup {Nothing}
  BY <1>4, <1>5, <1>7 DEF SmokeInv, SmokeTypeOK, Truths, Outcomes
<1>10. /\ truth' \in Truths' /\ truth'.calls = Len(records) + 1 /\ truth'.sound = sound
       /\ truth'.image = image
  BY <1>3, <1>4, <1>5, <1>8, <1>9 DEF Truths
<1>11. SmokeTypeOK'
  BY <1>1, <1>2, <1>10 DEF SmokeInv, SmokeTypeOK
<1>12. Case = truth.calls + 1 /\ (Len(records) = 0 <=> Case = 1)
  BY <1>4 DEF Case
<1>13. sound \/ Changed \/ Refuted'
  <2>1. host.docker \in {"authorized", "other"} /\ tool \in {"smoke", "policy"}
    BY DEF SmokeInv, SmokeTypeOK, Hosts
  <2>2. CASE truth.sound /\ ~Changed
    <3>1. sound \/ ~o.expected \/ o.rest \notin {"clean", "unverified"}
            \/ ~(o.image = Nothing \/ truth.image \in {Nothing, o.image} \/ tool = "policy")
      BY <1>6, <1>12, <2>1, <2>2 DEF Sound, Changed
    <3>2. truth.image \notin {Nothing, o.image} => image = truth.image
      BY <1>4, <1>7, <1>12
    <3> QED BY <1>1, <1>2, <1>10, <2>1, <3>1, <3>2 DEF Refuted
  <2> QED BY <1>4, <2>2
<1>14. BeginInv' /\ SmokeAfterInv' /\ PolicyAfterInv'
  BY <1>2, <1>4 DEF SmokeInv, BeginInv, SmokeAfterInv, PolicyAfterInv, Verifying
<1>15. CasesInv'
  <2>1. /\ ~Failed
        /\ Len(records) = 0 => pinned = Nothing
        /\ Len(records) # 0 => pinned = truth.image /\ tool = "smoke"
    BY <1>2 DEF SmokeInv, CasesInv, InCase, Preparing
  <2>2. Len(records) = 0 => truth'.image = outcome'.image
    BY <1>1, <1>7, <1>10, <1>12
  <2>3. Len(records) # 0 => truth'.image = truth.image
    BY <1>7, <1>10, <1>12
  <2> QED BY <1>2, <1>3, <1>4, <1>10, <1>13, <2>1, <2>2, <2>3 DEF CasesInv, InCase, Preparing
<1>16. VerdictDone' /\ PassHappened'
  BY <1>2 DEF SmokeInv, VerdictDone, PassHappened, Decided, Nothing
<1> QED BY <1>11, <1>14, <1>15, <1>16 DEF SmokeInv

LEMMA CheckAfterKeeps ==
    ASSUME SmokeInv, CheckAfter
    PROVE  SmokeInv'
<1>1. /\ UNCHANGED <<tool, host, outcome, records, pinned, truth, output, verdict, exit>>
      /\ spc = "after" /\ part = "pre"
      /\ tool = "smoke" => spc' = "check" /\ part' = "pre"
      /\ tool = "policy" => spc' = "manifest" /\ part' = "post"
  BY DEF CheckAfter, SmokeInv, SmokeTypeOK, BeginInv, InCase
<1>2. PICK b \in BOOLEAN : seen' = [seen EXCEPT !.after = b] /\ (b <=> host.docker = "authorized")
  BY DEF CheckAfter, DockerFits
<1>3. seen' \in Memories /\ seen'.after = b
  BY <1>2 DEF SmokeInv, SmokeTypeOK, Memories
<1>4. UNCHANGED <<Failed, Refuted, Cases, Clean, Changed>>
  BY <1>1 DEF Failed, Refuted, Cases, Clean, Changed
<1>5. SmokeTypeOK'
  BY <1>1, <1>3, <1>4 DEF SmokeInv, SmokeTypeOK, Truths
<1>6. /\ Len(records) < Cases /\ ~Failed
      /\ Len(records) = 0 => pinned = Nothing
      /\ Len(records) # 0 => pinned = truth.image /\ tool = "smoke"
      /\ \/ outcome = NotCalled /\ tool = "smoke"
         \/ /\ truth.calls = Len(records) + 1
            /\ truth.sound \/ Changed \/ Refuted
            /\ Len(records) = 0 => truth.image = outcome.image
  BY <1>1 DEF SmokeInv, CasesInv, InCase
<1>7. tool \in {"smoke", "policy"}
  BY DEF SmokeInv, SmokeTypeOK
<1>8. BeginInv' /\ CasesInv'
  BY <1>1, <1>4, <1>6, <1>7 DEF BeginInv, CasesInv, InCase, Preparing, Verifying
<1>9. SmokeAfterInv' /\ PolicyAfterInv'
  <2>1. CASE tool = "smoke"
    BY <1>1, <2>1 DEF SmokeAfterInv, PolicyAfterInv
  <2>2. CASE tool = "policy"
    <3>1. truth.calls = Cases
      BY <1>6, <2>2, CasesAre DEF SmokeInv, SmokeTypeOK
    <3>2. b => truth.sound \/ ~Clean \/ Refuted
      BY <1>2, <1>6, <2>2 DEF Changed
    <3> QED BY <1>1, <1>3, <1>4, <2>2, <3>1, <3>2 DEF SmokeAfterInv, PolicyAfterInv, Verifying
  <2> QED BY <1>7, <2>1, <2>2
<1>10. VerdictDone' /\ PassHappened'
  BY <1>1, <1>4, <1>7 DEF SmokeInv, VerdictDone, PassHappened, Decided
<1> QED BY <1>5, <1>8, <1>9, <1>10 DEF SmokeInv

\* A record that passes leaves nothing to blame but the host.
LEMMA FitsProves ==
    ASSUME SmokeInv, spc = "check", Fits(Case, outcome)
    PROVE  /\ truth.calls = Len(records) + 1 /\ (truth.sound \/ Changed)
           /\ Case = 1 => truth.image = outcome.image
<1>1. Case \in 1..9
  BY CasesAre DEF SmokeInv, SmokeTypeOK, CasesInv, InCase, Case
<1>2. outcome.expected
  BY DEF Fits
<1>3. outcome.rest \in {"clean", "unverified"} /\ (outcome.image = Nothing \/ SameImage(outcome))
  BY <1>1, KindsNine DEF Fits, CommonResult, CommonFailure, Refused
<1>4. outcome # NotCalled
  BY <1>2 DEF NotCalled
<1>5. /\ truth.calls = Len(records) + 1
      /\ truth.sound \/ Changed \/ Refuted
      /\ Len(records) = 0 => truth.image = outcome.image
      /\ Len(records) = 0 => pinned = Nothing
      /\ Len(records) # 0 => pinned = truth.image
  BY <1>4 DEF SmokeInv, CasesInv, InCase
<1>6. Len(records) \in Nat
  BY DEF SmokeInv, SmokeTypeOK
<1>7. ~Refuted
  BY <1>2, <1>3, <1>5 DEF Refuted, SameImage
<1> QED BY <1>5, <1>6, <1>7 DEF Case

LEMMA CheckCaseKeeps ==
    ASSUME SmokeInv, CheckCase
    PROVE  SmokeInv'
<1>1. /\ UNCHANGED <<tool, host, part, seen, truth, output, verdict, exit>>
      /\ spc = "check" /\ part = "pre" /\ tool = "smoke" /\ outcome' = NotCalled
  BY DEF CheckCase, SmokeInv, BeginInv, CasesInv, InCase
<1>2. PICK pass \in BOOLEAN :
         /\ pass <=> Fits(Case, outcome)
         /\ records' = Append(records, pass)
         /\ pinned' = IF Case = 1 /\ pass THEN outcome.image ELSE pinned
         /\ spc' = IF pass /\ Case < Cases THEN "setup" ELSE "leave"
  <2>1. Fits(Case, outcome) \in BOOLEAN
    BY DEF Fits
  <2> QED BY <2>1 DEF CheckCase
<1>3. UNCHANGED <<Cases, Clean, Changed>>
  BY <1>1 DEF Cases, Clean, Changed
<1>4. /\ Len(records) < Cases /\ ~Failed
      /\ Len(records) = 0 => pinned = Nothing
      /\ Len(records) # 0 => pinned = truth.image
      /\ Cases \in Nat /\ records \in Seq(BOOLEAN) /\ Len(records) \in Nat
  BY <1>1, CasesAre DEF SmokeInv, SmokeTypeOK, CasesInv, InCase
<1>5. /\ records' \in Seq(BOOLEAN) /\ Len(records') = Len(records) + 1
      /\ records'[Len(records) + 1] = pass
      /\ \A i \in 1..Len(records) : records'[i] = records[i]
      /\ DOMAIN records' = 1..(Len(records) + 1) /\ DOMAIN records = 1..Len(records)
  BY <1>2, <1>4
<1>6. Failed' <=> ~pass
  <2>1. CASE pass
    <3>1. \A i \in DOMAIN records' : records'[i]
      <4>1. ASSUME NEW i \in 1..(Len(records) + 1)
            PROVE  records'[i]
        <5>1. CASE i = Len(records) + 1
          <6>1. records'[i] = pass
            BY <1>5, <5>1
          <6> QED BY <2>1, <6>1
        <5>2. CASE i \in 1..Len(records)
          <6>1. records[i] /\ records'[i] = records[i]
            BY <1>4, <1>5, <5>2 DEF Failed
          <6> QED BY <6>1
        <5> QED BY <1>4, <5>1, <5>2
      <4> QED BY <1>5, <4>1
    <3> QED BY <2>1, <3>1 DEF Failed
  <2>2. CASE ~pass
    <3>1. Len(records) + 1 \in DOMAIN records' /\ ~records'[Len(records) + 1]
      BY <1>4, <1>5, <2>2
    <3> QED BY <2>2, <3>1 DEF Failed
  <2> QED BY <2>1, <2>2
<1>7. pass => /\ truth.calls = Len(records) + 1 /\ (truth.sound \/ Changed)
              /\ Case = 1 => truth.image = outcome.image
  BY <1>1, <1>2, FitsProves
<1>8. SmokeTypeOK'
  <2>1. outcome' \in Outcomes
    BY <1>1 DEF NotCalled, Outcomes, Nothing
  <2>2. pinned' \in Images \cup {Nothing}
    BY <1>2 DEF SmokeInv, SmokeTypeOK, Outcomes
  <2> QED BY <1>1, <1>3, <1>5, <2>1, <2>2 DEF SmokeInv, SmokeTypeOK, Truths
<1>9. BeginInv' /\ SmokeAfterInv' /\ PolicyAfterInv'
  BY <1>1, <1>2 DEF BeginInv, SmokeAfterInv, PolicyAfterInv, Verifying, InCase, Preparing
<1>10. CasesInv'
  <2>1. CASE pass /\ Case < Cases
    <3>1. spc' = "setup" /\ Len(records') < Cases /\ ~Failed' /\ Len(records') # 0
      BY <1>2, <1>4, <1>5, <1>6, <2>1 DEF Case
    <3>2. pinned' = truth.image
      BY <1>2, <1>4, <1>7, <2>1 DEF Case
    <3>3. truth.calls = Len(records') /\ (truth.sound \/ Changed)
      BY <1>5, <1>7, <2>1
    <3> QED BY <1>1, <1>3, <3>1, <3>2, <3>3 DEF CasesInv, InCase, Preparing
  <2>2. CASE ~(pass /\ Case < Cases)
    <3>1. Failed' \/ (truth.calls = Cases /\ (truth.sound \/ Changed))
      BY <1>4, <1>6, <1>7, <2>2 DEF Case
    <3>2. spc' = "leave"
      BY <1>2, <2>2
    <3> QED BY <1>1, <1>3, <3>1, <3>2 DEF CasesInv, InCase, Preparing
  <2> QED BY <2>1, <2>2
<1>11. VerdictDone' /\ PassHappened'
  BY <1>1, <1>2, <1>3 DEF SmokeInv, VerdictDone, PassHappened, Decided
<1> QED BY <1>8, <1>9, <1>10, <1>11 DEF SmokeInv

LEMMA LeaveKeeps ==
    ASSUME SmokeInv, Leave
    PROVE  SmokeInv'
<1>1. /\ UNCHANGED <<tool, host, outcome, records, pinned, truth, output, verdict, exit>>
      /\ spc = "leave" /\ spc' = "manifest" /\ part' = "post" /\ tool = "smoke"
      /\ Failed \/ (truth.calls = Cases /\ (truth.sound \/ Changed))
  BY DEF Leave, SmokeInv, CasesInv
<1>2. PICK b \in BOOLEAN : seen' = [seen EXCEPT !.docker = b] /\ (b <=> host.docker = "authorized")
  BY DEF Leave, DockerFits
<1>3. seen' \in Memories /\ seen'.docker = b
  BY <1>2 DEF SmokeInv, SmokeTypeOK, Memories
<1>4. UNCHANGED <<Failed, Refuted, Cases, Clean, Changed>>
  BY <1>1 DEF Failed, Refuted, Cases, Clean, Changed
<1>5. SmokeTypeOK'
  BY <1>1, <1>3, <1>4 DEF SmokeInv, SmokeTypeOK, Truths
<1>6. BeginInv' /\ CasesInv' /\ PolicyAfterInv'
  BY <1>1 DEF BeginInv, CasesInv, PolicyAfterInv, InCase, Preparing, Verifying
<1>7. SmokeAfterInv'
  BY <1>1, <1>2, <1>3, <1>4 DEF SmokeAfterInv, Changed
<1>8. VerdictDone' /\ PassHappened'
  BY <1>1, <1>4 DEF SmokeInv, VerdictDone, PassHappened, Decided
<1> QED BY <1>5, <1>6, <1>7, <1>8 DEF SmokeInv

-----------------------------------------------------------------------------
(* The verdict and its evidence. *)

LEMMA JudgeKeeps ==
    ASSUME SmokeInv, Judge \/ JudgePolicy
    PROVE  SmokeInv'
<1>1. /\ UNCHANGED <<tool, host, part, seen, outcome, records, pinned, truth, output>>
      /\ spc = "judge" /\ part = "post" /\ exit = Nothing
  BY DEF Judge, JudgePolicy, SmokeInv, BeginInv, VerdictDone
<1>2. verdict' \in {"pass", "fail"}
  BY DEF Judge, JudgePolicy
<1>3. /\ tool = "smoke" => spc' = "write" /\ exit' = exit
      /\ tool = "policy" => spc' = "end" /\ exit' = IF verdict' = "pass" THEN "0" ELSE "2"
  BY DEF Judge, JudgePolicy
<1>4. UNCHANGED Cases
  BY <1>1 DEF Cases
<1>5. SmokeTypeOK'
  BY <1>1, <1>2, <1>3, <1>4 DEF SmokeInv, SmokeTypeOK, Truths
<1>6. BeginInv' /\ CasesInv' /\ SmokeAfterInv' /\ PolicyAfterInv'
  BY <1>1, <1>3 DEF BeginInv, CasesInv, SmokeAfterInv, PolicyAfterInv, InCase, Preparing,
    Verifying, SmokeInv, SmokeTypeOK
<1>7. verdict' = "pass" => truth.calls = Cases /\ truth.sound
  <2>1. CASE Judge
    <3>1. verdict' = "pass" => seen.docker /\ seen.source /\ ~Failed
      BY <2>1 DEF Judge, Failed
    <3>2. tool = "smoke"
      BY <2>1 DEF Judge
    <3> QED BY <1>1, <3>1, <3>2 DEF SmokeInv, SmokeAfterInv
  <2>2. CASE JudgePolicy
    <3>1. verdict' = "pass" =>
             seen.after /\ seen.source /\ outcome.expected /\ outcome.rest = "clean"
      BY <2>2 DEF JudgePolicy, Drifted
    <3>2. tool = "policy"
      BY <2>2 DEF JudgePolicy
    <3>3. verdict' = "pass" => ~Refuted
      BY <3>1, <3>2 DEF Refuted
    <3> QED BY <1>1, <3>1, <3>2, <3>3 DEF SmokeInv, PolicyAfterInv
  <2> QED BY <2>1, <2>2
<1>8. VerdictDone' /\ PassHappened'
  <2>1. tool \in {"smoke", "policy"}
    BY DEF SmokeInv, SmokeTypeOK
  <2> QED BY <1>1, <1>2, <1>3, <1>4, <1>7, <2>1 DEF VerdictDone, PassHappened, Decided, Nothing
<1> QED BY <1>5, <1>6, <1>8 DEF SmokeInv

LEMMA WriteKeeps ==
    ASSUME SmokeInv, WriteEvidence \/ Readback \/ Interrupted
    PROVE  SmokeInv'
<1>1. CASE WriteEvidence /\ output.file # "absent"
  BY <1>1, RejectedKeeps DEF WriteEvidence
<1>2. CASE Readback \/ Interrupted \/ (WriteEvidence /\ output.file = "absent")
  <2>1. UNCHANGED <<tool, host, part, seen, outcome, records, pinned, truth, verdict>>
    BY <1>2 DEF WriteEvidence, Readback, Interrupted
  <2>2. UNCHANGED Cases
    BY <2>1 DEF Cases
  <2>3. spc' \in {"readback", "end", "interrupted"}
    BY <1>2 DEF WriteEvidence, Readback, Interrupted
  <2>4. output' \in Report
    BY <1>2 DEF WriteEvidence, Readback, Interrupted, Report, SmokeInv, SmokeTypeOK
  <2>5. SmokeTypeOK'
    BY <1>2, <2>1, <2>2, <2>4 DEF WriteEvidence, Readback, Interrupted, SmokeInv, SmokeTypeOK, Truths
  <2>6. BeginInv' /\ CasesInv' /\ SmokeAfterInv' /\ PolicyAfterInv'
    BY <2>1, <2>3 DEF BeginInv, CasesInv, SmokeAfterInv, PolicyAfterInv, InCase, Preparing, Verifying
  <2>7. VerdictDone'
    BY <1>2, <2>1, <2>3 DEF WriteEvidence, Readback, Interrupted, SmokeInv, VerdictDone, Decided
  <2>8. PassHappened'
    BY <1>2, <2>1, <2>2 DEF WriteEvidence, Readback, Interrupted, SmokeInv, VerdictDone, PassHappened,
      Decided, Nothing
  <2> QED BY <2>5, <2>6, <2>7, <2>8 DEF SmokeInv
<1> QED BY <1>1, <1>2

LEMMA SmokeKeeps ==
    ASSUME SmokeInv, [SmokeNext]_smokeVars
    PROVE  SmokeInv'
<1>1. CASE UNCHANGED smokeVars
  <2>1. UNCHANGED <<Failed, Refuted, Cases, Clean, Changed>>
    BY <1>1 DEF smokeVars, Failed, Refuted, Cases, Clean, Changed
  <2>2. SmokeTypeOK'
    BY <1>1, <2>1 DEF smokeVars, SmokeInv, SmokeTypeOK, Truths
  <2> QED BY <1>1, <2>1, <2>2 DEF smokeVars, SmokeInv, BeginInv, CasesInv, SmokeAfterInv,
      PolicyAfterInv, VerdictDone, PassHappened
<1>2. CASE Raises
  BY <1>2, RejectedKeeps DEF Raises
<1> QED
  BY <1>1, <1>2, MeddleKeeps, VerifyingKeeps, PreparingKeeps, ExecuteKeeps, CheckAfterKeeps,
    CheckCaseKeeps, LeaveKeeps, JudgeKeeps, WriteKeeps DEF SmokeNext

\* A pass is claimed only for what happened: every case once, on the committed sources, with
\* the authorized executable and on one image, however often others change them meanwhile.
THEOREM PassHappenedCorrect == SmokeSpec => []PassHappened
<1>1. SmokeInv => PassHappened
  BY DEF SmokeInv
<1> QED BY <1>1, SmokeStarts, SmokeKeeps, PTL DEF SmokeSpec

HIDE SmokeAssumption

-----------------------------------------------------------------------------
(* The limiter and the processes of its container. *)

USE MaxPidAssumption, SweepsAssumption

\* A process's parent is there and can still wait for it, or is PID 1; the script's is PID 1.
ParentsInv ==
    \A q \in Present :
        /\ proc[q].parent = Limiter \/ proc[proc[q].parent].st \in {"alive", "doomed"}
        /\ q = Script => proc[q].parent = Limiter

\* Nobody descends from himself: of any processes one has its parent elsewhere.
ForestInv ==
    \A S \in SUBSET Present : S # {} => \E w \in S : proc[w].parent \notin S

\* Among the processes that are there one is PID 1's own, and the reading of /proc either has
\* it still before it or has found somebody.
ScanInv ==
    lim.pc = "scan" /\ lim.found = {} =>
        Present = {} \/ \E w \in Present : proc[w].parent = Limiter /\ w >= lim.cursor

StagesInv ==
    /\ lim.pc = "copy" => Present = {}
    /\ lim.pc \in {"scan", "sweep", "recount", "list", "write"} => proc[Script].st = "none"
    /\ lim.pc \in {"recount", "list", "write"} => Present = {}
    /\ lim.code # "none" => lim.pc = "ended"
    /\ lim.pc \in {"copy", "poll", "watch", "killpg", "wait"} => lim.tries = 0
    /\ lim.pc = "scan" => lim.tries < Sweeps

\* What an inventory or the archive has seen so far is what is there, once nobody writes.
SeenInv ==
    /\ lim.pc \notin Walks \cup {"write"} => lim.seen = "unread"
    /\ lim.pc \in {"recount", "list", "write"} => lim.seen \in {"unread", ws}
    /\ lim.pc = "write" => ws = "within"

LimiterInv ==
    /\ LimiterTypeOK
    /\ ParentsInv /\ ForestInv /\ ScanInv /\ StagesInv /\ SeenInv
    /\ LimiterSound

LEMMA PidFacts ==
    /\ Limiter \notin Pids /\ Script \in Pids
    /\ \A p \in Pids : p \in Nat /\ p >= 2 /\ p <= MaxPid
BY DEF Limiter, Script, Pids

LEMMA GoneProcess == Gone \in Processes /\ Gone.st = "none"
BY DEF Gone, Processes

\* The forest stays one as long as nobody gets a new parent but PID 1.
LEMMA ForestKept ==
    ASSUME ForestInv, Present' \subseteq Present, Limiter \notin Present,
           \A q \in Present' : proc'[q].parent \in {proc[q].parent, Limiter}
    PROVE  ForestInv'
<1>1. SUFFICES ASSUME NEW S \in SUBSET Present', S # {}
               PROVE  \E w \in S : proc'[w].parent \notin S
  BY DEF ForestInv
<1>2. S \in SUBSET Present
  BY <1>1
<1>3. PICK w \in S : proc[w].parent \notin S
  BY <1>1, <1>2 DEF ForestInv
<1>4. proc'[w].parent \notin S
  BY <1>2, <1>3, <1>1
<1> QED BY <1>4

\* What every step of the processes keeps.
ProcKept ==
    /\ proc' \in [Pids -> Processes]
    /\ ParentsInv' /\ ForestInv'
    /\ proc[Script].st = "none" => proc'[Script].st = "none"
    /\ \A w \in Present : proc[w].parent = Limiter /\ w # Script =>
          w \in Present' /\ proc'[w].parent = Limiter

LEMMA ForkKeeps ==
    ASSUME LimiterTypeOK, ParentsInv, ForestInv, NEW p \in Pids, NEW q \in Pids, Fork(p, q)
    PROVE  ProcKept /\ Present # {}
<1>1. /\ proc[p].st = "alive" /\ proc[q].st = "none" /\ q # Script /\ p # q
      /\ proc \in [Pids -> Processes]
  BY DEF Fork, LimiterTypeOK
<1>2. PICK child : child = [st |-> "alive", parent |-> p, group |-> proc[p].group]
  OBVIOUS
<1>3. child \in Processes /\ child.st = "alive" /\ child.parent = p
  BY <1>1, <1>2 DEF Processes
<1>4. proc' = [proc EXCEPT ![q] = child]
  BY <1>2 DEF Fork
<1>5. /\ proc' \in [Pids -> Processes] /\ proc'[q] = child
      /\ \A r \in Pids : r # q => proc'[r] = proc[r]
  BY <1>1, <1>3, <1>4
<1>6. Present' = Present \cup {q} /\ q \notin Present /\ p \in Present
  BY <1>1, <1>3, <1>5 DEF Present
<1>7. ParentsInv'
  <2>1. ASSUME NEW r \in Present'
        PROVE  /\ proc'[r].parent = Limiter \/ proc'[proc'[r].parent].st \in {"alive", "doomed"}
               /\ r = Script => proc'[r].parent = Limiter
    <3>1. CASE r = q
      BY <1>1, <1>3, <1>5, <3>1
    <3>2. CASE r # q
      <4>1. r \in Present /\ r \in Pids /\ proc'[r] = proc[r]
        BY <1>5, <1>6, <3>2 DEF Present
      <4>2. proc[r].parent \in {Limiter} \cup Pids
        BY <1>1, <4>1 DEF Processes
      <4>3. proc[r].parent = Limiter \/ proc[proc[r].parent].st \in {"alive", "doomed"}
        BY <4>1 DEF ParentsInv
      <4>4. proc[r].parent # Limiter => proc'[proc[r].parent] = proc[proc[r].parent]
        BY <1>1, <1>5, <4>2, <4>3
      <4> QED BY <4>1, <4>3, <4>4 DEF ParentsInv
    <3> QED BY <3>1, <3>2
  <2> QED BY <2>1 DEF ParentsInv
<1>8. ForestInv'
  <2>1. SUFFICES ASSUME NEW S \in SUBSET Present', S # {}
                 PROVE  \E w \in S : proc'[w].parent \notin S
    BY DEF ForestInv
  <2>2. CASE S = {q}
    BY <1>1, <1>3, <1>5, <2>2
  <2>3. CASE S # {q}
    <3>1. S \ {q} \in SUBSET Present /\ S \ {q} # {}
      BY <1>6, <2>1, <2>3
    <3>2. PICK w \in S \ {q} : proc[w].parent \notin S \ {q}
      BY <3>1 DEF ForestInv
    <3>3. w \in Present /\ w \in Pids /\ proc'[w] = proc[w]
      BY <1>5, <3>1, <3>2 DEF Present
    <3>4. proc[w].parent # q
      BY <1>1, <3>3, PidFacts DEF ParentsInv
    <3> QED BY <3>2, <3>3, <3>4
  <2> QED BY <2>2, <2>3
<1> QED BY <1>1, <1>5, <1>6, <1>7, <1>8, PidFacts DEF ProcKept, Present

LEMMA ExitKeeps ==
    ASSUME LimiterTypeOK, ParentsInv, ForestInv, NEW p \in Pids, Exit(p)
    PROVE  ProcKept /\ Present # {}
<1>1. /\ proc[p].st \in {"alive", "doomed"} /\ proc \in [Pids -> Processes]
      /\ proc' = [q \in Pids |-> IF q = p THEN [proc[q] EXCEPT !.st = "zombie"]
                    ELSE IF proc[q].st # "none" /\ proc[q].parent = p
                         THEN [proc[q] EXCEPT !.parent = Limiter]
                    ELSE proc[q]]
  BY DEF Exit, LimiterTypeOK, Zombified
<1>2. ASSUME NEW q \in Pids
      PROVE  /\ proc'[q] \in Processes
             /\ proc'[q].st = IF q = p THEN "zombie" ELSE proc[q].st
             /\ proc'[q].parent = IF q # p /\ proc[q].st # "none" /\ proc[q].parent = p
                                  THEN Limiter ELSE proc[q].parent
  <2>1. proc[q] \in Processes
    BY <1>1
  <2>2. CASE q = p
    <3>1. proc'[q] = [proc[q] EXCEPT !.st = "zombie"]
      BY <1>1, <2>2
    <3> QED BY <2>1, <2>2, <3>1 DEF Processes
  <2>3. CASE q # p /\ proc[q].st # "none" /\ proc[q].parent = p
    <3>1. proc'[q] = [proc[q] EXCEPT !.parent = Limiter]
      BY <1>1, <2>3
    <3> QED BY <2>1, <2>3, <3>1 DEF Processes
  <2>4. CASE q # p /\ ~(proc[q].st # "none" /\ proc[q].parent = p)
    <3>1. proc'[q] = proc[q]
      BY <1>1, <2>4
    <3> QED BY <2>1, <2>4, <3>1
  <2> QED BY <2>2, <2>3, <2>4
<1>3. proc' \in [Pids -> Processes]
  <2>1. proc' = [q \in Pids |-> proc'[q]]
    BY <1>1
  <2> QED BY <1>2, <2>1
<1>4. Present' = Present /\ p \in Present
  BY <1>1, <1>2 DEF Present
<1>5. ASSUME NEW q \in Present
      PROVE  proc'[q].parent \in {proc[q].parent, Limiter}
             /\ (q # p => proc'[q].parent # p)
  BY <1>2, PidFacts DEF Present
<1>6. ParentsInv'
  <2>1. ASSUME NEW r \in Present'
        PROVE  /\ proc'[r].parent = Limiter \/ proc'[proc'[r].parent].st \in {"alive", "doomed"}
               /\ r = Script => proc'[r].parent = Limiter
    <3>1. r \in Present /\ r \in Pids
      BY <1>4 DEF Present
    <3>2. proc[r].parent \in {Limiter} \cup Pids
      BY <1>1, <3>1 DEF Processes
    <3>3. proc[r].parent = Limiter \/ proc[proc[r].parent].st \in {"alive", "doomed"}
      BY <3>1 DEF ParentsInv
    <3>4. CASE proc'[r].parent = Limiter
      BY <3>4
    <3>5. CASE proc'[r].parent # Limiter
      <4>1. proc'[r].parent = proc[r].parent /\ proc[r].parent \in Pids
        BY <1>5, <3>1, <3>2, <3>5
      <4>2. proc[r].parent # p
        <5>1. proc[r].parent # r
          <6>1. {r} \in SUBSET Present /\ {r} # {}
            BY <3>1
          <6> QED BY <6>1 DEF ForestInv
        <5> QED BY <1>5, <3>1, <4>1, <5>1
      <4>3. proc'[proc[r].parent].st = proc[proc[r].parent].st
        BY <1>2, <4>1, <4>2
      <4>4. r # Script
        BY <3>1, <3>5, <4>1 DEF ParentsInv
      <4> QED BY <3>3, <3>5, <4>1, <4>3, <4>4
    <3> QED BY <3>4, <3>5
  <2> QED BY <2>1 DEF ParentsInv
<1>7. ForestInv'
  BY <1>4, <1>5, ForestKept, PidFacts DEF Present
<1> QED BY <1>1, <1>2, <1>3, <1>4, <1>5, <1>6, <1>7, PidFacts DEF ProcKept

\* Signals, and waiting for a process that is dead already.
LEMMA SignalKeeps ==
    ASSUME LimiterTypeOK, ParentsInv, ForestInv, proc' \in [Pids -> Processes],
           \A q \in Pids :
              /\ proc'[q].st # "none" => proc[q].st # "none" /\ proc'[q].parent = proc[q].parent
              /\ proc[q].st \in {"alive", "doomed"} => proc'[q].st \in {"alive", "doomed"}
              /\ proc[q].parent = Limiter /\ q # Script /\ proc[q].st # "none" => proc'[q].st # "none"
    PROVE  ProcKept
<1>1. Present' \subseteq Present
  BY DEF Present
<1>2. ASSUME NEW r \in Present'
      PROVE  /\ proc'[r].parent = Limiter \/ proc'[proc'[r].parent].st \in {"alive", "doomed"}
             /\ r = Script => proc'[r].parent = Limiter
  <2>1. r \in Present /\ r \in Pids /\ proc'[r].parent = proc[r].parent
    BY <1>1 DEF Present
  <2>2. proc[r].parent \in {Limiter} \cup Pids
    BY <2>1 DEF LimiterTypeOK, Processes
  <2>3. proc[r].parent = Limiter \/ proc[proc[r].parent].st \in {"alive", "doomed"}
    BY <2>1 DEF ParentsInv
  <2>4. r = Script => proc[r].parent = Limiter
    BY <2>1 DEF ParentsInv
  <2> QED BY <2>1, <2>2, <2>3, <2>4
<1>3. ParentsInv'
  BY <1>2 DEF ParentsInv
<1>4. \A q \in Present' : proc'[q].parent \in {proc[q].parent, Limiter}
  BY DEF Present
<1>5. ForestInv'
  BY <1>1, <1>4, ForestKept, PidFacts DEF Present
<1>6. \A w \in Present : proc[w].parent = Limiter /\ w # Script =>
          w \in Present' /\ proc'[w].parent = Limiter
  BY DEF Present
<1> QED BY <1>3, <1>5, <1>6, PidFacts DEF ProcKept

LEMMA ReapKeeps ==
    ASSUME LimiterTypeOK, ParentsInv, ForestInv, NEW q \in Pids, proc[q].st = "zombie",
           proc[q].parent # Limiter \/ q = Script, proc' = [proc EXCEPT ![q] = Gone]
    PROVE  ProcKept /\ proc'[q].st = "none"
<1>1. /\ proc' \in [Pids -> Processes] /\ proc'[q] = Gone
      /\ \A r \in Pids : r # q => proc'[r] = proc[r]
  BY GoneProcess DEF LimiterTypeOK
<1>2. ASSUME NEW r \in Pids
      PROVE  /\ proc'[r].st # "none" => proc[r].st # "none" /\ proc'[r].parent = proc[r].parent
             /\ proc[r].st \in {"alive", "doomed"} => proc'[r].st \in {"alive", "doomed"}
             /\ proc[r].parent = Limiter /\ r # Script /\ proc[r].st # "none" => proc'[r].st # "none"
  BY <1>1, GoneProcess
<1> QED BY <1>1, <1>2, SignalKeeps, GoneProcess

\* SIGKILL for all of Targets that are alive.
LEMMA KillKeeps ==
    ASSUME LimiterTypeOK, ParentsInv, ForestInv, NEW Targets,
           proc' = [p \in Pids |-> IF p \in Targets THEN [proc[p] EXCEPT !.st = "doomed"] ELSE proc[p]],
           \A p \in Pids : p \in Targets => proc[p].st = "alive"
    PROVE  ProcKept /\ (proc'[Script].st = "none" <=> proc[Script].st = "none")
<1>1. ASSUME NEW q \in Pids
      PROVE  /\ proc'[q] \in Processes /\ proc'[q].parent = proc[q].parent
             /\ proc'[q].st = IF q \in Targets THEN "doomed" ELSE proc[q].st
  <2>1. proc[q] \in Processes
    BY DEF LimiterTypeOK
  <2>2. CASE q \in Targets
    <3>1. proc'[q] = [proc[q] EXCEPT !.st = "doomed"]
      BY <2>2
    <3> QED BY <2>1, <2>2, <3>1 DEF Processes
  <2>3. CASE q \notin Targets
    <3>1. proc'[q] = proc[q]
      BY <2>3
    <3> QED BY <2>1, <2>3, <3>1
  <2> QED BY <2>2, <2>3
<1>2. proc' = [q \in Pids |-> proc'[q]]
  OBVIOUS
<1>3. proc' \in [Pids -> Processes]
  BY <1>1, <1>2
<1>4. ASSUME NEW q \in Pids
      PROVE  /\ proc'[q].st # "none" => proc[q].st # "none" /\ proc'[q].parent = proc[q].parent
             /\ proc[q].st \in {"alive", "doomed"} => proc'[q].st \in {"alive", "doomed"}
             /\ proc[q].parent = Limiter /\ q # Script /\ proc[q].st # "none" => proc'[q].st # "none"
  BY <1>1
<1> QED BY <1>1, <1>3, <1>4, SignalKeeps, PidFacts

\* One step of the processes: the workspace changes only if somebody is there.
LEMMA KernelKeeps ==
    ASSUME LimiterTypeOK, ParentsInv, ForestInv, KernelStep
    PROVE  /\ ProcKept /\ UNCHANGED export
           /\ lim' = [lim EXCEPT !.seen = lim'.seen] /\ ws' \in Contents
           /\ lim'.seen \in {"unread", "changed", lim.seen}
           /\ lim.seen = "unread" => lim'.seen = "unread"
           /\ Present = {} => Present' = {} /\ UNCHANGED <<ws, lim>>
<1>0. lim = [lim EXCEPT !.seen = lim.seen] /\ ws \in Contents
  BY DEF LimiterTypeOK, Limiters
<1>1. PICK p \in Pids :
         \/ \E q \in Pids : Fork(p, q) \/ Reap(p, q)
         \/ SetSid(p) \/ Exit(p)
         \/ \E content \in Contents : Write(p, content)
  BY DEF KernelStep
<1>2. CASE \E q \in Pids : Fork(p, q)
  BY <1>0, <1>2, ForkKeeps DEF Fork
<1>3. CASE \E q \in Pids : Reap(p, q)
  <2>1. PICK q \in Pids : Reap(p, q)
    BY <1>3
  <2>2. /\ proc[q].st = "zombie" /\ proc[q].parent = p /\ proc' = [proc EXCEPT ![q] = Gone]
        /\ UNCHANGED <<ws, lim, export>>
    BY <2>1 DEF Reap
  <2>3. q \in Present /\ p # Limiter
    BY <2>2, PidFacts DEF Present
  <2> QED BY <1>0, <2>2, <2>3, ReapKeeps
<1>4. CASE SetSid(p)
  <2>1. PICK new : new = [proc[p] EXCEPT !.group = FALSE]
    OBVIOUS
  <2>2. proc' = [proc EXCEPT ![p] = new] /\ UNCHANGED <<ws, lim, export>> /\ proc[p].st = "alive"
    BY <1>4, <2>1 DEF SetSid
  <2>3. new \in Processes /\ new.st = proc[p].st /\ new.parent = proc[p].parent
    <3>1. proc[p] \in Processes
      BY DEF LimiterTypeOK
    <3>2. PICK b \in BOOLEAN : new = [proc[p] EXCEPT !.group = b]
      BY <2>1
    <3> QED BY <3>1, <3>2 DEF Processes
  <2>4. /\ proc' \in [Pids -> Processes] /\ proc'[p] = new
        /\ \A r \in Pids : r # p => proc'[r] = proc[r]
    BY <2>2, <2>3 DEF LimiterTypeOK
  <2>5. ASSUME NEW r \in Pids
        PROVE  /\ proc'[r].st # "none" => proc[r].st # "none" /\ proc'[r].parent = proc[r].parent
               /\ proc[r].st \in {"alive", "doomed"} => proc'[r].st \in {"alive", "doomed"}
               /\ proc[r].parent = Limiter /\ r # Script /\ proc[r].st # "none" => proc'[r].st # "none"
    BY <2>3, <2>4
  <2>6. p \in Present
    BY <2>2 DEF Present
  <2> QED BY <1>0, <2>2, <2>4, <2>5, <2>6, SignalKeeps
<1>5. CASE Exit(p)
  BY <1>0, <1>5, ExitKeeps DEF Exit
<1>6. CASE \E content \in Contents : Write(p, content)
  <2>1. PICK content \in Contents : Write(p, content)
    BY <1>6
  <2>2. /\ proc[p].st \in {"alive", "doomed"} /\ ws' = content /\ UNCHANGED <<proc, export>>
        /\ lim' = [lim EXCEPT !.seen = IF @ = "unread" THEN @ ELSE "changed"]
    BY <2>1 DEF Write
  <2>3. PICK s : s = IF lim.seen = "unread" THEN lim.seen ELSE "changed"
    OBVIOUS
  <2>4. lim' = [lim EXCEPT !.seen = s]
    BY <2>2, <2>3
  <2>5. lim'.seen = s
    BY <2>4 DEF LimiterTypeOK, Limiters
  <2>6. ProcKept
    <3>1. proc' \in [Pids -> Processes] /\ Present' = Present /\ Limiter \notin Present
      BY <2>2, PidFacts DEF LimiterTypeOK, Present
    <3>2. ParentsInv'
      BY <2>2, <3>1 DEF ParentsInv
    <3>3. ForestInv'
      BY <2>2, <3>1 DEF ForestInv
    <3> QED BY <2>2, <3>1, <3>2, <3>3 DEF ProcKept
  <2>7. p \in Present
    BY <2>2 DEF Present
  <2> QED BY <2>2, <2>3, <2>4, <2>5, <2>6, <2>7
<1> QED BY <1>1, <1>2, <1>3, <1>4, <1>5, <1>6

LEMMA ProcStays ==
    ASSUME LimiterTypeOK, ParentsInv, ForestInv, UNCHANGED proc
    PROVE  ProcKept /\ Present' = Present
<1>1. Present' = Present
  BY DEF Present
<1>2. ParentsInv'
  BY <1>1 DEF ParentsInv
<1>3. ForestInv'
  BY <1>1 DEF ForestInv
<1> QED BY <1>1, <1>2, <1>3 DEF ProcKept, LimiterTypeOK

LEMMA LimiterProcessesKeep ==
    ASSUME LimiterInv, KernelStep
    PROVE  LimiterInv'
<1>1. /\ ProcKept /\ UNCHANGED export
      /\ lim' = [lim EXCEPT !.seen = lim'.seen] /\ ws' \in Contents
      /\ lim'.seen \in {"unread", "changed", lim.seen}
      /\ lim.seen = "unread" => lim'.seen = "unread"
      /\ Present = {} => Present' = {} /\ UNCHANGED <<ws, lim>>
  BY KernelKeeps DEF LimiterInv
<1>2. /\ lim' \in Limiters /\ lim'.pc = lim.pc /\ lim'.found = lim.found /\ lim'.cursor = lim.cursor
      /\ lim'.tries = lim.tries /\ lim'.code = lim.code
  BY <1>1 DEF LimiterInv, LimiterTypeOK, Limiters
<1>3. lim.code = "none"
  BY DEF KernelStep, LimiterEnded, LimiterInv, StagesInv
<1>4. LimiterTypeOK'
  BY <1>1, <1>2 DEF LimiterInv, LimiterTypeOK, ProcKept
<1>5. ScanInv'
  <2>1. SUFFICES ASSUME lim.pc = "scan", lim.found = {}, Present # {}
                 PROVE  \E w \in Present' : proc'[w].parent = Limiter /\ w >= lim.cursor
    BY <1>1, <1>2 DEF ScanInv
  <2>2. PICK w \in Present : proc[w].parent = Limiter /\ w >= lim.cursor
    BY <2>1 DEF LimiterInv, ScanInv
  <2>3. w # Script
    BY <2>1 DEF LimiterInv, StagesInv, Present
  <2> QED BY <1>1, <2>2, <2>3 DEF ProcKept
<1>6. StagesInv'
  <2>1. Present = {} => Present' = {}
    BY <1>1
  <2>2. proc[Script].st = "none" => proc'[Script].st = "none"
    BY <1>1 DEF ProcKept
  <2>3. StagesInv
    BY DEF LimiterInv
  <2> QED BY ONLY <1>2, <1>3, <2>1, <2>2, <2>3 DEF StagesInv
<1>7. SeenInv'
  <2>1. lim.pc \in {"recount", "list", "write"} => lim'.seen = lim.seen /\ ws' = ws
    BY <1>1 DEF LimiterInv, StagesInv
  <2> QED BY <1>1, <1>2, <2>1 DEF LimiterInv, SeenInv
<1>8. LimiterSound'
  BY <1>2, <1>3, <1>6 DEF LimiterSound, Alone, ExportSound, StagesInv
<1> QED BY <1>1, <1>4, <1>5, <1>6, <1>7, <1>8 DEF LimiterInv, ProcKept

LEMMA HandledIs ==
    ASSUME lim \in Limiters
    PROVE  /\ Handled \in Limiters /\ Handled.pc = "killpg" /\ Handled.seen = "unread"
           /\ Handled.tries = 0 /\ Handled.code = lim.code
<1>1. PICK zero : zero = 0
  OBVIOUS
<1>2. PICK two : two = 2
  OBVIOUS
<1>3. zero \in 0..Sweeps /\ zero \in 0..EmptyReads /\ two \in 2..(MaxPid + 1)
  BY <1>1, <1>2
<1>4. PICK yes \in BOOLEAN : yes = TRUE
  OBVIOUS
<1>5. Handled = [lim EXCEPT !.pc = "killpg", !.seen = "unread", !.failed = yes,
                            !.tries = zero, !.empty = zero, !.found = {}, !.cursor = two]
  BY <1>1, <1>2, <1>4 DEF Handled
<1>6. /\ Handled \in Limiters /\ Handled.pc = "killpg" /\ Handled.seen = "unread"
      /\ Handled.tries = zero /\ Handled.code = lim.code
  BY <1>3, <1>5 DEF Limiters
<1> QED BY <1>1, <1>6

\* An exception leads back to the killing.
LEMMA HandledKeeps ==
    ASSUME LimiterInv, ProcKept, lim.pc # "ended", lim' = Handled, UNCHANGED <<ws, export>>
    PROVE  LimiterInv'
<1>1. /\ lim' \in Limiters /\ lim'.pc = "killpg" /\ lim'.seen = "unread"
      /\ lim'.tries = 0 /\ lim'.code = "none"
  BY HandledIs DEF LimiterInv, LimiterTypeOK, StagesInv
<1>2. LimiterTypeOK'
  BY <1>1 DEF LimiterInv, LimiterTypeOK, ProcKept
<1>3. ScanInv' /\ StagesInv' /\ SeenInv' /\ LimiterSound'
  BY <1>1 DEF ScanInv, StagesInv, SeenInv, LimiterSound, Alone, ExportSound, Walks
<1> QED BY <1>2, <1>3 DEF LimiterInv, ProcKept

\* The limiter ends without an export.
LEMMA EndedKeeps ==
    ASSUME LimiterInv, ProcKept, UNCHANGED <<ws, export>>, lim' \in Limiters, lim'.pc = "ended",
           lim'.code \in {"limit", "raised"}, lim'.seen = "unread"
    PROVE  LimiterInv'
<1>1. LimiterTypeOK'
  BY DEF LimiterInv, LimiterTypeOK, ProcKept
<1>2. ScanInv' /\ StagesInv' /\ SeenInv' /\ LimiterSound'
  BY DEF ScanInv, StagesInv, SeenInv, LimiterSound, Alone, ExportSound, Walks
<1> QED BY <1>1, <1>2 DEF LimiterInv, ProcKept

\* It goes on, before the processes have been killed.
LEMMA EarlyKeeps ==
    ASSUME LimiterInv, ProcKept, UNCHANGED <<ws, export>>, lim' \in Limiters,
           lim'.pc \in {"poll", "watch", "killpg", "wait"}, lim'.tries = 0, lim'.code = "none",
           lim'.pc # "watch" => lim'.seen = "unread"
    PROVE  LimiterInv'
<1>1. LimiterTypeOK'
  BY DEF LimiterInv, LimiterTypeOK, ProcKept
<1>2. ScanInv' /\ StagesInv' /\ SeenInv' /\ LimiterSound'
  BY DEF ScanInv, StagesInv, SeenInv, LimiterSound, Alone, ExportSound, Walks
<1> QED BY <1>1, <1>2 DEF LimiterInv, ProcKept

LEMMA LimiterLim ==
    ASSUME LimiterInv
    PROVE  /\ lim \in Limiters /\ ws \in Contents
           /\ LimiterTypeOK /\ ParentsInv /\ ForestInv
           /\ lim.pc # "ended" => lim.code = "none"
           /\ lim.pc \notin Walks \cup {"write"} => lim.seen = "unread"
BY DEF LimiterInv, LimiterTypeOK, StagesInv, SeenInv

\* Starting the script, asking for it, looking at the workspace meanwhile, killing the group.
LEMMA BeforeKillKeeps ==
    ASSUME LimiterInv, Start \/ Refuse \/ Poll \/ KillGroup
    PROVE  LimiterInv'
<1>1. CASE Start
  <2>1. Present = {} /\ lim.tries = 0 /\ lim.pc = "copy"
    BY <1>1 DEF Start, LimiterInv, StagesInv
  <2>2. PICK script : script = [st |-> "alive", parent |-> Limiter, group |-> TRUE]
    OBVIOUS
  <2>3. script \in Processes /\ script.st = "alive" /\ script.parent = Limiter
    BY <2>2 DEF Processes
  <2>4. proc' = [proc EXCEPT ![Script] = script] /\ UNCHANGED <<ws, export>>
        /\ lim' = [lim EXCEPT !.pc = "poll"]
    BY <1>1, <2>2 DEF Start
  <2>5. /\ proc' \in [Pids -> Processes] /\ proc'[Script] = script
        /\ \A r \in Pids : r # Script => proc'[r] = proc[r]
    BY <2>3, <2>4, PidFacts DEF LimiterInv, LimiterTypeOK
  <2>6. Present' = {Script}
    BY <2>1, <2>3, <2>5, PidFacts DEF Present
  <2>7. ParentsInv' /\ ForestInv'
    <3>1. ParentsInv'
      BY <2>3, <2>5, <2>6 DEF ParentsInv
    <3>2. \A S \in SUBSET {Script} : S # {} => Script \in S /\ Limiter \notin S
      BY PidFacts
    <3>3. ForestInv'
      BY <2>3, <2>5, <2>6, <3>2 DEF ForestInv
    <3> QED BY <3>1, <3>3
  <2>8. /\ lim' \in Limiters /\ lim'.pc = "poll" /\ lim'.tries = 0 /\ lim'.code = "none"
        /\ lim'.seen = "unread"
    BY <2>1, <2>4, LimiterLim DEF Limiters, Walks
  <2>9. LimiterTypeOK'
    BY <2>4, <2>5, <2>8 DEF LimiterInv, LimiterTypeOK
  <2>10. ScanInv' /\ StagesInv' /\ SeenInv' /\ LimiterSound'
    BY <2>8 DEF ScanInv, StagesInv, SeenInv, LimiterSound, Alone, ExportSound, Walks
  <2> QED BY <2>7, <2>9, <2>10 DEF LimiterInv
<1>2. CASE Refuse
  <2>1. lim' = [lim EXCEPT !.pc = "ended", !.code = "limit"] /\ UNCHANGED <<proc, ws, export>>
        /\ lim.pc = "copy"
    BY <1>2 DEF Refuse
  <2>2. /\ lim' \in Limiters /\ lim'.pc = "ended" /\ lim'.code = "limit" /\ lim'.seen = "unread"
    BY <2>1, LimiterLim DEF Limiters, Walks
  <2> QED BY <2>1, <2>2, EndedKeeps, ProcStays, LimiterLim
<1>3. CASE Poll
  <2>1. lim.pc = "poll" /\ lim.tries = 0 /\ UNCHANGED <<ws, export>>
    BY <1>3 DEF Poll, LimiterInv, StagesInv
  <2>2. /\ lim' \in Limiters /\ lim'.pc \in {"killpg", "watch"} /\ lim'.tries = 0
        /\ lim'.code = "none" /\ lim'.seen = "unread"
    BY <1>3, <2>1, LimiterLim DEF Poll, Limiters, Walks
  <2>3. ProcKept
    <3>1. CASE proc[Script].st = "zombie"
      <4>1. proc' = [proc EXCEPT ![Script] = Gone]
        BY <1>3, <3>1 DEF Poll
      <4> QED BY <3>1, <4>1, ReapKeeps, PidFacts, LimiterLim
    <3>2. CASE proc[Script].st # "zombie"
      BY <1>3, <3>2, ProcStays, LimiterLim DEF Poll
    <3> QED BY <3>1, <3>2
  <2> QED BY <2>1, <2>2, <2>3, EarlyKeeps
<1>4. CASE KillGroup
  <2>1. lim.pc = "killpg" /\ lim.tries = 0 /\ UNCHANGED <<ws, export>>
    BY <1>4 DEF KillGroup, LimiterInv, StagesInv
  <2>2. /\ lim' \in Limiters /\ lim'.pc = "wait" /\ lim'.tries = 0
        /\ lim'.code = "none" /\ lim'.seen = "unread"
    BY <1>4, <2>1, LimiterLim DEF KillGroup, Limiters, Walks
  <2>3. PICK Targets : Targets = {p \in Pids : proc[p].st = "alive" /\ (proc[p].group \/ p = Script)}
    OBVIOUS
  <2>4. proc' = [p \in Pids |-> IF p \in Targets THEN [proc[p] EXCEPT !.st = "doomed"] ELSE proc[p]]
    BY <1>4, <2>3 DEF KillGroup
  <2>5. \A p \in Pids : p \in Targets => proc[p].st = "alive"
    BY <2>3
  <2>6. ProcKept
    BY <2>4, <2>5, KillKeeps, LimiterLim
  <2> QED BY <2>1, <2>2, <2>6, EarlyKeeps
<1> QED BY <1>1, <1>2, <1>3, <1>4

\* The inventories; the two for the export are taken when nobody is there any more.
LEMMA InventoryKeeps ==
    ASSUME LimiterInv, BeginInventory \/ EndInventory \/ InventoryFails
    PROVE  LimiterInv'
<1>1. UNCHANGED <<proc, ws, export>> /\ lim.pc \in Walks /\ ProcKept /\ Present' = Present
  BY ProcStays, LimiterLim DEF BeginInventory, EndInventory, InventoryFails
<1>2. CASE InventoryFails
  BY <1>1, <1>2, HandledKeeps DEF InventoryFails, Walks
<1>3. CASE BeginInventory \/ EndInventory
  <2>1. /\ lim' \in Limiters /\ lim'.tries = lim.tries /\ lim'.code = lim.code
        /\ \/ lim'.pc = lim.pc /\ lim'.seen = ws
           \/ /\ lim'.seen = "unread" /\ WithinLimits(lim.seen)
              /\ lim.pc = "list" => lim.seen # "reserved"
              /\ \/ lim.pc = "watch" /\ lim'.pc = "poll"
                 \/ lim.pc = "recount" /\ lim'.pc = "list"
                 \/ lim.pc = "list" /\ lim'.pc = "write"
    <3>1. CASE BeginInventory
      <4>1. lim' = [lim EXCEPT !.seen = ws]
        BY <3>1 DEF BeginInventory
      <4> QED BY <4>1, LimiterLim DEF Limiters
    <3>2. CASE EndInventory
      <4>1. PICK next : next = AfterWalk[lim.pc]
        OBVIOUS
      <4>4. lim' = [lim EXCEPT !.seen = "unread", !.pc = next]
        BY <3>2, <4>1 DEF EndInventory
      <4>3. \/ lim.pc = "watch" /\ next = "poll"
            \/ lim.pc = "recount" /\ next = "list"
            \/ lim.pc = "list" /\ next = "write"
        BY <1>1, <4>1 DEF AfterWalk, Walks
      <4>2. lim' \in Limiters /\ lim'.pc = next /\ lim'.seen = "unread"
            /\ lim'.tries = lim.tries /\ lim'.code = lim.code
        BY <4>3, <4>4, LimiterLim DEF Limiters, Walks
      <4> QED BY <3>2, <4>2, <4>3 DEF EndInventory
    <3> QED BY <1>3, <3>1, <3>2
  <2>2. LimiterTypeOK'
    BY <1>1, <2>1 DEF LimiterInv, LimiterTypeOK
  <2>3. CASE lim.pc = "watch"
    <3>1. lim.tries = 0 /\ lim.code = "none"
      BY <2>3 DEF LimiterInv, StagesInv
    <3>2. lim'.pc \in {"poll", "watch"} /\ (lim'.pc # "watch" => lim'.seen = "unread")
      BY <2>1, <2>3
    <3> QED BY <1>1, <2>1, <2>3, <3>1, <3>2, EarlyKeeps
  <2>4. CASE lim.pc \in {"recount", "list"}
    <3>1. /\ Present = {} /\ proc[Script].st = "none" /\ lim.code = "none" /\ lim.seen \in {"unread", ws}
      BY <2>4 DEF LimiterInv, StagesInv, SeenInv
    <3>2. lim'.pc \in {"recount", "list", "write"} /\ lim'.seen \in {"unread", ws}
      BY <2>1, <2>4
    <3>3. lim'.pc = "write" => ws = "within"
      BY <2>1, <2>4, <3>1, LimiterLim DEF WithinLimits, Contents
    <3>4. ScanInv' /\ StagesInv' /\ SeenInv' /\ LimiterSound'
      BY <1>1, <2>1, <3>1, <3>2, <3>3 DEF ScanInv, StagesInv, SeenInv, LimiterSound, Alone,
        ExportSound, Walks
    <3> QED BY <1>1, <2>2, <3>4 DEF LimiterInv, ProcKept
  <2> QED BY <1>1, <2>3, <2>4 DEF Walks
<1> QED BY <1>2, <1>3

\* A round of /proc begins: if anybody is there, so is a child of PID 1, and it is still ahead.
LEMMA RoundBegins ==
    ASSUME LimiterInv, ProcKept, UNCHANGED <<ws, export>>, lim' \in Limiters,
           lim'.pc = "scan", lim'.cursor = 2, lim'.tries < Sweeps, lim'.code = "none",
           lim'.seen = "unread", proc'[Script].st = "none"
    PROVE  LimiterInv'
<1>1. LimiterTypeOK'
  BY DEF LimiterInv, LimiterTypeOK, ProcKept
<1>2. Present' # {} => \E w \in Present' : proc'[w].parent = Limiter
  <2>1. SUFFICES ASSUME Present' # {}
                 PROVE  \E w \in Present' : proc'[w].parent = Limiter
    OBVIOUS
  <2>2. PICK w \in Present' : proc'[w].parent \notin Present'
    BY <2>1 DEF ProcKept, ForestInv
  <2>3. proc'[w].parent \in {Limiter} \cup Pids
    BY <1>1 DEF Present, LimiterTypeOK, Processes
  <2>4. proc'[w].parent \in Pids => proc'[proc'[w].parent].st = "none"
    BY <2>2 DEF Present
  <2> QED BY <2>2, <2>3, <2>4 DEF ProcKept, ParentsInv
<1>3. \A w \in Present' : w >= lim'.cursor
  BY PidFacts DEF Present
<1>4. ScanInv'
  BY <1>2, <1>3 DEF ScanInv
<1>5. StagesInv' /\ SeenInv' /\ LimiterSound'
  BY DEF StagesInv, SeenInv, LimiterSound, Alone, ExportSound, Walks
<1> QED BY <1>1, <1>4, <1>5 DEF LimiterInv, ProcKept

LEMMA WaitKeeps ==
    ASSUME LimiterInv, WaitScript \/ KillFails \/ LimiterInterrupted
    PROVE  LimiterInv'
<1>1. CASE WaitScript
  <2>1. /\ lim.pc = "wait" /\ lim.tries = 0 /\ lim.code = "none" /\ lim.seen = "unread"
        /\ UNCHANGED <<ws, export>>
    BY <1>1, LimiterLim DEF WaitScript, LimiterInv, StagesInv, Walks
  <2>2. PICK two : two = 2
    OBVIOUS
  <2>3. lim' = [lim EXCEPT !.pc = "scan", !.cursor = two] /\ two \in 2..(MaxPid + 1)
    BY <1>1, <2>2 DEF WaitScript
  <2>4. /\ lim' \in Limiters /\ lim'.pc = "scan" /\ lim'.cursor = two /\ lim'.tries = lim.tries
        /\ lim'.code = lim.code /\ lim'.seen = lim.seen
    BY <2>3, LimiterLim DEF Limiters
  <2>5. lim'.tries < Sweeps
    BY <2>1, <2>4
  <2>6. proc' = [proc EXCEPT ![Script] = Gone] /\ proc[Script].st \in {"zombie", "none"}
    BY <1>1 DEF WaitScript
  <2>7. ProcKept /\ proc'[Script].st = "none"
    <3>1. CASE proc[Script].st = "zombie"
      BY <2>6, <3>1, ReapKeeps, PidFacts, LimiterLim
    <3>2. CASE proc[Script].st = "none"
      <4>1. /\ proc' \in [Pids -> Processes] /\ proc'[Script] = Gone
            /\ \A r \in Pids : r # Script => proc'[r] = proc[r]
        BY <2>6, GoneProcess, PidFacts DEF LimiterInv, LimiterTypeOK
      <4>2. ASSUME NEW r \in Pids
            PROVE  /\ proc'[r].st # "none" => proc[r].st # "none" /\ proc'[r].parent = proc[r].parent
                   /\ proc[r].st \in {"alive", "doomed"} => proc'[r].st \in {"alive", "doomed"}
                   /\ proc[r].parent = Limiter /\ r # Script /\ proc[r].st # "none" =>
                         proc'[r].st # "none"
        BY <3>2, <4>1, GoneProcess
      <4> QED BY <4>1, <4>2, SignalKeeps, GoneProcess, LimiterLim
    <3> QED BY <2>6, <3>1, <3>2
  <2> QED BY <2>1, <2>2, <2>4, <2>5, <2>7, RoundBegins
<1>2. CASE KillFails
  <2>1. lim.pc \in {"wait", "scan"} /\ UNCHANGED <<proc, ws, export>> /\ ProcKept
    BY <1>2, ProcStays, LimiterLim DEF KillFails
  <2>2. CASE lim' = Handled
    BY <2>1, <2>2, HandledKeeps
  <2>3. CASE lim' = [lim EXCEPT !.pc = "ended", !.code = "limit"]
    <3>1. lim' \in Limiters /\ lim'.pc = "ended" /\ lim'.code = "limit" /\ lim'.seen = "unread"
      BY <2>1, <2>3, LimiterLim DEF Limiters, Walks
    <3> QED BY <2>1, <3>1, EndedKeeps
  <2> QED BY <1>2, <2>2, <2>3 DEF KillFails
<1>3. CASE LimiterInterrupted
  <2>1. UNCHANGED <<proc, ws, export>> /\ ProcKept
        /\ lim' = [lim EXCEPT !.pc = "ended", !.code = "raised", !.seen = "unread"]
    BY <1>3, ProcStays, LimiterLim DEF LimiterInterrupted
  <2>2. lim' \in Limiters /\ lim'.pc = "ended" /\ lim'.code = "raised" /\ lim'.seen = "unread"
    BY <2>1, LimiterLim DEF Limiters
  <2> QED BY <2>1, <2>2, EndedKeeps
<1> QED BY <1>1, <1>2, <1>3

LEMMA ReadProcKeeps ==
    ASSUME LimiterInv, ReadProc
    PROVE  LimiterInv'
<1>1. /\ lim.pc = "scan" /\ lim.cursor <= MaxPid /\ UNCHANGED <<proc, ws, export>>
      /\ ProcKept /\ Present' = Present /\ lim.seen = "unread" /\ lim.code = "none"
  BY ProcStays, LimiterLim DEF ReadProc, Walks
<1>2. PICK n : n = lim.cursor + 1
  OBVIOUS
<1>3. PICK found : found = IF proc[lim.cursor].st # "none" THEN lim.found \cup {lim.cursor} ELSE lim.found
  OBVIOUS
<1>4. lim' = [lim EXCEPT !.cursor = n, !.found = found]
  BY <1>2, <1>3 DEF ReadProc
<1>5. lim.cursor \in Pids /\ n \in 2..(MaxPid + 1) /\ lim.cursor \in Nat
  BY <1>1, <1>2, LimiterLim DEF Limiters, Pids, Script
<1>6. found \in SUBSET Pids
  BY <1>3, <1>5, LimiterLim DEF Limiters
<1>7. /\ lim' \in Limiters /\ lim'.pc = "scan" /\ lim'.cursor = n /\ lim'.found = found
      /\ lim'.tries = lim.tries /\ lim'.code = lim.code /\ lim'.seen = lim.seen
  BY <1>1, <1>4, <1>5, <1>6, LimiterLim DEF Limiters
<1>8. LimiterTypeOK'
  BY <1>1, <1>7 DEF LimiterInv, LimiterTypeOK
<1>9. ScanInv'
  <2>1. SUFFICES ASSUME found = {}, Present # {}
                 PROVE  \E w \in Present : proc[w].parent = Limiter /\ w >= n
    BY <1>1, <1>7 DEF ScanInv
  <2>2. proc[lim.cursor].st = "none" /\ lim.found = {}
    BY <1>3, <2>1
  <2>3. PICK w \in Present : proc[w].parent = Limiter /\ w >= lim.cursor
    BY <1>1, <2>1, <2>2 DEF LimiterInv, ScanInv
  <2>4. w # lim.cursor /\ w \in Nat
    BY <2>2, PidFacts DEF Present
  <2> QED BY <1>2, <1>5, <2>3, <2>4
<1>10. StagesInv' /\ SeenInv' /\ LimiterSound'
  BY <1>1, <1>7 DEF LimiterInv, StagesInv, SeenInv, LimiterSound, Alone, ExportSound, Walks
<1> QED BY <1>8, <1>9, <1>10, <1>1 DEF LimiterInv, ProcKept

\* The only way to the export: a round that found nobody, over a forest whose roots stay.
LEMMA JudgeReadbackKeeps ==
    ASSUME LimiterInv, JudgeReadback
    PROVE  LimiterInv'
<1>1. /\ lim.pc = "scan" /\ lim.cursor > MaxPid /\ UNCHANGED <<proc, ws, export>>
      /\ ProcKept /\ Present' = Present /\ lim.seen = "unread" /\ lim.code = "none"
      /\ lim.tries < Sweeps /\ proc[Script].st = "none" /\ lim \in Limiters
  BY ProcStays, LimiterLim DEF JudgeReadback, Walks, LimiterInv, StagesInv
<1>2. PICK tries : tries = lim.tries + 1
  OBVIOUS
<1>3. tries \in 0..Sweeps
  BY <1>1, <1>2 DEF Limiters
<1>4. CASE lim.found # {}
  <2>1. PICK zero : zero = 0
    OBVIOUS
  <2>2. zero \in 0..EmptyReads
    BY <2>1
  <2>3. lim' = [lim EXCEPT !.pc = "sweep", !.empty = zero, !.tries = tries]
    BY <1>2, <1>4, <2>1 DEF JudgeReadback
  <2>4. /\ lim' \in Limiters /\ lim'.pc = "sweep" /\ lim'.code = lim.code /\ lim'.seen = lim.seen
    BY <1>1, <1>3, <2>2, <2>3 DEF Limiters
  <2>5. LimiterTypeOK'
    BY <1>1, <2>4 DEF LimiterInv, LimiterTypeOK
  <2>6. ScanInv' /\ StagesInv' /\ SeenInv' /\ LimiterSound'
    BY <1>1, <2>4 DEF ScanInv, StagesInv, SeenInv, LimiterSound, Alone, ExportSound, Walks
  <2> QED BY <1>1, <2>5, <2>6 DEF LimiterInv, ProcKept
<1>5. CASE lim.found = {} /\ lim.empty + 1 < EmptyReads
  <2>1. CASE lim.tries + 1 < Sweeps
    <3>1. PICK empty : empty = lim.empty + 1
      OBVIOUS
    <3>2. PICK two : two = 2
      OBVIOUS
    <3>3. lim' = [lim EXCEPT !.empty = empty, !.tries = tries, !.cursor = two]
      BY <1>2, <1>5, <2>1, <3>1, <3>2 DEF JudgeReadback
    <3>4. empty \in 0..EmptyReads /\ two \in 2..(MaxPid + 1) /\ tries < Sweeps
      BY <1>1, <1>2, <1>5, <2>1, <3>1, <3>2 DEF Limiters
    <3>5. /\ lim' \in Limiters /\ lim'.pc = "scan" /\ lim'.cursor = two /\ lim'.tries = tries
          /\ lim'.code = lim.code /\ lim'.seen = lim.seen
      BY <1>1, <1>3, <3>3, <3>4 DEF Limiters
    <3> QED BY <1>1, <3>2, <3>4, <3>5, RoundBegins
  <2>2. CASE ~(lim.tries + 1 < Sweeps) /\ ~lim.failed
    BY <1>1, <1>5, <2>2, HandledKeeps DEF JudgeReadback
  <2>3. CASE ~(lim.tries + 1 < Sweeps) /\ lim.failed
    <3>1. lim' = [lim EXCEPT !.pc = "ended", !.code = "limit"]
      BY <1>5, <2>3 DEF JudgeReadback
    <3>2. lim' \in Limiters /\ lim'.pc = "ended" /\ lim'.code = "limit" /\ lim'.seen = "unread"
      BY <1>1, <3>1 DEF Limiters
    <3> QED BY <1>1, <3>2, EndedKeeps
  <2> QED BY <2>1, <2>2, <2>3
<1>6. CASE lim.found = {} /\ ~(lim.empty + 1 < EmptyReads)
  <2>1. Present = {}
    <3>1. \A w \in Present : ~(w >= lim.cursor)
      BY <1>1, PidFacts DEF Present, Limiters
    <3> QED BY <1>1, <1>6, <3>1 DEF LimiterInv, ScanInv
  <2>2. CASE lim.failed
    <3>1. lim' = [lim EXCEPT !.pc = "ended", !.code = "limit"]
      BY <1>6, <2>2 DEF JudgeReadback
    <3>2. lim' \in Limiters /\ lim'.pc = "ended" /\ lim'.code = "limit" /\ lim'.seen = "unread"
      BY <1>1, <3>1 DEF Limiters
    <3> QED BY <1>1, <3>2, EndedKeeps
  <2>3. CASE ~lim.failed
    <3>1. lim' = [lim EXCEPT !.pc = "recount", !.code = lim.code]
      BY <1>6, <2>3 DEF JudgeReadback
    <3>2. lim' \in Limiters /\ lim'.pc = "recount" /\ lim'.code = "none" /\ lim'.seen = "unread"
      BY <1>1, <3>1 DEF Limiters, Walks
    <3>3. LimiterTypeOK'
      BY <1>1, <3>2 DEF LimiterInv, LimiterTypeOK
    <3>4. ScanInv' /\ StagesInv' /\ SeenInv' /\ LimiterSound'
      BY <1>1, <2>1, <3>2 DEF ScanInv, StagesInv, SeenInv, LimiterSound, Alone, ExportSound, Walks
    <3> QED BY <1>1, <3>3, <3>4 DEF LimiterInv, ProcKept
  <2> QED BY <2>2, <2>3
<1> QED BY <1>4, <1>5, <1>6

LEMMA SweepKeeps ==
    ASSUME LimiterInv, Sweep
    PROVE  LimiterInv'
<1>1. /\ lim.pc = "sweep" /\ UNCHANGED <<ws, export>> /\ lim.seen = "unread" /\ lim.code = "none"
      /\ proc[Script].st = "none" /\ lim \in Limiters
  BY LimiterLim DEF Sweep, Walks, LimiterInv, StagesInv
<1>2. PICK Targets : Targets = {p \in Pids : p \in lim.found /\ proc[p].st = "alive"}
  OBVIOUS
<1>3. proc' = [p \in Pids |-> IF p \in Targets THEN [proc[p] EXCEPT !.st = "doomed"] ELSE proc[p]]
  BY <1>2 DEF Sweep
<1>4. \A p \in Pids : p \in Targets => proc[p].st = "alive"
  BY <1>2
<1>5. ProcKept /\ proc'[Script].st = "none"
  BY <1>1, <1>3, <1>4, KillKeeps, LimiterLim
<1>6. CASE lim.tries < Sweeps
  <2>1. PICK two : two = 2
    OBVIOUS
  <2>2. lim' = [lim EXCEPT !.pc = "scan", !.cursor = two, !.found = {}] /\ two \in 2..(MaxPid + 1)
    BY <1>6, <2>1 DEF Sweep
  <2>3. /\ lim' \in Limiters /\ lim'.pc = "scan" /\ lim'.cursor = two /\ lim'.tries = lim.tries
        /\ lim'.code = lim.code /\ lim'.seen = lim.seen
    BY <1>1, <2>2 DEF Limiters
  <2> QED BY <1>1, <1>5, <1>6, <2>1, <2>3, RoundBegins
<1>7. CASE ~(lim.tries < Sweeps) /\ lim.failed
  <2>1. lim' = [lim EXCEPT !.pc = "ended", !.code = "limit"]
    BY <1>7 DEF Sweep
  <2>2. lim' \in Limiters /\ lim'.pc = "ended" /\ lim'.code = "limit" /\ lim'.seen = "unread"
    BY <1>1, <2>1 DEF Limiters
  <2> QED BY <1>1, <1>5, <2>2, EndedKeeps
<1>8. CASE ~(lim.tries < Sweeps) /\ ~lim.failed
  BY <1>1, <1>5, <1>8, HandledKeeps DEF Sweep
<1> QED BY <1>6, <1>7, <1>8

LEMMA ExportKeeps ==
    ASSUME LimiterInv, BeginExport \/ EndExport \/ ExportFails
    PROVE  LimiterInv'
<1>1. /\ lim.pc = "write" /\ UNCHANGED <<proc, ws>> /\ ProcKept /\ Present' = Present
      /\ Present = {} /\ proc[Script].st = "none" /\ lim.code = "none" /\ ws = "within"
      /\ lim.seen \in {"unread", ws} /\ lim \in Limiters
  BY ProcStays, LimiterLim DEF BeginExport, EndExport, ExportFails, LimiterInv, StagesInv, SeenInv
<1>2. CASE BeginExport
  <2>1. lim' = [lim EXCEPT !.seen = ws] /\ export' = "partial"
    BY <1>2 DEF BeginExport
  <2>2. lim' \in Limiters /\ lim'.pc = "write" /\ lim'.code = "none" /\ lim'.seen = ws
    BY <1>1, <2>1 DEF Limiters, Contents
  <2>3. LimiterTypeOK'
    BY <1>1, <2>1, <2>2 DEF LimiterInv, LimiterTypeOK
  <2>4. ScanInv' /\ StagesInv' /\ SeenInv' /\ LimiterSound'
    BY <1>1, <2>2 DEF ScanInv, StagesInv, SeenInv, LimiterSound, Alone, ExportSound, Walks
  <2> QED BY <1>1, <2>3, <2>4 DEF LimiterInv, ProcKept
<1>3. CASE EndExport
  <2>1. lim' = [lim EXCEPT !.pc = "ended", !.code = "0", !.seen = "unread"] /\ export' = "within"
    BY <1>1, <1>3 DEF EndExport
  <2>2. lim' \in Limiters /\ lim'.pc = "ended" /\ lim'.code = "0" /\ lim'.seen = "unread"
    BY <1>1, <2>1 DEF Limiters
  <2>3. LimiterTypeOK'
    BY <1>1, <2>1, <2>2 DEF LimiterInv, LimiterTypeOK, Contents
  <2>4. ScanInv' /\ StagesInv' /\ SeenInv' /\ LimiterSound'
    BY <1>1, <2>1, <2>2 DEF ScanInv, StagesInv, SeenInv, LimiterSound, Alone, ExportSound, Walks
  <2> QED BY <1>1, <2>3, <2>4 DEF LimiterInv, ProcKept
<1>4. CASE ExportFails
  BY <1>1, <1>4, HandledKeeps DEF ExportFails
<1> QED BY <1>2, <1>3, <1>4

LEMMA LimiterStarts == LimiterInit => LimiterInv
<1> SUFFICES ASSUME LimiterInit PROVE LimiterInv
  OBVIOUS
<1>1. proc \in [Pids -> Processes] /\ Present = {}
  BY GoneProcess DEF LimiterInit, Present
<1>2. PICK zero : zero = 0
  OBVIOUS
<1>3. PICK two : two = 2
  OBVIOUS
<1>4. lim = [pc |-> "copy", seen |-> "unread", cursor |-> two, found |-> {}, tries |-> zero,
             empty |-> zero, failed |-> FALSE, code |-> "none"]
  BY <1>2, <1>3 DEF LimiterInit
<1>5. zero \in 0..Sweeps /\ zero \in 0..EmptyReads /\ two \in 2..(MaxPid + 1)
  BY <1>2, <1>3
<1>6. /\ lim \in Limiters /\ lim.pc = "copy" /\ lim.seen = "unread" /\ lim.tries = zero
      /\ lim.code = "none"
  BY <1>4, <1>5 DEF Limiters
<1>7. LimiterTypeOK
  BY <1>1, <1>6 DEF LimiterInit, LimiterTypeOK
<1>8. ParentsInv /\ ForestInv
  BY <1>1 DEF ParentsInv, ForestInv
<1>9. ScanInv /\ StagesInv /\ SeenInv /\ LimiterSound
  BY <1>1, <1>2, <1>6 DEF ScanInv, StagesInv, SeenInv, LimiterSound, Alone, ExportSound, Walks
<1> QED BY <1>7, <1>8, <1>9 DEF LimiterInv

LEMMA LimiterKeeps ==
    ASSUME LimiterInv, [LimiterNext]_limiterVars
    PROVE  LimiterInv'
<1>1. CASE UNCHANGED limiterVars
  <2>1. UNCHANGED <<proc, ws, lim, export>>
    BY <1>1 DEF limiterVars
  <2>2. ProcKept /\ Present' = Present
    BY <2>1, ProcStays, LimiterLim
  <2> QED BY <2>1, <2>2 DEF LimiterInv, LimiterTypeOK, ProcKept, ScanInv, StagesInv, SeenInv,
      LimiterSound, Alone, ExportSound
<1>2. CASE LimiterStep
  BY <1>2, BeforeKillKeeps, InventoryKeeps, WaitKeeps, ReadProcKeeps, JudgeReadbackKeeps, SweepKeeps,
    ExportKeeps DEF LimiterStep
<1> QED BY <1>1, <1>2, WaitKeeps, LimiterProcessesKeep DEF LimiterNext

\* The limiter exports only when it is alone, and then one state of the workspace that is
\* within the limits, for any number of processes, sweeps and readbacks.
THEOREM LimiterSoundCorrect == LimiterSpec => []LimiterSound
<1>1. LimiterInv => LimiterSound
  BY DEF LimiterInv
<1> QED BY <1>1, LimiterStarts, LimiterKeeps, PTL DEF LimiterSpec

-----------------------------------------------------------------------------
\* Side by side, as the runs have them, git and the provider's helper keep what each keeps
\* by itself.
THEOREM ChildrenSoundCorrect == HelpersSpec => []ChildrenSound
<1>1. HelpersInit => GitInit /\ TransportInit
  BY DEF HelpersInit
<1>2. [HelpersNext]_helperVars => [GitNext]_gitVars /\ [TransportNext]_transportVars
  BY DEF HelpersNext, LimiterRuns, TransportRuns, GitRuns, SmokeRuns, helperVars, gitVars, transportVars
<1>3. GitInv /\ TransportInv => ChildrenSound
  <2>1. GitInv => SpawnedAuthorized /\ AcceptedWhole /\ GitGone
    BY DEF GitInv, SpawnedAuthorized, AcceptedWhole, GitGone, Over, GitTypeOK, BlobCalls
  <2>2. TransportInv => ReturnedWhole /\ GoodAnswerKept /\ HelperGone
    BY DEF TransportInv, CallerInv, HelperGone
  <2> QED BY <2>1, <2>2 DEF ChildrenSound
<1>4. GitInv /\ [GitNext]_gitVars => GitInv'
  BY GitKeeps
<1>5. TransportInv /\ [TransportNext]_transportVars => TransportInv'
  BY TransportKeeps
<1>6. HelpersInit => GitInv /\ TransportInv
  BY <1>1, GitStarts, TransportStarts
<1>7. GitInv /\ TransportInv /\ [HelpersNext]_helperVars => (GitInv /\ TransportInv)'
  BY <1>2, <1>4, <1>5
<1> QED BY <1>3, <1>6, <1>7, PTL DEF HelpersSpec
=============================================================================
