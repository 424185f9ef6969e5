----------------------------- MODULE GitBlobReader -----------------------------
(***************************************************************************)
(* cohort_executor._read_committed_blob_with_git and the comparison of     *)
(* what it returns: the authorized git executable is locked, hashed and    *)
(* started to print one committed file; a thread collects the output and   *)
(* kills git when it is too long; every wait has a limit.                  *)
(*                                                                         *)
(* Somebody else may replace the executable at any moment at which no      *)
(* handle prevents it, and git may hang, fail, print something else than   *)
(* the expected file, or leave a process behind that keeps the pipe open.  *)
(***************************************************************************)
EXTENDS Integers

CONSTANTS
    MaxBlob,       \* the longest output, in chunks
    BlobLimit,     \* MAX_COMMITTED_BLOB_BYTES, in chunks
    Sharing,       \* the handles keep others from writing (Windows)
    MaxSignals     \* how often Ctrl-C strikes

ASSUME GitAssumption ==
    /\ MaxBlob \in Nat \ {0} /\ BlobLimit \in Nat \ {0}
    /\ Sharing \in BOOLEAN /\ MaxSignals \in Nat

VARIABLES
    exe,    \* the file at the authorized path
    spawn,  \* the lock, the digest and what was started
    git,    \* the git process
    blob,   \* the collecting thread and its buffer
    at      \* the calling thread

gitVars == <<exe, spawn, git, blob, at>>

Ending == {"kill", "reap", "shut", "settle"}
Over   == {"accepted", "raised"}

Spawns == [held : BOOLEAN, measured : {"none", "authorized", "other"},
           ran : {"none", "authorized", "other"}]

Gits == [st : {"none", "running", "exited", "killed"}, out : 0..MaxBlob,
         wrote : 0..MaxBlob, pipe : 0..1, code : {-9, 0, 1},
         right : BOOLEAN,      \* the output is the file the plan froze
         inherited : BOOLEAN]  \* another process holds the pipe

Blobs == [st : {"none", "made", "running", "done", "failed"}, kept : 0..BlobLimit,
          truncated : BOOLEAN]

BlobCalls == [pc : {"open", "hash", "spawn", "close", "thread", "start", "wait", "join", "judge",
                    "compare"} \cup Ending \cup Over,
              signals : 0..MaxSignals,
              cut : BOOLEAN]  \* Ctrl-C struck while git was being terminated

GitTypeOK ==
    /\ exe \in {"authorized", "other"}
    /\ spawn \in Spawns
    /\ git \in Gits
    /\ blob \in Blobs
    /\ at \in BlobCalls

GitInit ==
    /\ exe \in {"authorized", "other"}
    /\ spawn = [held |-> FALSE, measured |-> "none", ran |-> "none"]
    /\ git = [st |-> "none", out |-> 0, wrote |-> 0, pipe |-> 0, code |-> 0, right |-> FALSE,
              inherited |-> FALSE]
    /\ blob = [st |-> "none", kept |-> 0, truncated |-> FALSE]
    /\ at = [pc |-> "open", signals |-> 0, cut |-> FALSE]

GitAlive   == git.st = "running"
PipeClosed == ~GitAlive /\ ~git.inherited
BlobIdle   == blob.st \in {"none", "made", "done", "failed"}

ReaderAt(label) == at' = [at EXCEPT !.pc = label]

-----------------------------------------------------------------------------
(* Others, git, and the collecting thread. *)

\* The executable is replaced or written; a handle that shares neither forbids it.
Replace ==
    /\ ~spawn.held
    /\ exe' \in {"authorized", "other"} \ {exe}
    /\ UNCHANGED <<spawn, git, blob, at>>

GitPrints ==
    /\ GitAlive
    /\ git.wrote < git.out
    /\ git.pipe = 0 /\ blob.st \notin {"done", "failed"}
    /\ git' = [git EXCEPT !.wrote = @ + 1, !.pipe = 1]
    /\ UNCHANGED <<exe, spawn, blob, at>>

GitExits ==
    /\ GitAlive
    /\ \E code \in {0, 1}, inherited \in BOOLEAN :
         /\ code = 0 => git.wrote = git.out
         /\ git' = [git EXCEPT !.st = "exited", !.code = code, !.inherited = inherited]
    /\ UNCHANGED <<exe, spawn, blob, at>>

GitStep == GitPrints \/ GitExits

\* _GitOutputCapture.consume: the chunk beyond the limit costs git its life.
Collect ==
    /\ blob.st = "running"
    /\ \/ /\ git.pipe = 1 /\ blob.kept < BlobLimit
          /\ blob' = [blob EXCEPT !.kept = @ + 1]
          /\ git' = [git EXCEPT !.pipe = 0]
       \/ /\ git.pipe = 1 /\ blob.kept = BlobLimit
          /\ blob' = [blob EXCEPT !.truncated = TRUE, !.st = "done"]
          /\ git' = [git EXCEPT !.pipe = 0, !.st = IF GitAlive THEN "killed" ELSE @,
                                !.code = IF GitAlive THEN -9 ELSE @]
       \/ /\ git.pipe = 0 /\ PipeClosed
          /\ blob' = [blob EXCEPT !.st = "done"]
          /\ UNCHANGED git
    /\ UNCHANGED <<exe, spawn, at>>

\* An exception in the thread closes the stream and shows nowhere else.
CollectFails ==
    /\ blob.st = "running"
    /\ blob' = [blob EXCEPT !.st = "failed"]
    /\ UNCHANGED <<exe, spawn, git, at>>

-----------------------------------------------------------------------------
(* The calling thread: lock, hash, spawn (_locked_git_spawn_identity). *)

\* Every directory of the path and the executable are opened, no link among them.
Lock ==
    /\ at.pc = "open"
    /\ spawn' = [spawn EXCEPT !.held = Sharing]
    /\ ReaderAt("hash")
    /\ UNCHANGED <<exe, git, blob>>

\* Fault: the handles are closed once the file has been hashed.
HashReleasing ==
    /\ at.pc = "hash"
    /\ spawn' = [spawn EXCEPT !.measured = exe, !.held = FALSE]
    /\ ReaderAt(IF exe = "authorized" THEN "spawn" ELSE "raised")
    /\ UNCHANGED <<exe, git, blob>>

\* Another digest ends the call; the handles are closed on the way out.
Hash ==
    /\ at.pc = "hash"
    /\ spawn' = [spawn EXCEPT !.measured = exe, !.held = @ /\ exe = "authorized"]
    /\ ReaderAt(IF exe = "authorized" THEN "spawn" ELSE "raised")
    /\ UNCHANGED <<exe, git, blob>>

SpawnGit ==
    /\ at.pc = "spawn"
    /\ spawn' = [spawn EXCEPT !.ran = exe]
    /\ \E out \in 0..MaxBlob, right \in BOOLEAN :
         git' = [git EXCEPT !.st = "running", !.out = out, !.right = right]
    /\ ReaderAt("close")
    /\ UNCHANGED <<exe, blob>>

\* The with statement ends.
Unlock ==
    /\ at.pc = "close"
    /\ spawn' = [spawn EXCEPT !.held = FALSE]
    /\ ReaderAt("thread")
    /\ UNCHANGED <<exe, git, blob>>

MakeThread ==
    /\ at.pc = "thread"
    /\ blob' = [blob EXCEPT !.st = "made"]
    /\ ReaderAt("start")
    /\ UNCHANGED <<exe, spawn, git>>

StartThread ==
    /\ at.pc = "start"
    /\ blob' = [blob EXCEPT !.st = "running"]
    /\ ReaderAt("wait")
    /\ UNCHANGED <<exe, spawn, git>>

\* OSError or another exception; the with statement closes the handles.
SetupFails ==
    /\ at.pc \in {"open", "hash", "spawn", "close", "thread", "start"}
    /\ spawn' = [spawn EXCEPT !.held = FALSE]
    /\ ReaderAt(IF at.pc \in {"open", "hash"} THEN "raised" ELSE "kill")
    /\ UNCHANGED <<exe, git, blob>>

Wait ==
    /\ at.pc = "wait"
    /\ ReaderAt(IF GitAlive THEN "kill" ELSE "join")
    /\ UNCHANGED <<exe, spawn, git, blob>>

\* stdout_thread.join with a limit, then is_alive.
Join ==
    /\ at.pc = "join"
    /\ ReaderAt(IF BlobIdle THEN "judge" ELSE "kill")
    /\ UNCHANGED <<exe, spawn, git, blob>>

JudgeGit ==
    /\ at.pc = "judge"
    /\ ReaderAt(IF git.code = 0 /\ ~blob.truncated THEN "compare" ELSE "raised")
    /\ UNCHANGED <<exe, spawn, git, blob>>

\* Fault: only the beginning is compared.
MatchesUnread == git.right

\* The digest of the bytes returned is the authorized one.
Matches == git.right /\ blob.kept = git.out

Compare ==
    /\ at.pc = "compare"
    /\ ReaderAt(IF Matches THEN "accepted" ELSE "raised")
    /\ UNCHANGED <<exe, spawn, git, blob>>

-----------------------------------------------------------------------------
(* _terminate_git_process *)

\* Fault: SIGTERM, which git may ignore, instead of SIGKILL.
KillGitPolitely ==
    /\ at.pc = "kill"
    /\ \/ git' = IF GitAlive THEN [git EXCEPT !.st = "killed", !.code = -9] ELSE git
       \/ UNCHANGED git
    /\ ReaderAt("reap")
    /\ UNCHANGED <<exe, spawn, blob>>

KillGit ==
    /\ at.pc = "kill"
    /\ git' = IF GitAlive THEN [git EXCEPT !.st = "killed", !.code = -9] ELSE git
    /\ ReaderAt("reap")
    /\ UNCHANGED <<exe, spawn, blob>>

ReapGit ==
    /\ at.pc = "reap"
    /\ ReaderAt("shut")
    /\ UNCHANGED <<exe, spawn, git, blob>>

\* process.stdout.close() waits for a read that is in progress in the thread: it
\* has no limit, and comes back when the pipe is closed at its other end.
Shut ==
    /\ at.pc = "shut"
    /\ blob.st = "running" => git.pipe = 1 \/ PipeClosed
    /\ ReaderAt("settle")
    /\ UNCHANGED <<exe, spawn, git, blob>>

\* The limited join; joining a thread that was not started raises, too.
Settle ==
    /\ at.pc = "settle"
    /\ ReaderAt("raised")
    /\ UNCHANGED <<exe, spawn, git, blob>>

\* Ctrl-C.  The three try statements of _terminate_git_process swallow it.
Signalled ==
    /\ at.pc \notin Over
    /\ at.signals < MaxSignals
    /\ spawn' = [spawn EXCEPT !.held = FALSE]
    /\ at' = [pc |-> CASE at.pc = "kill" -> "reap"
                       [] at.pc = "reap" -> "shut"
                       [] at.pc = "shut" -> "settle"
                       [] at.pc \in {"spawn", "close", "thread", "start", "wait"} -> "kill"
                       [] OTHER -> "raised",
              signals |-> at.signals + 1,
              cut |-> at.cut \/ at.pc \in Ending]
    /\ UNCHANGED <<exe, git, blob>>

ReaderStep ==
    \/ Lock \/ Hash \/ SpawnGit \/ Unlock \/ MakeThread \/ StartThread \/ SetupFails
    \/ Wait \/ Join \/ JudgeGit \/ Compare
    \/ KillGit \/ ReapGit \/ Shut \/ Settle

GitNext == ReaderStep \/ Signalled \/ Replace \/ GitStep \/ Collect \/ CollectFails

\* Threads run and limited waits end; git may do nothing for ever.
GitSpec ==
    /\ GitInit /\ [][GitNext]_gitVars
    /\ WF_gitVars(ReaderStep) /\ WF_gitVars(Collect)

-----------------------------------------------------------------------------
\* The bytes that run are the bytes that were hashed, and they are the authorized
\* ones, although the executable is opened twice: once to hash and once to start.
SpawnedAuthorized == Sharing => spawn.ran # "other"

\* A file is accepted only if git printed all of it, and it was all collected: no
\* killed git, early exit, overflow or broken collecting thread yields half a file
\* that passes.
AcceptedWhole ==
    at.pc = "accepted" => git.right /\ git.code = 0 /\ blob.kept = git.out

\* No git process stays behind a call that is over, unless Ctrl-C strikes while it
\* is being terminated.
GitGone == at.pc \in Over /\ ~at.cut => ~GitAlive

\* Every call ends, whatever git does, unless a process that git started keeps the
\* pipe open, or Ctrl-C keeps git from being killed: closing the stream then waits
\* for the other end of the pipe, in spite of the limits on every other wait.
GitEnds == <>(at.pc \in Over \/ at.cut \/ git.inherited)
=============================================================================
