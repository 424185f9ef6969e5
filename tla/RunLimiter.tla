------------------------------ MODULE RunLimiter ------------------------------
(***************************************************************************)
(* container/run_limited.py, PID 1 of the container that runs one script   *)
(* of the model: it copies the workspace in, starts the script, takes      *)
(* stock of the workspace while the script runs, kills whatever the script *)
(* left behind, reads /proc until nobody else is there, and exports.       *)
(*                                                                         *)
(* The processes are the kernel's: they fork, leave the process group,     *)
(* exit, reap their children and write to the workspace at any moment.  A  *)
(* process whose parent is gone becomes a child of PID 1, which waits for  *)
(* the script only: the zombie of an orphan stays in /proc for good.       *)
(***************************************************************************)
EXTENDS Integers, FiniteSets

CONSTANTS
    MaxPid,     \* the largest process ID (the pids limit of the container)
    Sweeps,     \* QUIESCENCE_SWEEPS
    EmptyReads  \* QUIESCENCE_EMPTY_READBACKS

ASSUME MaxPidAssumption == MaxPid \in Nat /\ MaxPid >= 2
ASSUME SweepsAssumption == EmptyReads \in Nat \ {0} /\ Sweeps \in Nat /\ Sweeps >= EmptyReads

Limiter == 1
Script  == 2
Pids    == Script..MaxPid

VARIABLES
    proc,   \* the other processes of the container
    ws,     \* what the workspace holds
    lim,    \* the limiter
    export  \* workspace.tar

limiterVars == <<proc, ws, lim, export>>

\* "reserved": within the limits, with an entry called like the status member.
Contents == {"within", "over", "reserved"}

Gone == [st |-> "none", parent |-> Limiter, group |-> FALSE]

Processes == [st     : {"none", "alive", "doomed", "zombie"},  \* doomed: SIGKILL is pending
              parent : {Limiter} \cup Pids,
              group  : BOOLEAN]       \* in the script's process group

\* walk: the inventories taken while the script runs, before and for the export.
Walks == {"watch", "recount", "list"}

Limiters == [pc     : {"copy", "poll", "killpg", "wait", "scan", "sweep", "write", "ended"} \cup Walks,
             seen   : Contents \cup {"unread", "changed"},  \* the inventory being taken
             cursor : 2..(MaxPid + 1),                      \* how far /proc was read
             found  : SUBSET Pids,
             tries  : 0..Sweeps,
             empty  : 0..EmptyReads,
             failed : BOOLEAN,                              \* in an exception handler
             code   : {"none", "0", "limit", "raised"}]

LimiterTypeOK ==
    /\ proc \in [Pids -> Processes]
    /\ ws \in Contents
    /\ lim \in Limiters
    /\ export \in {"empty", "partial", "mixed"} \cup Contents

LimiterInit ==
    /\ proc = [p \in Pids |-> Gone]
    /\ ws \in Contents
    /\ lim = [pc |-> "copy", seen |-> "unread", cursor |-> 2, found |-> {}, tries |-> 0,
              empty |-> 0, failed |-> FALSE, code |-> "none"]
    /\ export = "empty"

Present == {p \in Pids : proc[p].st # "none"}
LimiterEnded   == lim.pc = "ended"

-----------------------------------------------------------------------------
(* The kernel and the script's processes. *)

\* p is dead; its children, dead or alive, are adopted by PID 1.
Zombified(p) ==
    [q \in Pids |-> IF q = p THEN [proc[q] EXCEPT !.st = "zombie"]
                    ELSE IF proc[q].st # "none" /\ proc[q].parent = p
                         THEN [proc[q] EXCEPT !.parent = Limiter]
                    ELSE proc[q]]

Fork(p, q) ==
    /\ proc[p].st = "alive" /\ proc[q].st = "none" /\ q # Script
    /\ proc' = [proc EXCEPT ![q] = [st |-> "alive", parent |-> p, group |-> proc[p].group]]
    /\ UNCHANGED <<ws, lim, export>>

SetSid(p) ==
    /\ proc[p].st = "alive" /\ p # Script /\ proc[p].group
    /\ proc' = [proc EXCEPT ![p].group = FALSE]
    /\ UNCHANGED <<ws, lim, export>>

Exit(p) ==
    /\ proc[p].st \in {"alive", "doomed"}
    /\ proc' = Zombified(p)
    /\ UNCHANGED <<ws, lim, export>>

Reap(p, q) ==
    /\ proc[p].st = "alive" /\ proc[q].st = "zombie" /\ proc[q].parent = p
    /\ proc' = [proc EXCEPT ![q] = Gone]
    /\ UNCHANGED <<ws, lim, export>>

\* A system call in progress is finished even by a process that is to die.  An
\* inventory or an archive being made sees part of the change.
Write(p, content) ==
    /\ proc[p].st \in {"alive", "doomed"}
    /\ ws # content
    /\ ws' = content
    /\ lim' = [lim EXCEPT !.seen = IF @ = "unread" THEN @ ELSE "changed"]
    /\ UNCHANGED <<proc, export>>

KernelStep ==
    /\ ~LimiterEnded
    /\ \E p \in Pids :
         \/ \E q \in Pids : Fork(p, q) \/ Reap(p, q)
         \/ SetSid(p)
         \/ Exit(p)
         \/ \E content \in Contents : Write(p, content)

-----------------------------------------------------------------------------
(* The limiter. *)

\* The first inventory, the copy and the checks of the script's path; then Popen.
Start ==
    /\ lim.pc = "copy"
    /\ ws # "over"
    /\ proc' = [proc EXCEPT ![Script] = [st |-> "alive", parent |-> Limiter, group |-> TRUE]]
    /\ lim' = [lim EXCEPT !.pc = "poll"]
    /\ UNCHANGED <<ws, export>>

\* An unsafe path, workspace or script; nothing was started.
Refuse ==
    /\ lim.pc = "copy"
    /\ lim' = [lim EXCEPT !.pc = "ended", !.code = "limit"]
    /\ UNCHANGED <<proc, ws, export>>

\* process.poll(): the script is reaped, or the workspace is looked at again.
Poll ==
    /\ lim.pc = "poll"
    /\ IF proc[Script].st = "zombie"
       THEN /\ proc' = [proc EXCEPT ![Script] = Gone]
            /\ lim' = [lim EXCEPT !.pc = "killpg"]
       ELSE /\ lim' = [lim EXCEPT !.pc = "watch"]
            /\ UNCHANGED proc
    /\ UNCHANGED <<ws, export>>

BeginInventory ==
    /\ lim.pc \in Walks
    /\ lim.seen = "unread"
    /\ lim' = [lim EXCEPT !.seen = ws]
    /\ UNCHANGED <<proc, ws, export>>

\* Fault: the count stops at the limit instead of raising.
WithinLimitsCapped(seen) == seen \in {"within", "reserved", "changed", "over"}

\* Whether an inventory may come out clean; one during which the workspace
\* changed may or may not.
WithinLimits(seen) == seen \in {"within", "reserved", "changed"}

AfterWalk == [watch |-> "poll", recount |-> "list", list |-> "write"]

EndInventory ==
    /\ lim.pc \in Walks
    /\ WithinLimits(lim.seen)
    /\ lim.pc = "list" => lim.seen # "reserved"
    /\ lim' = [lim EXCEPT !.seen = "unread", !.pc = AfterWalk[lim.pc]]
    /\ UNCHANGED <<proc, ws, export>>

\* LimitViolation or OSError: whatever was begun is killed once more.
Handled == [lim EXCEPT !.pc = "killpg", !.seen = "unread", !.failed = TRUE,
                       !.tries = 0, !.empty = 0, !.found = {}, !.cursor = 2]

InventoryFails ==
    /\ lim.pc \in Walks
    /\ \/ lim.seen \in {"over", "changed"}
       \/ lim.pc = "list" /\ lim.seen = "reserved"
    /\ lim' = Handled
    /\ UNCHANGED <<proc, ws, export>>

\* _kill_processes: the group first, the script itself, then everybody.
KillGroup ==
    /\ lim.pc = "killpg"
    /\ proc' = [p \in Pids |-> IF proc[p].st = "alive" /\ (proc[p].group \/ p = Script)
                               THEN [proc[p] EXCEPT !.st = "doomed"] ELSE proc[p]]
    /\ lim' = [lim EXCEPT !.pc = "wait"]
    /\ UNCHANGED <<ws, export>>

\* Fault: the script is gone, so everybody is.
WaitScriptOnly ==
    /\ lim.pc = "wait"
    /\ proc[Script].st \in {"zombie", "none"}
    /\ proc' = [proc EXCEPT ![Script] = Gone]
    /\ lim' = [lim EXCEPT !.pc = IF lim.failed THEN "ended" ELSE "recount",
                          !.code = IF lim.failed THEN "limit" ELSE @]
    /\ UNCHANGED <<ws, export>>

\* process.wait(timeout=1.0)
WaitScript ==
    /\ lim.pc = "wait"
    /\ proc[Script].st \in {"zombie", "none"}
    /\ proc' = [proc EXCEPT ![Script] = Gone]
    /\ lim' = [lim EXCEPT !.pc = "scan", !.cursor = 2]
    /\ UNCHANGED <<ws, export>>

\* The second is over and the script still there, or /proc could not be read.
KillFails ==
    /\ lim.pc \in {"wait", "scan"}
    /\ lim.pc = "wait" => proc[Script].st = "doomed"
    /\ lim' = IF lim.failed THEN [lim EXCEPT !.pc = "ended", !.code = "limit"] ELSE Handled
    /\ UNCHANGED <<proc, ws, export>>

\* /proc is read in the order of the process IDs, not at one moment.
ReadProc ==
    /\ lim.pc = "scan"
    /\ lim.cursor <= MaxPid
    /\ lim' = [lim EXCEPT !.cursor = @ + 1,
                          !.found = IF proc[lim.cursor].st # "none" THEN @ \cup {lim.cursor} ELSE @]
    /\ UNCHANGED <<proc, ws, export>>

\* One round ends: nobody found often enough in a row, or too many rounds.
JudgeReadback ==
    /\ lim.pc = "scan"
    /\ lim.cursor > MaxPid
    /\ lim' = IF lim.found # {} THEN [lim EXCEPT !.pc = "sweep", !.empty = 0, !.tries = @ + 1]
              ELSE IF lim.empty + 1 < EmptyReads
                   THEN IF lim.tries + 1 < Sweeps
                        THEN [lim EXCEPT !.empty = @ + 1, !.tries = @ + 1, !.cursor = 2]
                        ELSE IF lim.failed THEN [lim EXCEPT !.pc = "ended", !.code = "limit"]
                        ELSE Handled
              ELSE [lim EXCEPT !.pc = IF lim.failed THEN "ended" ELSE "recount",
                               !.code = IF lim.failed THEN "limit" ELSE @]
    /\ UNCHANGED <<proc, ws, export>>

\* SIGKILL for every process found; whoever is gone already is passed over.
Sweep ==
    /\ lim.pc = "sweep"
    /\ proc' = [p \in Pids |-> IF p \in lim.found /\ proc[p].st = "alive"
                               THEN [proc[p] EXCEPT !.st = "doomed"] ELSE proc[p]]
    /\ lim' = IF lim.tries < Sweeps THEN [lim EXCEPT !.pc = "scan", !.cursor = 2, !.found = {}]
              ELSE IF lim.failed THEN [lim EXCEPT !.pc = "ended", !.code = "limit"]
              ELSE Handled
    /\ UNCHANGED <<ws, export>>

\* The archive is opened, and filled from the files listed.
BeginExport ==
    /\ lim.pc = "write"
    /\ lim.seen = "unread"
    /\ lim' = [lim EXCEPT !.seen = ws]
    /\ export' = "partial"
    /\ UNCHANGED <<proc, ws>>

EndExport ==
    /\ lim.pc = "write"
    /\ lim.seen # "unread"
    /\ export' = IF lim.seen = "changed" THEN "mixed" ELSE lim.seen
    /\ lim' = [lim EXCEPT !.pc = "ended", !.code = "0", !.seen = "unread"]
    /\ UNCHANGED <<proc, ws>>

\* The archive cannot be written, or a file listed cannot be read any more.
ExportFails ==
    /\ lim.pc = "write"
    /\ lim' = Handled
    /\ UNCHANGED <<proc, ws, export>>

\* SIGINT: "except BaseException" kills once more and lets it through, unless it
\* strikes while an exception is being handled; PID 1 ends, and all with it.
LimiterInterrupted ==
    /\ lim.pc \notin {"copy", "ended"}
    /\ lim' = [lim EXCEPT !.pc = "ended", !.code = "raised", !.seen = "unread"]
    /\ UNCHANGED <<proc, ws, export>>

LimiterStep ==
    \/ Start \/ Refuse \/ Poll
    \/ BeginInventory \/ EndInventory \/ InventoryFails
    \/ KillGroup \/ WaitScript \/ KillFails \/ ReadProc \/ JudgeReadback \/ Sweep
    \/ BeginExport \/ EndExport \/ ExportFails

\* SIGKILL takes effect.
Die == \E p \in Pids : proc[p].st = "doomed" /\ Exit(p)

LimiterNext == LimiterStep \/ LimiterInterrupted \/ KernelStep

LimiterSpec ==
    /\ LimiterInit /\ [][LimiterNext]_limiterVars
    /\ WF_limiterVars(LimiterStep) /\ WF_limiterVars(~LimiterEnded /\ Die)

-----------------------------------------------------------------------------
\* _kill_processes returns without an exception only when the limiter is alone:
\* no process, not even one that is about to start or to die, is left to touch
\* the workspace between the last inventory and the end of the archive.  The
\* readbacks are not atomic; what makes them conclusive is that an orphan's
\* entry in /proc never goes away.
Alone ==
    lim.pc \in {"recount", "list", "write"} \/ lim.code = "0" => Present = {}

\* Status 0 is given only for an archive that is complete, within the limits and
\* one state of the workspace; otherwise the host gets 125 or another status.
ExportSound == lim.code = "0" => export = "within" /\ ws = "within"

\* Once the script is over, or killed, the limiter ends, whatever the processes
\* it left behind do: it never waits for them for more than Sweeps rounds.
LimiterEnds == (proc[Script].st \in {"zombie", "doomed"}) ~> LimiterEnded
=============================================================================
