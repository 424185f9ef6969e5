---------------------------- MODULE EvidenceCapture ----------------------------
(***************************************************************************)
(* How the evidence of an attempt is taken from its workspace: the scrub,  *)
(* the search for the one STEP, its copy, and the archive of the sources,  *)
(* for the baseline and then for the change, or, in L1, for the final      *)
(* state; and the scrub once more at the end, however the attempt ended.   *)
(* No script runs meanwhile, but the workspace is a directory of the host, *)
(* where others may write, replace or remove a file between any two steps. *)
(*                                                                         *)
(* A file has an identity (device, inode, size, mtime: new with every      *)
(* write) and a content.  It is read in two chunks, with a stat before and *)
(* after, so a read is two steps and what was read is a pair.              *)
(*                                                                         *)
(* The layout of the workspace is a parameter.  It is walked directory by  *)
(* directory, and nothing holds the ones already listed still, so two      *)
(* equal inventories do not show that their files were the only ones at    *)
(* any moment: what can be said of an archive is SourceTogether.           *)
(***************************************************************************)
EXTENDS Integers, Sequences, FiniteSets, SequencesExt

CONSTANTS
    Workspace,    \* every file that may ever be in the workspace
    Directories,  \* its directories, in the order of the walk, each with its files
    Python,       \* the files whose name ends in .py
    MaxChanges    \* writes by others in a behaviour

\* The names of a STEP, which a script leaves in the workspace itself, the first directory.
StepNames == {"export.step", "cadquery_native_export.step"}
Baseline  == "evidence/baseline.step"

ASSUME LayoutAssumption ==
    /\ IsFiniteSet(Workspace) /\ Baseline \notin Workspace
    /\ Directories \in Seq(SUBSET Workspace) /\ Directories # <<>>
    /\ UNION Range(Directories) = Workspace /\ StepNames \subseteq Head(Directories)
    /\ Python \subseteq Workspace

ASSUME ChangesAssumption == MaxChanges \in Nat

Absent  == [id |-> 0, content |-> "none"]
Nothing == <<>>

VARIABLES
    change,   \* whether the task has a change phase
    cpc,
    phase,    \* "baseline", "change", or L1's "final"
    files,    \* the workspace, and the baseline STEP in evidence/
    clock,    \* the identities given out so far
    changes,  \* writes by others so far
    dirs,     \* directories the current pass has still to list
    todo,     \* files it has still to look at
    unsafe,   \* files the scrub is going to remove
    reading,  \* the file that is open: what stat and the first chunk gave
    found,    \* the STEP accepted by the search
    first,    \* the first inventory of the workspace: identity and content of each file
    again,    \* the second one
    members,  \* what goes into the archive
    evidence, \* what has been recorded, by name
    guard,    \* retention_guard: what the last scrub says
    seen      \* the states of the workspace since the first inventory began

passVars    == <<dirs, first, again, members>>
scrubVars   == <<todo, unsafe, guard>>
captureVars == <<change, cpc, phase, files, clock, changes, reading, found, evidence, seen, passVars,
                 scrubVars>>

Here(f) == files[f] # Absent
State == [f \in Workspace |-> files[f].content]

CaptureInit ==
    /\ change \in BOOLEAN /\ cpc = "conversation" /\ phase = "baseline"
    /\ files = [f \in Workspace \cup {Baseline} |-> Absent]
    /\ clock = 0 /\ changes = 0 /\ dirs = <<>> /\ todo = <<>> /\ reading = Nothing /\ found = Nothing
    /\ first = Nothing /\ again = Nothing /\ members = Nothing /\ evidence = Nothing /\ seen = {}
    /\ unsafe = {} /\ guard = "pending"

\* What scripts leave in the workspace, the credential in one of the files at worst; the
\* conversation may also end the attempt.
Conversation ==
    /\ cpc = "conversation"
    /\ \E made \in SUBSET Workspace : \E leak \in made \cup {"no file"} :
         files' = [f \in DOMAIN files |->
                     IF f \in made
                     THEN [id |-> clock + 1, content |-> IF f = leak THEN "secret" ELSE phase]
                     ELSE files[f]]
    /\ todo' = SetToSeq({f \in Workspace : files'[f] # Absent}) /\ unsafe' = {}
    /\ clock' = clock + 1
    /\ cpc' \in {"scrub", "cleanup"}
    /\ UNCHANGED <<change, phase, changes, reading, found, evidence, seen, guard, passVars>>

\* Others, between any two steps of the executor.
Disturb ==
    /\ cpc \notin {"conversation", "ended"} /\ changes < MaxChanges
    /\ \E f \in DOMAIN files :
         /\ f = Baseline => Here(f)
         /\ \/ files' = [files EXCEPT ![f] = [id |-> clock + 1, content |-> "other"]]
            \/ Here(f) /\ files' = [files EXCEPT ![f] = Absent]
    /\ clock' = clock + 1 /\ changes' = changes + 1
    /\ seen' = IF seen = {} THEN seen ELSE seen \cup {[f \in Workspace |-> files'[f].content]}
    /\ UNCHANGED <<change, cpc, phase, reading, found, evidence, passVars, scrubVars>>

-----------------------------------------------------------------------------
(* Reading a file. *)

\* Fault: an attempt that failed is not scrubbed again.
FailAtOnce ==
    /\ cpc' = "ended" /\ guard' = "passed" /\ reading' = Nothing
    /\ UNCHANGED <<change, phase, files, clock, changes, found, evidence, seen, todo, unsafe, passVars>>

\* The end of the attempt is the second scrub; if that raises, it leaves what it found.
Fail ==
    /\ reading' = Nothing
    /\ IF cpc = "cleanup"
       THEN cpc' = "ended" /\ guard' = "failed" /\ UNCHANGED <<todo, unsafe>>
       ELSE /\ cpc' = "cleanup" /\ unsafe' = {} /\ guard' = guard
            /\ todo' = SetToSeq({f \in Workspace : Here(f)})
    /\ UNCHANGED <<change, phase, files, clock, changes, found, evidence, seen, passVars>>

\* stat, open and the first chunk.
Open(f) ==
    /\ reading = Nothing
    /\ IF Here(f)
       THEN /\ reading' = [file |-> f, id |-> files[f].id, chunk |-> files[f].content]
            /\ UNCHANGED <<change, cpc, phase, files, clock, changes, found, evidence, seen, passVars,
                           scrubVars>>
       ELSE Fail

\* The second chunk is of what is there now or, if nothing is, of what was opened.
Content == <<reading.chunk, IF Here(reading.file) THEN files[reading.file].content ELSE reading.chunk>>

\* Fault: a file is taken to stay as it is while it is read.
StableAlways == TRUE

\* The identity is still the one from before the first chunk.
Stable == files[reading.file].id = reading.id

-----------------------------------------------------------------------------
(* _scrub_workspace_secrets: a file with a secret, or one that changed while *)
(* it was scanned, is removed, and the attempt fails.                        *)

Scrubbing == cpc \in {"scrub", "cleanup"}

ScrubOpen == Scrubbing /\ todo # <<>> /\ Open(Head(todo))

\* Fault: a file that changed while it was scanned is taken as it was.
CleanUnread == Stable \/ "secret" \notin Range(Content)

Clean == Stable /\ "secret" \notin Range(Content)

ScrubFile ==
    /\ Scrubbing /\ reading # Nothing
    /\ unsafe' = IF Clean THEN unsafe ELSE unsafe \cup {reading.file}
    /\ todo' = Tail(todo) /\ reading' = Nothing
    /\ UNCHANGED <<change, cpc, phase, files, clock, changes, found, evidence, seen, guard, passVars>>

\* Whatever was unsafe is removed, and the scrub has failed.
EndScrub ==
    /\ Scrubbing /\ todo = <<>> /\ unsafe = {}
    /\ IF cpc = "scrub" THEN cpc' = "find" /\ guard' = guard ELSE cpc' = "ended" /\ guard' = "passed"
    /\ UNCHANGED <<change, phase, files, clock, changes, reading, found, evidence, seen, todo, unsafe,
                   passVars>>

RemoveUnsafe ==
    /\ Scrubbing /\ todo = <<>> /\ unsafe # {}
    /\ files' = [f \in DOMAIN files |-> IF f \in unsafe THEN Absent ELSE files[f]]
    /\ unsafe' = {}
    /\ IF cpc = "scrub"
       THEN cpc' = "cleanup" /\ guard' = guard /\ todo' = SetToSeq({f \in Workspace : files'[f] # Absent})
       ELSE cpc' = "ended" /\ guard' = "failed" /\ todo' = todo
    /\ UNCHANGED <<change, phase, clock, changes, reading, found, evidence, seen, passVars>>

-----------------------------------------------------------------------------
(* _find_step_output, _copy_discovered_step and, in L1, _copy_evidence.      *)

Recorded(name, what) ==
    [n \in DOMAIN evidence \cup {name} |-> IF n = name THEN what ELSE evidence[n]]

FindStep ==
    /\ cpc = "find" /\ reading = Nothing
    /\ LET steps == {f \in StepNames : Here(f)}
       IN  IF Cardinality(steps) = 1 THEN Open(CHOOSE f \in steps : TRUE) ELSE Fail

AcceptStep ==
    /\ cpc = "find" /\ reading # Nothing
    /\ IF Stable
       THEN /\ found' = [file |-> reading.file, id |-> reading.id, content |-> Content]
            /\ cpc' = "copy" /\ reading' = Nothing
            /\ UNCHANGED <<change, phase, files, clock, changes, evidence, seen, passVars, scrubVars>>
       ELSE Fail

CopyOpen == cpc = "copy" /\ Open(IF phase = "final" THEN Baseline ELSE found.file)

\* The copy is of the identity and of the bytes that the search accepted; L1's final STEP is
\* copied from the evidence, and has to stay as it is meanwhile.
CopyFits == Stable /\ (phase # "final" => reading.id = found.id /\ Content = found.content)

StartZip == cpc' = "inventory" /\ dirs' = Directories /\ todo' = <<>> /\ first' = Nothing
            /\ again' = Nothing /\ members' = Nothing

CopyStep ==
    /\ cpc = "copy" /\ reading # Nothing
    /\ IF CopyFits
       THEN /\ evidence' = Recorded(<<phase, "step">>, Content)
            /\ IF phase = "baseline"
               THEN /\ files' = [files EXCEPT ![Baseline] =
                                    [id |-> clock + 1, content |-> Content[1]]]
                    /\ clock' = clock + 1
               ELSE UNCHANGED <<files, clock>>
            /\ StartZip /\ reading' = Nothing
            /\ UNCHANGED <<change, phase, changes, found, seen, unsafe, guard>>
       ELSE Fail

-----------------------------------------------------------------------------
(* _deterministic_source_zip: an inventory with contents, the members, and   *)
(* the inventory once more.                                                  *)

With(inventory, f, item) ==
    [g \in DOMAIN inventory \cup {f} |-> IF g = f THEN item ELSE inventory[g]]

\* _inventory_workspace lists a directory and stats its files, then reads them, before it
\* lists the next one.
Listed(inventory) ==
    LET there == {f \in Head(dirs) : Here(f)}
    IN  [f \in DOMAIN inventory \cup there |->
            IF f \in there THEN [id |-> files[f].id, content |-> Nothing] ELSE inventory[f]]

ListDirectory ==
    /\ cpc \in {"inventory", "again"} /\ todo = <<>> /\ dirs # <<>>
    /\ todo' = SetToSeq({f \in Head(dirs) : Here(f)}) /\ dirs' = Tail(dirs)
    /\ IF cpc = "inventory" THEN first' = Listed(first) /\ again' = again
       ELSE again' = Listed(again) /\ first' = first
    /\ seen' = IF cpc = "inventory" /\ dirs = Directories THEN {State} ELSE seen
    /\ UNCHANGED <<change, cpc, phase, files, clock, changes, reading, found, members, evidence,
                   unsafe, guard>>

PassOpen == cpc \in {"inventory", "members", "again"} /\ todo # <<>> /\ Open(Head(todo))

InventoryFits(inventory) == Stable /\ reading.id = inventory[reading.file].id

InventoryFile ==
    /\ cpc \in {"inventory", "again"} /\ reading # Nothing
    /\ LET inventory == IF cpc = "inventory" THEN first ELSE again
           item == [id |-> reading.id, content |-> Content]
       IN  IF InventoryFits(inventory)
           THEN /\ IF cpc = "inventory" THEN first' = With(first, reading.file, item) /\ again' = again
                   ELSE again' = With(again, reading.file, item) /\ first' = first
                /\ todo' = Tail(todo) /\ reading' = Nothing
                /\ UNCHANGED <<change, cpc, phase, files, clock, changes, dirs, found, members,
                               evidence, seen, unsafe, guard>>
           ELSE Fail

EndInventory ==
    /\ cpc = "inventory" /\ todo = <<>> /\ dirs = <<>>
    /\ cpc' = "members" /\ todo' = SetToSeq(DOMAIN first \ StepNames)
    /\ UNCHANGED <<change, phase, files, clock, changes, dirs, reading, found, first, again, members,
                   evidence, seen, unsafe, guard>>

\* A member is the file the inventory found, with the bytes it found, and without a secret.
MemberFits ==
    /\ Stable /\ reading.id = first[reading.file].id
    /\ Content = first[reading.file].content
    /\ "secret" \notin Range(Content)

MemberFile ==
    /\ cpc = "members" /\ reading # Nothing
    /\ IF MemberFits
       THEN /\ members' = With(members, reading.file, Content)
            /\ todo' = Tail(todo) /\ reading' = Nothing
            /\ UNCHANGED <<change, cpc, phase, files, clock, changes, dirs, found, first, again,
                           evidence, seen, unsafe, guard>>
       ELSE Fail

EndMembers ==
    /\ cpc = "members" /\ todo = <<>>
    /\ cpc' = "again" /\ dirs' = Directories
    /\ UNCHANGED <<change, phase, files, clock, changes, todo, reading, found, first, again, members,
                   evidence, seen, unsafe, guard>>

\* Fault: the inventory is not taken again.
SameAgainOnce == TRUE

SameAgain == again = first

\* The archive is written under another name, read back and linked to its own; if any of
\* that fails nothing is left of it.
Publish ==
    /\ cpc = "again" /\ todo = <<>> /\ dirs = <<>>
    /\ \/ /\ SameAgain /\ DOMAIN members \cap Python # {}
          /\ evidence' = Recorded(<<phase, "source">>, members)
          /\ cpc' = CASE phase = "baseline" /\ change -> "reveal"
                      [] phase = "baseline" /\ ~change -> "copy"
                      [] OTHER -> "cleanup"
          /\ todo' = IF cpc' = "cleanup" THEN SetToSeq({f \in Workspace : Here(f)}) ELSE todo
          /\ phase' = IF phase = "baseline" /\ ~change THEN "final" ELSE phase
          /\ seen' = {} /\ first' = Nothing /\ again' = Nothing /\ members' = Nothing
          /\ UNCHANGED <<change, files, clock, changes, dirs, reading, found, unsafe, guard>>
       \/ Fail

\* Fault: the baseline STEP is left in the workspace.
RevealChangeBeside ==
    /\ cpc = "reveal"
    /\ phase' = "change" /\ cpc' = "conversation" /\ found' = Nothing
    /\ UNCHANGED <<change, files, clock, changes, reading, evidence, seen, passVars, scrubVars>>

\* The baseline STEP is removed from the workspace before the change is revealed.
RevealChange ==
    /\ cpc = "reveal"
    /\ IF Here(found.file)
       THEN /\ files' = [files EXCEPT ![found.file] = Absent]
            /\ phase' = "change" /\ cpc' = "conversation" /\ found' = Nothing
            /\ UNCHANGED <<change, clock, changes, reading, evidence, seen, passVars, scrubVars>>
       ELSE Fail

CaptureNext ==
    \/ Conversation \/ Disturb
    \/ ScrubOpen \/ ScrubFile \/ EndScrub \/ RemoveUnsafe
    \/ FindStep \/ AcceptStep \/ CopyOpen \/ CopyStep
    \/ ListDirectory \/ PassOpen \/ InventoryFile \/ EndInventory \/ MemberFile \/ EndMembers
    \/ Publish \/ RevealChange

CaptureSpec == CaptureInit /\ [][CaptureNext]_captureVars

-----------------------------------------------------------------------------
(* Properties. *)

\* A STEP that was recorded is one content, never a part of one and a part of another, and
\* the changed STEP is not the one the baseline left behind, whatever others write or remove
\* while it is searched for and copied.
StepWhole ==
    \A n \in DOMAIN evidence : n[2] = "step" =>
        /\ evidence[n][1] = evidence[n][2]
        /\ n[1] = "change" => evidence[n][1] # "baseline"

\* No recorded STEP or source holds the credential, and when the retention guard says
\* passed, nothing that was left in the workspace does, however the attempt ended and
\* whatever vanished or changed while it was scanned.
PassedIsClean ==
    /\ \A n \in DOMAIN evidence :
           "secret" \notin (IF n[2] = "step" THEN Range(evidence[n])
                           ELSE UNION {Range(evidence[n][f]) : f \in DOMAIN evidence[n]})
    /\ guard = "passed" => \A f \in Workspace : files[f].content # "secret"

\* The recorded STEP is one whole content, and nothing recorded, or left where the guard
\* passed, holds the credential.
EvidenceSound == StepWhole /\ PassedIsClean

\* The members of an archive belong together, although each was read in another step and the
\* directories were listed one after the other: there was a moment since the capture began at
\* which every member was there with exactly these bytes, and no other source was in the
\* workspace's own directory.  Of a file in another directory that is not in the archive
\* nothing is said.
SourceTogether ==
    [][\A n \in DOMAIN evidence' \ DOMAIN evidence : n[2] = "source" =>
          \E s \in seen :
             /\ \A f \in DOMAIN evidence'[n] : evidence'[n][f] = <<s[f], s[f]>>
             /\ \A f \in Head(Directories) \ (StepNames \cup DOMAIN evidence'[n]) : s[f] = "none"
      ]_captureVars
=============================================================================
