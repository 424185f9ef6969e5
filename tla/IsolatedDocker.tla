---------------------------- MODULE IsolatedDocker ----------------------------
(***************************************************************************)
(* isolated_container.IsolatedDockerPython: execute, which runs one script *)
(* of the model in a fresh container and puts the exported workspace in    *)
(* the place of the old one, and probe_policy_readback, which creates,     *)
(* attests and removes a container without starting it.                    *)
(*                                                                         *)
(* The Docker daemon is external.  A command whose client timed out or was *)
(* interrupted may have been carried out, may never be, or may be carried  *)
(* out later (wire).  Time is left out: wherever the code has a timeout or *)
(* a deadline the step may raise.                                          *)
(***************************************************************************)
EXTENDS Integers, ContainerPolicy

CONSTANTS
    Names,        \* container names; every call draws a new one
    ForeignNames, \* names that containers of others have
    StrayArchives \* names for which an export file is already there

ASSUME NamesAssumption == "none" \notin Names
ASSUME ForeignNamesAssumption == ForeignNames \subseteq Names
ASSUME StrayArchivesAssumption == StrayArchives \subseteq Names

VARIABLES
    box,     \* name -> its container at the daemon
    made,    \* name -> what the daemon made of the request, of DOMAIN Made
    ran,     \* names of containers that have been started
    wire,    \* commands given up by their client and not yet carried out
    used,    \* names drawn so far
    pc,      \* where the call is
    call,    \* its local variables
    files    \* workspace and what lies beside it in the run directory

docker == <<box, made, ran, wire>>
vars   == <<docker, used, pc, call, files>>

None == "none"

Setup      == {"stage", "build", "create", "readback", "attest", "revalidate", "start", "attached",
               "export"}
Cleaning   == {"cleanup", "kill", "remove", "absent", "resolve"}
Restoring  == {"extract", "swap", "install", "drop", "discard"}
Ended      == {"returned", "raised", "interrupted"}
Commands   == {"create", "start", "rm"}

Stages == {"export_staging", "container_creation", "container_policy_readback",
           "pre_start_revalidation", "container_start", "export_validation", "container_cleanup",
           "export_staging_cleanup", "workspace_restore"}

\* What an error says of the point the call had come to.
StageOf(at) ==
    CASE at \in {"stage", "build"}     -> "export_staging"
      [] at = "create"                 -> "container_creation"
      [] at \in {"readback", "attest"} -> "container_policy_readback"
      [] at = "revalidate"             -> "pre_start_revalidation"
      [] at \in {"start", "attached"}  -> "container_start"
      [] at = "export"                 -> "export_validation"

Calls == [mode      : {"probe", "run"},
          name      : Names \cup {None},
          candidate : Names \cup {None},  \* the identity docker create printed
          id        : Names \cup {None},  \* container_id: read back as ours
          target    : Names \cup {None},  \* what the cleanup removes
          uncertain : BOOLEAN,            \* creation_uncertain
          owned     : BOOLEAN,            \* staging_owned
          err       : {None, "error", "interrupt"},   \* primary_error
          stage     : {None} \cup Stages,   \* failure_stage, when it was raised
          cleaned   : {None, "verified", "failed"},   \* cleanup_verified
          removed   : {None, "yes", "no"}]  \* export_staging_removed

\* "old" is the workspace as the call found it, "new" the exported one.
Files == [workspace : {None, "old", "new"},
          previous  : {None, "old"},
          staging   : {None, "new"},
          archive   : {None, "empty", "full", "foreign"}]

TypeOK ==
    /\ box \in [Names -> {None, "created", "running", "exited"}]
    /\ made \in [Names -> DOMAIN Made]
    /\ ran \subseteq Names
    /\ wire \subseteq Commands \X Names
    /\ used \subseteq Names
    /\ pc \in {"idle", "unstage", "undo", "dead"} \cup Setup \cup Cleaning
                \cup Restoring \cup Ended
    /\ call \in Calls
    /\ files \in Files

Blank(mode, n) ==
    [mode |-> mode, name |-> n, candidate |-> None, id |-> None, target |-> None,
     uncertain |-> FALSE, owned |-> FALSE, err |-> None, stage |-> None, cleaned |-> None,
     removed |-> None]

Init ==
    /\ box = [n \in Names |-> IF n \in ForeignNames THEN "running" ELSE None]
    /\ made = [n \in Names |-> "asked"]
    /\ ran = {}
    /\ wire = {}
    /\ used = {}
    /\ pc = "idle"
    /\ call = Blank("probe", None)
    /\ files = [workspace |-> "old", previous |-> None, staging |-> None, archive |-> None]

-----------------------------------------------------------------------------
(* The daemon. *)

Perform(command, n) ==
    CASE command = "create" /\ box[n] = None ->
           /\ box' = [box EXCEPT ![n] = "created"]
           /\ \E kind \in DOMAIN Made : made' = [made EXCEPT ![n] = kind]
           /\ UNCHANGED ran
      [] command = "start" /\ box[n] = "created" ->
           box' = [box EXCEPT ![n] = "running"] /\ ran' = ran \cup {n} /\ UNCHANGED made
      [] command = "rm" /\ box[n] # None ->
           box' = [box EXCEPT ![n] = None] /\ UNCHANGED <<made, ran>>
      [] OTHER -> UNCHANGED <<box, made, ran>>

\* The client is gone: the daemon has done it, never will, or still has it.
GivenUp(command, n) ==
    \/ UNCHANGED docker
    \/ Perform(command, n) /\ UNCHANGED wire
    \/ wire' = wire \cup {<<command, n>>} /\ UNCHANGED <<box, made, ran>>

DaemonCatchesUp ==
    \E request \in wire :
        /\ Perform(request[1], request[2])
        /\ wire' = wire \ {request}
        /\ UNCHANGED <<used, pc, call, files>>

\* The script ends; the limiter writes the export before, if it gets that far.
ContainerExits ==
    \E n \in Names \ ForeignNames :
        /\ box[n] = "running"
        /\ box' = [box EXCEPT ![n] = "exited"]
        /\ \E archive \in IF n = call.name /\ files.archive = "empty" THEN {"empty", "full"}
                          ELSE {files.archive} :
             files' = [files EXCEPT !.archive = archive]
        /\ UNCHANGED <<made, ran, wire, used, pc, call>>

-----------------------------------------------------------------------------
(* Creation, readback, start. *)

Begin(mode, n) ==
    /\ pc = "idle"
    /\ n \notin used
    /\ used' = used \cup {n}
    /\ call' = Blank(mode, n)
    /\ files' = [files EXCEPT !.archive = IF n \in StrayArchives THEN "foreign" ELSE None]
    /\ pc' = "stage"
    /\ UNCHANGED docker

\* probe_policy_readback and execute: paths and image checked, a name drawn.
BeginProbe(n) == Begin("probe", n)
BeginRun(n)   == Begin("run", n)

\* The export file is created exclusively. The probe remembers that it is its own.
Stage ==
    /\ pc = "stage"
    /\ files.archive = None
    /\ files' = [files EXCEPT !.archive = "empty"]
    /\ call' = [call EXCEPT !.owned = call.mode = "probe"]
    /\ pc' = "build"
    /\ UNCHANGED <<docker, used>>

Build ==
    /\ pc = "build"
    /\ call' = [call EXCEPT !.uncertain = TRUE]
    /\ pc' = "create"
    /\ UNCHANGED <<docker, used, files>>

\* docker create prints an identity: that of the new container, one would think.
Create ==
    /\ pc = "create"
    /\ box[call.name] = None
    /\ Perform("create", call.name)
    /\ \E candidate \in {call.name} \cup ForeignNames :
         call' = [call EXCEPT !.candidate = candidate]
    /\ pc' = "readback"
    /\ UNCHANGED <<wire, used, files>>

\* _read_container_metadata: docker inspect knows the name or the identity.
Known(reference) == box[reference] # None

\* _is_owned_container: its name and its label are the ones asked for.
IsOwned(n) == n = call.name /\ n \notin ForeignNames /\ Made[made[n]].label = "own"

\* Fault: whatever docker create printed is taken for the new container.
ReadBackTrusting ==
    /\ pc = "readback"
    /\ call' = [call EXCEPT !.id = call.candidate, !.uncertain = FALSE]
    /\ pc' = "attest"
    /\ UNCHANGED <<docker, used, files>>

ReadBack ==
    /\ pc = "readback"
    /\ Known(call.candidate)
    /\ IsOwned(call.candidate)
    /\ call' = [call EXCEPT !.id = call.candidate, !.uncertain = FALSE]
    /\ pc' = "attest"
    /\ UNCHANGED <<docker, used, files>>

\* What comes after the attestation.
Attested == IF call.mode = "probe" THEN "cleanup" ELSE "revalidate"

\* Fault: the configuration is not compared with the policy.
AttestNothing ==
    /\ pc = "attest"
    /\ pc' = Attested
    /\ UNCHANGED <<docker, used, call, files>>

\* The container is inert, and its configuration is the fixed policy.
Attest ==
    /\ pc = "attest"
    /\ box[call.id] = "created"
    /\ PolicyHolds(Made[made[call.id]])
    /\ pc' = Attested
    /\ UNCHANGED <<docker, used, call, files>>

\* "Close the create/readback race": the workspace and the inputs once more.
Revalidate ==
    /\ pc = "revalidate"
    /\ pc' = "start"
    /\ UNCHANGED <<docker, used, call, files>>

\* docker start --attach stays until the container exits.
Start ==
    /\ pc = "start"
    /\ Perform("start", call.id)
    /\ pc' = "attached"
    /\ UNCHANGED <<wire, used, call, files>>

\* The limiter exited with 0.
Exited ==
    /\ pc = "attached"
    /\ box[call.id] = "exited"
    /\ pc' = "export"
    /\ UNCHANGED <<docker, used, call, files>>

\* It left an export of an allowed size.
Finished ==
    /\ pc = "export"
    /\ files.archive = "full"
    /\ pc' = "cleanup"
    /\ UNCHANGED <<docker, used, call, files>>

\* Fault: docker start is called without a timeout.
RaisesUntimed(err) ==
    /\ pc \in Setup \ {"attached"}
    /\ call' = [call EXCEPT !.err = err, !.stage = StageOf(pc)]
    /\ IF pc \in {"create", "start"} THEN GivenUp(pc, call.name) ELSE UNCHANGED docker
    /\ pc' = "cleanup"
    /\ UNCHANGED <<used, files>>

\* Anything raises, a timeout or Ctrl-C included: "except BaseException".
Raises(err) ==
    /\ pc \in Setup
    /\ call' = [call EXCEPT !.err = err, !.stage = StageOf(pc)]
    /\ IF pc \in {"create", "start"} THEN GivenUp(pc, call.name) ELSE UNCHANGED docker
    /\ pc' = "cleanup"
    /\ UNCHANGED <<used, files>>

-----------------------------------------------------------------------------
(* The finally block. *)

Cleanup ==
    /\ pc = "cleanup"
    /\ call' = [call EXCEPT !.target = call.id]
    /\ pc' = IF call.id # None THEN "kill"
             ELSE IF call.uncertain THEN "resolve"
             ELSE "unstage"
    /\ UNCHANGED <<docker, used, files>>

\* _cleanup_uncertain_creation: is there a container of that name, and is it ours?
Resolve ==
    /\ pc = "resolve"
    /\ \/ /\ ~Known(call.name)
          /\ call' = [call EXCEPT !.cleaned = "verified"]
          /\ pc' = "unstage"
       \/ /\ Known(call.name)
          /\ IsOwned(call.name)
          /\ call' = [call EXCEPT !.target = call.name]
          /\ pc' = "kill"
    /\ UNCHANGED <<docker, used, files>>

\* docker kill, docker stop: tried, whatever becomes of them.
Kill ==
    /\ pc = "kill"
    /\ box' \in {box, IF box[call.target] = "running"
                      THEN [box EXCEPT ![call.target] = "exited"] ELSE box}
    /\ pc' = "remove"
    /\ UNCHANGED <<made, ran, wire, used, call, files>>

\* docker rm --force succeeded, or says so while the removal is in progress.
Remove ==
    /\ pc = "remove"
    /\ \/ Perform("rm", call.target) /\ UNCHANGED wire
       \/ wire' = wire \cup {<<"rm", call.target>>} /\ UNCHANGED <<box, made, ran>>
    /\ pc' = "absent"
    /\ UNCHANGED <<used, call, files>>

\* Fault: the exit status of docker rm is taken for the removal.
AbsentUnread ==
    /\ pc = "absent"
    /\ call' = [call EXCEPT !.cleaned = "verified"]
    /\ pc' = "unstage"
    /\ UNCHANGED <<docker, used, files>>

Absent ==
    /\ pc = "absent"
    /\ box[call.target] = None
    /\ call' = [call EXCEPT !.cleaned = "verified"]
    /\ pc' = "unstage"
    /\ UNCHANGED <<docker, used, files>>

\* A command fails or times out, an answer is not the one needed, or Ctrl-C.
CleanupFails ==
    /\ pc \in Cleaning \ {"kill"}
    /\ IF pc = "remove" THEN GivenUp("rm", call.target) ELSE UNCHANGED docker
    /\ call' = [call EXCEPT !.cleaned = "failed"]
    /\ pc' = "unstage"
    /\ UNCHANGED <<used, files>>

\* Fault: the probe removes the export file without having created it.
RemovesProbeStagingAlways == TRUE

\* The probe removes its export file always, execute after a failure.
RemovesProbeStaging == call.owned
RemovesRunStaging   == call.err # None \/ call.cleaned = "failed"

\* What an error says of its stage: where the call was, or which cleanup failed.
StageSaid(removed) ==
    IF call.err # None THEN call.stage
    ELSE IF call.cleaned = "failed" THEN "container_cleanup"
    ELSE IF call.mode = "probe" /\ removed = "no" THEN "export_staging_cleanup"
    ELSE None

\* Fault: the probe does not mind that its export file is still there.
AfterProbeUnheeding(removed) ==
    IF call.err = "interrupt" THEN "interrupted"
    ELSE IF call.err = "error" \/ call.cleaned = "failed" THEN "raised"
    ELSE "returned"

\* How a probe ends.
AfterProbe(removed) ==
    IF call.err = "interrupt" THEN "interrupted"
    ELSE IF call.err = "error" \/ call.cleaned = "failed" \/ removed = "no" THEN "raised"
    ELSE "returned"

\* Fault: a cleanup that failed does not stop the restore.
AfterRunHopeful(removed) ==
    IF call.err = "interrupt" THEN "interrupted"
    ELSE IF call.err = "error" THEN "raised"
    ELSE "extract"

\* How a run goes on.
AfterRun(removed) ==
    IF call.err = "interrupt" THEN "interrupted"
    ELSE IF call.err = "error" \/ call.cleaned = "failed" THEN "raised"
    ELSE "extract"

\* The export file is removed, if that works, and the error told of both removals.
Unstage ==
    /\ pc = "unstage"
    /\ LET removes == IF call.mode = "probe" THEN RemovesProbeStaging ELSE RemovesRunStaging
       IN  \E removed \in (IF removes THEN {"yes", "no"} ELSE {None}) :
             /\ files' = IF removed = "yes" THEN [files EXCEPT !.archive = None] ELSE files
             /\ call' = [call EXCEPT !.removed = removed, !.stage = StageSaid(removed)]
             /\ \/ pc' = IF call.mode = "probe" THEN AfterProbe(removed) ELSE AfterRun(removed)
                \/ removed = "no" /\ pc' = "interrupted"
    /\ UNCHANGED <<docker, used>>

-----------------------------------------------------------------------------
(* _replace_workspace_from_export *)

Extract ==
    /\ pc = "extract"
    /\ files' = [files EXCEPT !.staging = "new"]
    /\ pc' = "swap"
    /\ UNCHANGED <<docker, used, call>>

\* Fault: the old workspace is deleted first.
SetAsideDeleting ==
    /\ pc = "swap"
    /\ files' = [files EXCEPT !.workspace = None]
    /\ pc' = "install"
    /\ UNCHANGED <<docker, used, call>>

SetAside ==
    /\ pc = "swap"
    /\ files' = [files EXCEPT !.workspace = None, !.previous = files.workspace]
    /\ pc' = "install"
    /\ UNCHANGED <<docker, used, call>>

Install ==
    /\ pc = "install"
    /\ files' = [files EXCEPT !.workspace = "new", !.staging = None]
    /\ pc' = "drop"
    /\ UNCHANGED <<docker, used, call>>

DropPrevious ==
    /\ pc = "drop"
    /\ files' = [files EXCEPT !.previous = None]
    /\ pc' = "discard"
    /\ UNCHANGED <<docker, used, call>>

DiscardArchive ==
    /\ pc = "discard"
    /\ files' = [files EXCEPT !.archive = None]
    /\ pc' = "returned"
    /\ UNCHANGED <<docker, used, call>>

\* After an OSError the old workspace is put back, if that works; the extracted
\* tree is removed, if that works.  Ctrl-C between the renames undoes nothing.
AfterFailedRestore(err) ==
    LET back == IF pc = "install"
                THEN [files EXCEPT !.workspace = files.previous, !.previous = None]
                ELSE files
        tidy(f) == {f, [f EXCEPT !.staging = None]}
    IN  CASE err = "error" /\ pc = "install" -> tidy(back) \cup tidy(files)
          [] err = "interrupt" /\ pc \in {"swap", "install"} -> {files}
          [] pc = "extract" -> tidy([files EXCEPT !.staging = "new"])
          [] OTHER -> tidy(files)

RestoreFails(err) ==
    /\ pc \in Restoring
    /\ files' \in AfterFailedRestore(err)
    /\ call' = [call EXCEPT !.err = err, !.stage = "workspace_restore"]
    /\ pc' = "undo"
    /\ UNCHANGED <<docker, used>>

\* Fault: what could not be removed is reported as removed.
UndoHopeful ==
    /\ pc = "undo"
    /\ files' \in {files, [files EXCEPT !.archive = None]}
    /\ call' = [call EXCEPT !.removed = "yes"]
    /\ pc' = IF call.err = "interrupt" THEN "interrupted" ELSE "raised"
    /\ UNCHANGED <<docker, used>>

\* The export file is removed, if that works.
Undo ==
    /\ pc = "undo"
    /\ \E removed \in {"yes", "no"} :
         /\ files' = IF removed = "yes" THEN [files EXCEPT !.archive = None] ELSE files
         /\ call' = [call EXCEPT !.removed = removed]
    /\ pc' = IF call.err = "interrupt" THEN "interrupted" ELSE "raised"
    /\ UNCHANGED <<docker, used>>

\* The caller goes on with the same workspace only after a call that returned.
Again ==
    /\ pc = "returned"
    /\ files' = [files EXCEPT !.workspace = "old"]
    /\ pc' = "idle"
    /\ UNCHANGED <<docker, used, call>>

\* The process is killed.
Die ==
    /\ pc \notin Ended \cup {"idle", "dead"}
    /\ pc' = "dead"
    /\ UNCHANGED <<docker, used, call, files>>

Proceed ==
    \/ Stage
    \/ Build
    \/ Create
    \/ ReadBack
    \/ Attest
    \/ Revalidate
    \/ Start
    \/ Exited
    \/ Finished
    \/ Raises("error")
    \/ Cleanup
    \/ Resolve
    \/ Kill
    \/ Remove
    \/ Absent
    \/ CleanupFails
    \/ Unstage
    \/ Extract
    \/ SetAside
    \/ Install
    \/ DropPrevious
    \/ DiscardArchive
    \/ RestoreFails("error")
    \/ Undo

Next ==
    \/ \E n \in Names : BeginProbe(n) \/ BeginRun(n)
    \/ Proceed
    \/ Raises("interrupt")
    \/ RestoreFails("interrupt")
    \/ Again
    \/ Die
    \/ ContainerExits
    \/ DaemonCatchesUp

Spec == Init /\ [][Next]_vars

\* Every command and every wait of a live call has a timeout.
FairSpec == Spec /\ WF_vars(Proceed)

-----------------------------------------------------------------------------
(* Properties *)

\* Nothing the sandbox does, whatever names and identities it is given, touches
\* a container of somebody else (_is_owned_container and its two uses).
ForeignUntouched ==
    [][\A n \in ForeignNames : box'[n] = box[n]]_box

\* Code of the model runs only where it can do none of what the sandbox is there to prevent,
\* whatever the daemon made of the request; a probe's container never runs, late commands
\* included.
OnlyAttestedRun ==
    \A n \in Names \ ForeignNames :
        box[n] \in {"running", "exited"} =>
            /\ Escapes(Made[made[n]]) = {}
            /\ n = call.name => call.mode = "run"

\* The workspace is touched only after the container that exported it is verifiably
\* gone: nothing can still write what is being restored.
RestoredAfterRemoval ==
    [][files.workspace = "old" /\ files'.workspace # "old" =>
         call.cleaned = "verified" /\ box[call.name] = None]_files

\* At every moment one of the two whole workspaces is in the run directory.
NothingLost ==
    files.workspace = None => files.previous = "old"

\* What a call says of itself is so. A cleanup that calls itself verified left no container
\* that ever ran, and none at all if the call knew its identity; commands still on their way
\* to the daemon do not bring it back. A call that returns left nothing behind: the new workspace
\* in place, no container, no export file, no staging. An error that says the export file was
\* removed left none, one from before the start means that nothing of the model ran or will,
\* and one from the restore that the container is gone. The probe leaves an export file that
\* it did not create.
OutcomeTruthful ==
    /\ call.cleaned = "verified" =>
         /\ box[call.name] \in {"running", "exited"} => call.name \in ForeignNames
         /\ call.target # None => box[call.target] = None
    /\ pc = "returned" =>
         /\ call.cleaned = "verified"
         /\ box[call.name] = None
         /\ files = [workspace |-> IF call.mode = "run" THEN "new" ELSE "old",
                     previous |-> None, staging |-> None, archive |-> None]
    /\ pc = "raised" =>
         /\ call.stage # None
         /\ call.removed = "yes" => files.archive = None
         /\ call.stage \in {"export_staging", "container_creation", "container_policy_readback",
                            "pre_start_revalidation"} =>
               call.name \notin ran /\ <<"start", call.name>> \notin wire
         /\ call.stage = "workspace_restore" => box[call.name] = None
    /\ pc # "idle" /\ call.mode = "probe" /\ call.name \in StrayArchives =>
         files.archive = "foreign"

\* Every call comes to an end, or its process dies.
CallEnds == pc = "stage" ~> pc \in Ended \cup {"dead"}

\* "verified stop/removal on every success, failure, or timeout": a verified
\* cleanup means that there is no container.
AbsenceVerified ==
    call.cleaned = "verified" => box[call.name] = None
=============================================================================
