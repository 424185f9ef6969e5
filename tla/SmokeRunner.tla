------------------------------ MODULE SmokeRunner ------------------------------
(***************************************************************************)
(* The qualification of a container image: runtime_smoke_runner.run_smoke  *)
(* and main, which run nine cases, and container_policy_probe, which reads *)
(* the policy of one container back without starting it.  Both look at the *)
(* checkout and the Docker executable before and after, and trust what     *)
(* IsolatedDockerPython reports (IsolatedDocker is about what it reports). *)
(*                                                                         *)
(* Meanwhile somebody else works on the host: the executable is replaced,  *)
(* the checkout edited or moved, the image pulled again, a file written at *)
(* the place of the output.  A change that is undone before anybody looks  *)
(* cannot be seen by a tool that looks before and after; changes here stay,*)
(* and there are at most MaxChanges of them.                               *)
(***************************************************************************)
EXTENDS Integers, Sequences

CONSTANTS
    Images,     \* the ids that the image reference may lead to
    MaxChanges  \* bound on what others do

ASSUME SmokeAssumption == Images # {} /\ "none" \notin Images /\ MaxChanges \in Nat

VARIABLES
    spc,
    tool,     \* which of the two programs runs
    host,     \* executable, checkout and image as they are, and how often they changed
    part,     \* "pre" or "post": source verification is done twice
    seen,     \* what the program remembers of what it has looked at
    outcome,  \* what the engine reported of the current case
    records,  \* the verdicts on the cases so far
    pinned,   \* observed_image_id
    truth,    \* the calls of the engine, and whether they were what a pass claims
    output,   \* the file at the place of the output
    verdict,
    exit      \* exit code

smokeVars == <<spc, tool, host, part, seen, outcome, records, pinned, truth, output, verdict, exit>>

Nothing == "none"

\* runtime_smoke_probes.REQUIRED_CASE_IDS, by what is expected of each.
Kinds == <<"positive", "result", "result", "result", "result",
           "failure", "refused", "failure", "failure">>

Cases == IF tool = "smoke" THEN Len(Kinds) ELSE 1

Case == Len(records) + 1

\* docker_commands: the positive case's image inspection counts as well.
ExpectedCommands(k) ==
    CASE Kinds[k] = "refused"  -> 0
      [] Kinds[k] = "positive" -> 9
      [] OTHER                 -> 8

\* expected: return code, payload, failure code and stage are those of the case.
\* rest: cleanup and absence reported as verified and nothing changed; not reported as
\* verified; a container or a staging file left behind; workspace, inputs or probe changed.
Outcomes == [raised : BOOLEAN, expected : BOOLEAN, image : Images \cup {Nothing},
             rest : {"clean", "unverified", "left", "touched"}, commands : {0, 8, 9}]

Report == [file : {"absent", "partial", "whole", "foreign"}, status : {Nothing, "pass", "fail"}]

Hosts == [docker : {"authorized", "other"}, image : Images, changes : 0..MaxChanges,
          checkout : {"committed", "untracked", "edited", "moved"}]

Memories == [manifest : {Nothing, "committed", "edited"}, head : BOOLEAN, clean : BOOLEAN,
             before : BOOLEAN, after : BOOLEAN, docker : BOOLEAN, source : BOOLEAN,
             provenance : Images \cup {Nothing}]

Truths == [calls : 0..Cases, sound : BOOLEAN, image : Images \cup {Nothing}]

SmokeTypeOK ==
    /\ tool \in {"smoke", "policy"}
    /\ host \in Hosts
    /\ part \in {"pre", "post"}
    /\ seen \in Memories
    /\ outcome \in Outcomes
    /\ records \in Seq(BOOLEAN)
    /\ pinned \in Images \cup {Nothing}
    /\ output \in Report
    /\ truth \in Truths
    /\ verdict \in {Nothing, "pass", "fail"}
    /\ exit \in {Nothing, "0", "2"}

NotCalled == [raised |-> TRUE, expected |-> FALSE, image |-> Nothing,
              rest |-> "unverified", commands |-> 0]

SmokeInit ==
    /\ spc = "manifest" /\ part = "pre"
    /\ tool \in {"smoke", "policy"}
    /\ host \in [docker : {"authorized"}, image : Images, changes : {0}, checkout : {"committed"}]
    /\ seen = [manifest |-> Nothing, head |-> FALSE, clean |-> FALSE, before |-> FALSE,
               after |-> FALSE, docker |-> FALSE, source |-> FALSE, provenance |-> Nothing]
    /\ outcome = NotCalled
    /\ records = <<>>
    /\ pinned = Nothing
    /\ truth = [calls |-> 0, sound |-> TRUE, image |-> Nothing]
    /\ output = [file |-> "absent", status |-> Nothing]
    /\ verdict = Nothing
    /\ exit = Nothing

-----------------------------------------------------------------------------
\* Others on the host.
Meddle ==
    /\ exit = Nothing /\ host.changes < MaxChanges
    /\ \/ \E h \in [docker : {host.docker, "other"}, image : Images, changes : {host.changes + 1},
                   checkout : {"untracked", "edited", "moved"} \cup {host.checkout}] :
            /\ host.checkout \in {"edited", "moved"} => h.checkout = host.checkout
            /\ host' = h
          /\ UNCHANGED output
       \/ /\ output.file = "absent"
          /\ output' = [output EXCEPT !.file = "foreign"]
          /\ UNCHANGED host
    /\ UNCHANGED <<spc, tool, part, seen, outcome, records, pinned, truth, verdict, exit>>

\* Everything that raises in run_smoke, and is not said to be caught, ends in main's
\* "rejected".
Rejected ==
    /\ exit' = "2"
    /\ spc' = "end"
    /\ UNCHANGED <<tool, host, part, seen, outcome, records, pinned, truth, output, verdict>>

\* Files that cannot be read, Docker commands that cannot be made, a full disk.
Raises ==
    /\ spc \in {"manifest", "docker", "setup", "leave"}
    /\ tool = "policy" => part = "pre" /\ spc # "setup"
    /\ Rejected

\* A verification of the checkout that raises: before, nothing is run; afterwards the
\* proof is missing.
VerificationFails ==
    IF part = "pre" THEN Rejected
    ELSE /\ seen' = [seen EXCEPT !.source = FALSE]
         /\ spc' = "judge"
         /\ UNCHANGED <<tool, host, part, outcome, records, pinned, truth, output, verdict, exit>>

Files == IF host.checkout \in {"edited", "moved"} THEN "edited" ELSE "committed"

\* _source_manifest; afterwards it is compared with the one from before.
ReadManifest ==
    /\ spc = "manifest"
    /\ IF part = "post" /\ Files # seen.manifest
       THEN VerificationFails
       ELSE /\ seen' = [seen EXCEPT !.manifest = Files]
            /\ spc' = "head"
            /\ UNCHANGED <<tool, host, part, outcome, records, pinned, truth, output, verdict, exit>>

\* HEAD, commit and tree.
CheckHead ==
    /\ spc = "head"
    /\ \/ VerificationFails
       \/ /\ host.checkout # "moved"
          /\ spc' = "status"
          /\ UNCHANGED <<tool, host, part, seen, outcome, records, pinned, truth, output, verdict, exit>>

\* The policy probe also refuses files that git does not know.
Clean == host.checkout = "committed" \/ (tool = "smoke" /\ host.checkout = "untracked")

CheckStatus ==
    /\ spc = "status"
    /\ \/ VerificationFails
       \/ /\ Clean
          /\ spc' = "blobs"
          /\ UNCHANGED <<tool, host, part, seen, outcome, records, pinned, truth, output, verdict, exit>>

\* Every file of the manifest is compared with the committed blob.
CheckBlobs ==
    /\ spc = "blobs"
    /\ \/ VerificationFails
       \/ /\ seen.manifest = "committed"
          /\ seen' = [seen EXCEPT !.source = TRUE]
          /\ spc' = IF part = "pre" THEN "docker" ELSE "judge"
          /\ UNCHANGED <<tool, host, part, outcome, records, pinned, truth, output, verdict, exit>>

\* _verify_docker_executable: raises unless the bytes are the authorized ones.
DockerFits == host.docker = "authorized"

CheckDocker ==
    /\ spc = "docker"
    /\ IF DockerFits
       THEN /\ seen' = [seen EXCEPT !.docker = TRUE]
            /\ spc' = "setup"
            /\ UNCHANGED <<tool, host, part, outcome, records, pinned, truth, output, verdict, exit>>
       ELSE Rejected

-----------------------------------------------------------------------------
\* Directories, probe, inputs and the engine of the next case.  The policy probe catches
\* what goes wrong here: an outcome that has raised.
SetUpCase ==
    /\ spc = "setup"
    /\ spc' = IF tool = "smoke" THEN "before" ELSE "execute"
    /\ seen' = [seen EXCEPT !.before = tool = "policy", !.after = FALSE, !.provenance = Nothing]
    /\ UNCHANGED <<tool, host, part, outcome, records, pinned, truth, output, verdict, exit>>

\* An executable that has changed leaves the case without a call of the engine.
CheckBefore ==
    /\ spc = "before"
    /\ seen' = [seen EXCEPT !.before = DockerFits]
    /\ spc' = IF ~DockerFits THEN "after" ELSE IF Case = 1 THEN "inspect" ELSE "execute"
    /\ UNCHANGED <<tool, host, part, outcome, records, pinned, truth, output, verdict, exit>>

\* inspect_image_provenance: labels and id of the image as it is now.  One that raises
\* keeps the engine from being called.
Inspect ==
    /\ spc = "inspect"
    /\ \/ seen' = [seen EXCEPT !.provenance = host.image] /\ spc' = "execute"
       \/ UNCHANGED seen /\ spc' = "after"
    /\ UNCHANGED <<tool, host, part, outcome, records, pinned, truth, output, verdict, exit>>

\* What the engine may report.  What it says it has cleaned up is cleaned up
\* (IsolatedDocker!OutcomeTruthful); a workspace refused before Docker is asked names no
\* image and has nothing to clean up.
Reported(o) ==
    /\ o.image \in {Nothing, host.image}
    /\ ~o.raised => o.image # Nothing
    /\ o.commands = 0 => o.raised /\ o.image = Nothing /\ o.rest = "unverified"

\* A call that a pass may count: the case's turn, on committed sources and with the
\* authorized executable, on the image of the first case, nothing left or changed, and
\* what the case was to show.
Sound(o) ==
    /\ Case = truth.calls + 1
    /\ host.docker = "authorized" /\ Clean
    /\ o.expected /\ o.rest \in {"clean", "unverified"}
    /\ o.image = Nothing \/ truth.image \in {Nothing, o.image} \/ tool = "policy"

Execute ==
    /\ spc = "execute"
    /\ \E o \in Outcomes :
         /\ Reported(o)
         /\ outcome' = o
         /\ truth' = [calls |-> truth.calls + 1, sound |-> truth.sound /\ Sound(o),
                      image |-> IF Case = 1 THEN o.image ELSE truth.image]
    /\ spc' = "after"
    /\ UNCHANGED <<tool, host, part, seen, records, pinned, output, verdict, exit>>

CheckAfter ==
    /\ spc = "after"
    /\ seen' = [seen EXCEPT !.after = DockerFits]
    /\ spc' = IF tool = "smoke" THEN "check" ELSE "manifest"
    /\ part' = IF tool = "smoke" THEN part ELSE "post"
    /\ UNCHANGED <<tool, host, outcome, records, pinned, truth, output, verdict, exit>>

\* A change of the executable is the case's failure, whatever the engine said: it is
\* neither a result nor the failure that a negative case is to end with.
Drifted == ~seen.after

\* Fault: cases are compared with the image only where it is known from the case itself.
SameImageLoosely(o) == o.image # Nothing

\* The first case says which image it is.
SameImage(o) == o.image # Nothing /\ pinned \in {Nothing, o.image}

CommonResult(o) ==
    /\ ~o.raised /\ ~Drifted
    /\ SameImage(o)
    /\ o.rest = "clean"

CommonFailure(o) ==
    /\ o.raised /\ ~Drifted
    /\ SameImage(o)
    /\ o.rest = "clean"

\* Stopped before Docker is asked.
Refused(o) ==
    /\ o.raised /\ ~Drifted
    /\ o.image = Nothing /\ o.rest = "unverified"

\* _image_provenance_ok, for an image that has the labels of the committed sources.
ProvenanceFits(o) == seen.provenance # Nothing /\ seen.provenance = o.image

\* _case_checks and the provenance check of the first case.
Fits(k, o) ==
    /\ CASE Kinds[k] = "positive" -> CommonResult(o) /\ ProvenanceFits(o)
         [] Kinds[k] = "result"   -> CommonResult(o)
         [] Kinds[k] = "failure"  -> CommonFailure(o)
         [] Kinds[k] = "refused"  -> Refused(o)
    /\ o.expected
    /\ seen.before /\ seen.after
    /\ o.commands = ExpectedCommands(k)

\* The record of the case; the first that fails is the last.
CheckCase ==
    /\ spc = "check"
    /\ LET pass == Fits(Case, outcome)
       IN  /\ records' = Append(records, pass)
           /\ pinned' = IF Case = 1 /\ pass THEN outcome.image ELSE pinned
           /\ spc' = IF pass /\ Case < Cases THEN "setup" ELSE "leave"
    /\ outcome' = NotCalled
    /\ UNCHANGED <<tool, host, part, seen, truth, output, verdict, exit>>

\* The temporary directory is removed, the executable looked at once more (a failure is
\* remembered), and the manifest read again.
Leave ==
    /\ spc = "leave"
    /\ seen' = [seen EXCEPT !.docker = DockerFits]
    /\ part' = "post"
    /\ spc' = "manifest"
    /\ UNCHANGED <<tool, host, outcome, records, pinned, truth, output, verdict, exit>>

\* Fault: the cases alone decide.
JudgeCasesOnly ==
    /\ spc = "judge" /\ tool = "smoke"
    /\ verdict' = IF \A i \in DOMAIN records : records[i] THEN "pass" ELSE "fail"
    /\ spc' = "write"
    /\ UNCHANGED <<tool, host, part, seen, outcome, records, pinned, truth, output, exit>>

\* overall_status
Judge ==
    /\ spc = "judge" /\ tool = "smoke"
    /\ verdict' = IF seen.docker /\ seen.source /\ \A i \in DOMAIN records : records[i]
                  THEN "pass" ELSE "fail"
    /\ spc' = "write"
    /\ UNCHANGED <<tool, host, part, seen, outcome, records, pinned, truth, output, exit>>

\* The policy probe raises at whatever is not as it should be; only a pass is printed.
JudgePolicy ==
    /\ spc = "judge" /\ tool = "policy"
    /\ LET pass == /\ ~outcome.raised /\ ~Drifted /\ seen.source
                   /\ outcome.expected /\ outcome.rest = "clean"
       IN  /\ verdict' = IF pass THEN "pass" ELSE "fail"
           /\ exit' = IF pass THEN "0" ELSE "2"
    /\ spc' = "end"
    /\ UNCHANGED <<tool, host, part, seen, outcome, records, pinned, truth, output>>

-----------------------------------------------------------------------------
\* Fault: the evidence replaces whatever is there.
WriteOver ==
    /\ spc = "write"
    /\ output' = [file |-> "whole", status |-> verdict]
    /\ spc' = "readback"
    /\ UNCHANGED <<tool, host, part, seen, outcome, records, pinned, truth, verdict, exit>>

\* write_evidence opens the file exclusively; a write that fails leaves a part of it.
WriteEvidence ==
    /\ spc = "write"
    /\ IF output.file # "absent" THEN Rejected
       ELSE /\ \/ output' = [file |-> "whole", status |-> verdict] /\ spc' = "readback" /\ UNCHANGED exit
               \/ output' = [output EXCEPT !.file = "partial"] /\ spc' = "end" /\ exit' = "2"
            /\ UNCHANGED <<tool, host, part, seen, outcome, records, pinned, truth, verdict>>

\* What was written is read again; main's exit code is the verdict.
Readback ==
    /\ spc = "readback"
    /\ \/ exit' = IF verdict = "pass" THEN "0" ELSE "2"
       \/ exit' = "2"
    /\ spc' = "end"
    /\ UNCHANGED <<tool, host, part, seen, outcome, records, pinned, truth, output, verdict>>

\* Ctrl-C is not caught; the engine cleans up behind itself.
Interrupted ==
    /\ spc \notin {"end", "interrupted"}
    /\ spc' = "interrupted"
    /\ UNCHANGED <<tool, host, part, seen, outcome, records, pinned, truth, output, verdict, exit>>

SmokeNext ==
    \/ Meddle \/ Raises \/ ReadManifest \/ CheckHead \/ CheckStatus \/ CheckBlobs \/ CheckDocker
    \/ SetUpCase \/ CheckBefore \/ Inspect \/ Execute \/ CheckAfter \/ CheckCase \/ Leave
    \/ Judge \/ JudgePolicy \/ WriteEvidence \/ Readback \/ Interrupted

SmokeSpec == SmokeInit /\ [][SmokeNext]_smokeVars

-----------------------------------------------------------------------------
\* A pass means that it happened: every case once and in order, on the committed
\* sources, with the authorized executable, all on the image whose provenance was
\* checked, each with the outcome it was to have and nothing left behind.  Exit code 0
\* is a pass whose evidence is whole on disk and was not there before.
PassHappened ==
    /\ verdict = "pass" => truth.calls = Cases /\ truth.sound
    /\ exit = "0" => verdict = "pass"
    /\ exit = "0" /\ tool = "smoke" => output = [file |-> "whole", status |-> "pass"]

\* Evidence that exists is never replaced, whoever wrote it.
EvidenceNeverReplaced == [][output.file # "absent" => output' = output]_smokeVars
=============================================================================
