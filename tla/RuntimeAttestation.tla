-------------------------- MODULE RuntimeAttestation --------------------------
(***************************************************************************)
(* What the server of a local model is, as attest_runtime and the observer *)
(* of the executor establish it without a call of the model: they look at  *)
(* the Docker executable, the container of the approved name, the image,   *)
(* the snapshot that is mounted and the names that the port serves, one    *)
(* after the other, while others go on.  The executor has this code and    *)
(* does not call it: its logs carry no attestation.                        *)
(***************************************************************************)
EXTENDS Naturals, FiniteSets

CONSTANT MaxDeeds  \* deeds of others during a behaviour

ASSUME DeedsAssumption == MaxDeeds \in Nat

\* The server's command, derived from the launch configuration of the profile.
ServerCommand(launch) == <<"serve", launch>>

\* What the approved profile asks for.
Expected ==
    [profile |-> "profile", image |-> "digest", launch |-> "plain", revision |-> 1,
     port |-> "loopback", name |-> "model", command |-> ServerCommand("plain")]

Server ==
    [running |-> TRUE, profile |-> "profile", image |-> "digest", image_id |-> 1,
     command |-> ServerCommand("plain"), mounts |-> 1, read_only |-> TRUE, revision |-> 1,
     port |-> "loopback", environment |-> "public"]

NoServer == [running |-> FALSE]

\* The container at the approved name: the approved one, one that differs in one place, or none.
Servers ==
    {Server, NoServer, [Server EXCEPT !.running = FALSE], [Server EXCEPT !.profile = "other"],
     [Server EXCEPT !.image = "tag"], [Server EXCEPT !.image_id = 2],
     [Server EXCEPT !.command = ServerCommand("faster")], [Server EXCEPT !.mounts = 2],
     [Server EXCEPT !.read_only = FALSE], [Server EXCEPT !.revision = 2],
     [Server EXCEPT !.port = "everywhere"], [Server EXCEPT !.environment = "credential"],
     [Server EXCEPT !.environment = "repeated"]}

\* The image that the store has under the digest, and whether it says that it is of that digest.
Stores == {[image_id |-> 1, listed |-> TRUE], [image_id |-> 2, listed |-> TRUE],
           [image_id |-> 1, listed |-> FALSE], [image_id |-> 0, listed |-> FALSE]}

VARIABLES
    docker,   \* the file at the authorized path of the Docker executable
    server,
    store,
    snapshot, \* the snapshot directory of the mount is a directory, or a link
    served,   \* the names served at the port
    deeds,
    apc,
    learned,    \* what the observer and the probe have learned
    was       \* what was so while the call ran (history)

attestationVars == <<docker, server, store, snapshot, served, deeds, apc, learned, was>>

Now == [docker |-> docker, server |-> server, store |-> store, snapshot |-> snapshot, served |-> served]

AttestationInit ==
    /\ docker \in {"authorized", "other"} /\ server \in Servers /\ store \in Stores
    /\ snapshot \in {"directory", "link"} /\ served \in SUBSET {"model", "other", "unsafe"}
    /\ Cardinality({x \in {"docker", "server", "store", "snapshot"} :
                      Now[x] # [docker |-> "authorized", server |-> Server,
                                store |-> [image_id |-> 1, listed |-> TRUE],
                                snapshot |-> "directory"][x]}) <= 1
    /\ deeds = 0
    /\ apc = "docker" /\ learned = <<>> /\ was = {Now}

\* The server is stopped, started as it should be or otherwise, an image is pulled or removed, the
\* snapshot or the Docker executable is replaced.
Deed ==
    /\ deeds < MaxDeeds /\ apc \notin {"attested", "refused"}
    /\ deeds' = deeds + 1
    /\ \/ server' \in Servers /\ UNCHANGED <<docker, store, snapshot, served>>
       \/ store' \in Stores /\ UNCHANGED <<docker, server, snapshot, served>>
       \/ docker' \in {"authorized", "other"} /\ UNCHANGED <<server, store, snapshot, served>>
       \/ snapshot' \in {"directory", "link"} /\ UNCHANGED <<docker, server, store, served>>
       \/ served' \in {{}, {"model"}, {"other"}} /\ UNCHANGED <<docker, server, store, snapshot>>
    /\ was' = was \cup {Now'}
    /\ UNCHANGED <<apc, learned>>

-----------------------------------------------------------------------------
(* The observer, _observe_same_host_model_container. *)

\* A step of the call, to the next point or to its refusal.
Advance(at, fits, next) ==
    /\ apc = at
    /\ apc' = IF fits THEN next ELSE "refused"
    /\ UNCHANGED <<docker, server, store, snapshot, served, deeds, was>>

\* _verify_host_docker_executable.
CheckExecutable == Advance("docker", docker = "authorized", "container") /\ learned' = learned

\* A readback may fail or be given up; what a replaced executable prints is anything.
Printed(truth, all) == IF docker = "authorized" THEN {truth} ELSE all

ServerFits(s) ==
    /\ s.running /\ s.profile = Expected.profile /\ s.image = Expected.image
    /\ s.command = Expected.command

InspectContainer ==
    \E s \in Printed(server, Servers), given_up \in BOOLEAN :
        /\ Advance("container", ~given_up /\ s # NoServer /\ ServerFits(s), "image")
        /\ learned' = [server |-> s]

\* Fault: the digest's image is not compared with the container's.
ImageFitsUncompared(s, i) == i.listed

ImageFits(s, i) == i.listed /\ i.image_id = s.image_id

InspectImage ==
    \E i \in Printed(store, Stores), given_up \in BOOLEAN :
        /\ Advance("image", ~given_up /\ ImageFits(learned.server, i), "mount")
        /\ learned' = learned

\* Fault: the mount may be written.
MountFitsWritable(s) == s.mounts = 1

MountFits(s) == s.mounts = 1 /\ s.read_only

SnapshotFits(s) == snapshot = "directory" /\ s.revision = Expected.revision

PortFits(s) == s.port = Expected.port

\* What the observer returns: of what it has compared it gives back what was asked for.
Observation(s) ==
    [profile |-> s.profile, image |-> Expected.image, image_id |-> s.image_id,
     read_only |-> TRUE, port |-> Expected.port, environment |-> s.environment]

CheckMount ==
    LET s == learned.server
    IN  /\ Advance("mount", MountFits(s) /\ SnapshotFits(s) /\ PortFits(s), "compare")
        /\ learned' = [server |-> s, report |-> Observation(s)]

-----------------------------------------------------------------------------
(* attest_runtime. *)

EnvironmentFits(o) == o.environment = "public"

\* The observation is the observer's word, and is compared once more with what was asked for.
ObservationFits(o) ==
    /\ o.profile = Expected.profile /\ o.image = Expected.image /\ o.port = Expected.port
    /\ o.read_only

Compare ==
    /\ Advance("compare", EnvironmentFits(learned.report) /\ ObservationFits(learned.report), "probe")
    /\ learned' = learned

Serves(names) == Expected.name \in names /\ "unsafe" \notin names

\* probe_models_endpoint: one GET of the list of models, which may fail.
Probe ==
    \E fails \in BOOLEAN :
        /\ Advance("probe", ~fails /\ Serves(served), "validate")
        /\ learned' = [server |-> learned.server, report |-> learned.report, names |-> served]

\* validate_runtime_attestation, of the attestation just made.
RetainedFits(f) ==
    ObservationFits(f.report) /\ EnvironmentFits(f.report) /\ Expected.name \in f.names

Validate == Advance("validate", RetainedFits(learned), "attested") /\ learned' = learned

AttestationNext ==
    \/ Deed \/ CheckExecutable \/ InspectContainer \/ InspectImage \/ CheckMount \/ Compare
    \/ Probe \/ Validate

AttestationSpec == AttestationInit /\ [][AttestationNext]_attestationVars

-----------------------------------------------------------------------------
(* Properties. *)

\* A server that is the approved one in every respect that can be seen of it.
Approved(s) ==
    /\ s # NoServer /\ ServerFits(s) /\ s.mounts = 1 /\ s.read_only /\ s.revision = Expected.revision
    /\ s.port = Expected.port /\ s.environment = "public"

\* Unless the Docker executable was replaced meanwhile, an attestation tells of a container that
\* was there, approved in every respect at one time; of an image that had the approved digest at
\* some time and is that container's; and of a port that served the approved name at some time.
\* While nobody does anything the three are true of one server.
AttestationTrue ==
    apc = "attested" /\ (\A w \in was : w.docker = "authorized") =>
        /\ \E w \in was : Approved(w.server) /\ w.server.image_id = learned.report.image_id
        /\ \E w \in was : w.store.listed /\ w.store.image_id = learned.report.image_id
        /\ \E w \in was : w.snapshot = "directory"
        /\ \E w \in was : w.served = learned.names /\ Expected.name \in w.served
=============================================================================
