--------------------------- MODULE ContainerPolicy ---------------------------
(***************************************************************************)
(* The fixed policy of isolated_container: what docker create is asked for *)
(* (build_create_command), what is read back of the container and compared *)
(* (_validate_container_metadata), and what a container could do that is   *)
(* not as asked for.  A configuration is a record with a field for what    *)
(* docker inspect says of one aspect.                                      *)
(***************************************************************************)
EXTENDS FiniteSets

Bind(source, target, writable) ==
    [source |-> source, target |-> target, writable |-> writable, propagation |-> "rprivate"]

AskedBinds ==
    {Bind("workspace", "/host-workspace", FALSE), Bind("inputs", "/input-root", FALSE),
     Bind("kit", "/input", FALSE), Bind("export", "/export/workspace.tar", TRUE)}

AskedTmpfs == [tmp |-> "bounded", workspace |-> "bounded", export |-> "bounded"]

AskedLimits ==
    [pids |-> "bounded", memory |-> "bounded", swap |-> "bounded", cpus |-> "bounded",
     nofile |-> "bounded", fsize |-> "bounded"]

\* docker create with all its options.
Asked ==
    [image |-> "inspected", configured |-> "authorized", label |-> "own", user |-> "model",
     workdir |-> "/workspace", command |-> "limiter", process |-> "limiter", volumes |-> {},
     exposed |-> {}, healthcheck |-> "none", network |-> "none", ipc |-> "none",
     cgroups |-> "private", pid |-> "own", uts |-> "own", rootfs |-> "read-only",
     privileged |-> FALSE, auto_remove |-> FALSE, publish_all |-> FALSE, limits |-> AskedLimits,
     dropped |-> {"ALL"}, added |-> {}, security |-> {"no-new-privileges"}, restart |-> "no",
     logs |-> "none", tmpfs |-> AskedTmpfs, resources |-> {}, ports |-> {},
     binds |-> AskedBinds, listed |-> {}]

\* What the daemon may make of it: as asked for, with its tmpfs mounts listed or not, or with
\* one thing as an older daemon, its configuration, or the image would have it.
Made ==
    LET Rebound(source, b) == [Asked EXCEPT !.binds = (@ \ {c \in @ : c.source = source}) \cup {b}]
    IN  [asked |-> Asked,
         tmpfs_listed |-> [Asked EXCEPT !.listed = DOMAIN AskedTmpfs],
         tmpfs_partly_listed |-> [Asked EXCEPT !.listed = {"tmp"}],
         other_image |-> [Asked EXCEPT !.image = "other"],
         other_reference |-> [Asked EXCEPT !.configured = "other"],
         label_lost |-> [Asked EXCEPT !.label = "none"],
         root |-> [Asked EXCEPT !.user = "root"],
         image_command |-> [Asked EXCEPT !.command = "the image's", !.process = "the image's"],
         wrapped_process |-> [Asked EXCEPT !.process = "wrapped"],
         image_volume |-> [Asked EXCEPT !.volumes = {"/data"}],
         image_port |-> [Asked EXCEPT !.exposed = {80}],
         image_healthcheck |-> [Asked EXCEPT !.healthcheck = "the image's"],
         bridged |-> [Asked EXCEPT !.network = "bridge"],
         published |-> [Asked EXCEPT !.ports = {80}],
         host_processes |-> [Asked EXCEPT !.pid = "host"],
         shared_memory |-> [Asked EXCEPT !.ipc = "host"],
         writable_root |-> [Asked EXCEPT !.rootfs = "writable"],
         privileged |-> [Asked EXCEPT !.privileged = TRUE],
         swap_ignored |-> [Asked EXCEPT !.limits.swap = "unbounded"],
         files_ignored |-> [Asked EXCEPT !.limits.fsize = "unbounded"],
         capabilities |-> [Asked EXCEPT !.added = {"SYS_ADMIN"}],
         capabilities_kept |-> [Asked EXCEPT !.dropped = {}],
         privileges_gained |-> [Asked EXCEPT !.security = {}],
         restarts |-> [Asked EXCEPT !.restart = "always"],
         tmpfs_lost |-> [Asked EXCEPT !.tmpfs = [tmp |-> "bounded", workspace |-> "bounded"]],
         tmpfs_unbounded |-> [Asked EXCEPT !.tmpfs.workspace = "unbounded"],
         device |-> [Asked EXCEPT !.resources = {"gpu"}],
         inputs_writable |-> Rebound("inputs", Bind("inputs", "/input-root", TRUE)),
         workspace_shared |->
             Rebound("workspace", [Bind("workspace", "/host-workspace", FALSE) EXCEPT !.propagation = "rshared"]),
         elsewhere |-> Rebound("kit", Bind("home", "/input", FALSE)),
         another_bind |-> [Asked EXCEPT !.binds = @ \cup {Bind("docker.sock", "/docker.sock", TRUE)}]]

-----------------------------------------------------------------------------
(* _validate_container_metadata, in the order of the code. *)

ConfigurationFits(c) ==
    /\ c.image = "inspected" /\ c.configured = "authorized"
    /\ c.user = "model" /\ c.workdir = "/workspace"
    /\ c.command = "limiter"
    /\ c.volumes = {} /\ c.exposed = {}
    /\ c.healthcheck = "none"
    /\ c.label = "own"

NamespacesFit(c) ==
    /\ c.network = "none" /\ c.ipc = "none" /\ c.cgroups = "private"
    /\ c.pid = "own" /\ c.uts = "own"
    /\ c.rootfs = "read-only" /\ ~c.privileged /\ ~c.auto_remove /\ ~c.publish_all
    /\ \A l \in {"pids", "memory", "swap", "cpus"} : c.limits[l] = "bounded"

PrivilegesFit(c) ==
    /\ c.dropped = {"ALL"} /\ c.added = {}
    /\ c.security = {"no-new-privileges"}
    /\ c.restart = "no" /\ c.logs = "none"

TmpfsFits(c) == c.tmpfs = AskedTmpfs

UlimitsFit(c) == \A l \in {"nofile", "fsize"} : c.limits[l] = "bounded"

ResourcesFit(c) == c.resources = {} /\ c.ports = {}

\* Fault: that there are four binds, where they should be, is enough.
BindsFitTargets(c) ==
    /\ Cardinality(c.binds) = 4
    /\ {b.target : b \in c.binds} = {b.target : b \in AskedBinds}

\* Four binds, each of its own source, read-only but for the export file.
BindsFit(c) ==
    /\ Cardinality(c.binds) = 4
    /\ {b.target : b \in c.binds} = {b.target : b \in AskedBinds}
    /\ \A b \in c.binds : \E a \in AskedBinds :
         /\ b.target = a.target /\ b.source = a.source
         /\ b.writable = a.writable /\ b.propagation = "rprivate"

\* A daemon may list the tmpfs mounts of a container that never ran, but then all of them.
ListedFit(c) == c.listed \in {{}, DOMAIN AskedTmpfs}

ProcessFits(c) == c.process = "limiter"

PolicyHolds(c) ==
    /\ ConfigurationFits(c) /\ NamespacesFit(c) /\ PrivilegesFit(c) /\ TmpfsFits(c)
    /\ UlimitsFit(c) /\ ResourcesFit(c) /\ BindsFit(c) /\ ListedFit(c) /\ ProcessFits(c)

-----------------------------------------------------------------------------
\* What code in a container can do that the sandbox is there to prevent.
Escapes(c) ==
    {e \in {"other code", "network", "host files", "host processes", "privileges", "exhaustion",
            "return"} :
        CASE e = "other code" -> \/ c.image # "inspected" \/ c.process # "limiter"
                                 \/ c.healthcheck # "none"
          [] e = "network" -> c.network # "none" \/ c.ports # {} \/ c.publish_all
          [] e = "host files" ->
                 \/ \E b \in c.binds : \/ b.source \notin {"workspace", "inputs", "kit", "export"}
                                       \/ b.writable /\ b.source # "export"
                                       \/ b.propagation # "rprivate"
                 \/ c.volumes # {} \/ c.rootfs # "read-only"
          [] e = "host processes" -> c.pid # "own" \/ c.ipc # "none"
          [] e = "privileges" -> \/ c.privileged \/ c.user = "root" \/ c.added # {}
                                 \/ c.dropped # {"ALL"} \/ "no-new-privileges" \notin c.security
                                 \/ c.resources # {}
          [] e = "exhaustion" -> \/ \E l \in DOMAIN AskedLimits : c.limits[l] # "bounded"
                                 \/ \E t \in DOMAIN c.tmpfs : c.tmpfs[t] # "bounded"
          [] e = "return" -> c.restart # "no"}
=============================================================================
