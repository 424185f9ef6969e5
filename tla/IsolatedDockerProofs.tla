------------------------- MODULE IsolatedDockerProofs -------------------------
(***************************************************************************)
(* The safety of the sandbox for any number of names, calls and late       *)
(* commands.                                                               *)
(*                                                                         *)
(* The inductive invariant has a part about the daemon (what may have been *)
(* sent to it, carried out or still under way), one about the call and one *)
(* about the run directory.  The first two hold each other up: a command   *)
(* is sent only if May allows it, and what the daemon does later with a    *)
(* command that May allows cannot falsify what the call knows.             *)
(***************************************************************************)
EXTENDS IsolatedDocker, TLAPS

\* A creation can be under way only for a container that was never there, and
\* that the call does not know to be its own.
MayCreate(n) ==
    /\ n \notin ran /\ <<"start", n>> \notin wire
    /\ n \in ForeignNames \/ box[n] = None
    /\ call.id # n /\ call.target # n

\* A container was started, or may be, only if it was attested and the call is a run.
MayStart(n) ==
    /\ n \notin ForeignNames
    /\ PolicyHolds(Made[made[n]])
    /\ <<"create", n>> \notin wire
    /\ n = call.name => call.mode = "run" /\ call.id = n

\* Nothing was asked of the daemon for n.
Fresh(n) == n \notin used \/ (n = call.name /\ pc \in {"stage", "build", "create"})

DaemonInv ==
    /\ \A n \in ForeignNames : box[n] = "running" /\ n \notin ran
    /\ \A n \in Names \ ForeignNames : box[n] \in {"running", "exited"} => n \in ran
    /\ \A n \in Names :
         /\ <<"create", n>> \in wire => MayCreate(n)
         /\ <<"start", n>> \in wire \/ n \in ran => MayStart(n)
         /\ <<"rm", n>> \in wire => n \notin ForeignNames
         /\ Fresh(n) =>
              /\ n \notin ran /\ \A command \in Commands : <<command, n>> \notin wire
              /\ n \in ForeignNames \/ box[n] = None

\* The points, and the stages an error names, before docker start.
BeforeStart == {"stage", "build", "create", "readback", "attest", "revalidate"}
EarlyStages == {"export_staging", "container_creation", "container_policy_readback",
                "pre_start_revalidation"}

NotStarted(n) == n \notin ran /\ <<"start", n>> \notin wire

\* What the call knows of its container.
IdentityInv ==
    /\ pc # "idle" => call.name \in Names /\ call.name \in used
    /\ call.id # None =>
         /\ call.id = call.name /\ call.name \notin ForeignNames
         /\ <<"create", call.name>> \notin wire
    /\ call.target # None =>
         /\ call.target = call.name /\ call.name \notin ForeignNames
         /\ <<"create", call.name>> \notin wire
    /\ pc \in BeforeStart => NotStarted(call.name)
    /\ pc \in {"stage", "build", "create", "readback"} => call.id = None
    /\ pc \in {"attest", "revalidate", "start", "attached", "export"} => call.id # None
    /\ pc \in {"revalidate", "start"} =>
         call.mode = "run" /\ PolicyHolds(Made[made[call.name]])

\* What the call remembers of how it went.
ProgressInv ==
    /\ pc \in Setup =>
         /\ call.err = None /\ call.stage = None /\ call.cleaned = None /\ call.target = None
         /\ call.mode = "probe" /\ pc # "stage" => call.owned
    /\ call.err # None => call.stage # None
    /\ pc \in Cleaning => call.cleaned = None
    /\ pc = "resolve" => call.id = None
    /\ pc \in {"kill", "remove", "absent"} => call.target # None
    /\ pc = "unstage" => call.cleaned # None \/ call.err # None
    /\ call.cleaned = "verified" =>
         /\ call.name \in Names
         /\ call.target # None => box[call.target] = None
         /\ call.id # None => call.target # None
    /\ pc \in Cleaning \cup {"unstage"} \cup Restoring \cup {"returned"} /\ call.err = None =>
         call.id # None /\ (call.mode = "probe" => call.owned)
    /\ pc \in Restoring \cup {"returned"} => call.err = None /\ call.cleaned = "verified"
    /\ pc \in Restoring \cup {"undo"} => call.mode = "run"
    /\ pc = "undo" => call.stage = "workspace_restore" /\ call.err # None
    /\ call.stage \in EarlyStages => NotStarted(call.name)
    /\ call.stage = "workspace_restore" => call.cleaned = "verified" /\ call.target # None
    /\ pc = "raised" => call.stage # None

Untouched == files.workspace = "old" /\ files.previous = None /\ files.staging = None

\* What lies in the run directory at each point.
FilesInv ==
    /\ pc \in {"idle", "unstage", "extract"} \cup Setup \cup Cleaning => Untouched
    /\ pc = "swap" => files.workspace = "old" /\ files.previous = None /\ files.staging = "new"
    /\ pc = "install" =>
         files.workspace = None /\ files.previous = "old" /\ files.staging = "new"
    /\ pc = "drop" => files.workspace = "new" /\ files.previous = "old" /\ files.staging = None
    /\ pc = "discard" => files.workspace = "new" /\ files.previous = None /\ files.staging = None
    /\ pc = "returned" =>
         /\ files.workspace = IF call.mode = "run" THEN "new" ELSE "old"
         /\ files.previous = None /\ files.staging = None /\ files.archive = None
    /\ pc = "raised" /\ call.removed = "yes" => files.archive = None
    /\ pc # "idle" /\ call.mode = "probe" /\ call.name \in StrayArchives =>
         files.archive = "foreign" /\ ~call.owned
    /\ NothingLost

Inv == DaemonInv /\ IdentityInv /\ ProgressInv /\ FilesInv

-----------------------------------------------------------------------------
(* Type correctness. *)

USE NamesAssumption, ForeignNamesAssumption

LEMMA CallTypes ==
    ASSUME NEW c \in Calls
    PROVE  /\ \A b \in BOOLEAN : [c EXCEPT !.owned = b] \in Calls
           /\ \A b \in BOOLEAN : [c EXCEPT !.uncertain = b] \in Calls
           /\ \A n \in Names \cup {None} : [c EXCEPT !.candidate = n] \in Calls
           /\ \A n \in Names \cup {None}, b \in BOOLEAN :
                [c EXCEPT !.id = n, !.uncertain = b] \in Calls
           /\ \A n \in Names \cup {None} : [c EXCEPT !.target = n] \in Calls
           /\ \A e \in {None, "error", "interrupt"}, s \in {None} \cup Stages :
                [c EXCEPT !.err = e, !.stage = s] \in Calls
           /\ \A v \in {None, "verified", "failed"} : [c EXCEPT !.cleaned = v] \in Calls
           /\ \A y \in {None, "yes", "no"} : [c EXCEPT !.removed = y] \in Calls
           /\ \A y \in {None, "yes", "no"}, s \in {None} \cup Stages :
                [c EXCEPT !.removed = y, !.stage = s] \in Calls
BY ZenonT(60) DEF Calls

LEMMA FilesTypes ==
    ASSUME NEW f \in Files
    PROVE  /\ \A a \in {None, "empty", "full", "foreign"} : [f EXCEPT !.archive = a] \in Files
           /\ \A s \in {None, "new"} : [f EXCEPT !.staging = s] \in Files
           /\ \A w \in {None, "old", "new"} : [f EXCEPT !.workspace = w] \in Files
           /\ \A p \in {None, "old"} : [f EXCEPT !.previous = p] \in Files
           /\ \A w \in {None, "old", "new"}, p \in {None, "old"} :
                [f EXCEPT !.workspace = w, !.previous = p] \in Files
           /\ \A w \in {None, "old", "new"}, s \in {None, "new"} :
                [f EXCEPT !.workspace = w, !.staging = s] \in Files
BY DEF Files

\* What a command does at the daemon.
LEMMA PerformEffect ==
    ASSUME TypeOK, NEW c \in Commands, NEW n \in Names, Perform(c, n)
    PROVE  /\ box' \in [Names -> {None, "created", "running", "exited"}]
           /\ made' \in [Names -> DOMAIN Made]
           /\ ran' \subseteq Names
           /\ \A m \in Names \ {n} :
                box'[m] = box[m] /\ made'[m] = made[m] /\ (m \in ran' <=> m \in ran)
           /\ c = "create" =>
                /\ ran' = ran
                /\ \/ box[n] = None /\ box'[n] = "created"
                   \/ box[n] # None /\ box' = box /\ made' = made
           /\ c = "start" =>
                /\ made' = made
                /\ \/ box[n] = "created" /\ box'[n] = "running" /\ ran' = ran \cup {n}
                   \/ box' = box /\ ran' = ran
           /\ c = "rm" => made' = made /\ ran' = ran /\ box'[n] = None
<1> USE DEF TypeOK, Perform, None, Commands
<1> HIDE DEF Made
<1>1. CASE c = "create"
  <2>1. CASE box[n] = None
    <3>1. PICK kind \in DOMAIN Made : made' = [made EXCEPT ![n] = kind]
      BY <1>1, <2>1
    <3> QED BY <1>1, <2>1, <3>1
  <2>2. CASE box[n] # None
    BY <1>1, <2>2
  <2> QED BY <2>1, <2>2
<1>2. CASE c = "start"
  BY <1>2
<1>3. CASE c = "rm"
  BY <1>3
<1> QED BY <1>1, <1>2, <1>3

LEMMA TypeInit == Init => TypeOK
<1>1. "asked" \in DOMAIN Made
  BY DEF Made
<1> QED BY <1>1 DEF Init, TypeOK, Blank, Calls, Files, None, Commands

LEMMA TypeStep == TypeOK /\ Inv /\ [Next]_vars => TypeOK'
<1> SUFFICES ASSUME TypeOK, IdentityInv, ProgressInv, FilesInv, Next
             PROVE  TypeOK'
  BY DEF Inv, vars, docker, TypeOK
<1> DEFINE Docker == /\ box \in [Names -> {None, "created", "running", "exited"}]
                     /\ made \in [Names -> DOMAIN Made]
                     /\ ran \subseteq Names
                     /\ wire \subseteq Commands \X Names
           Pcs == {"idle", "unstage", "undo", "dead"} \cup Setup \cup Cleaning
                    \cup Restoring \cup Ended
           Place == used \subseteq Names /\ pc \in Pcs
<1>1. Docker /\ Place /\ call \in Calls /\ files \in Files
  BY DEF TypeOK
<1>2. ASSUME Docker', Place', call' \in Calls, files' \in Files
      PROVE  TypeOK'
  BY <1>2 DEF TypeOK
<1>3. ASSUME UNCHANGED docker
      PROVE  Docker'
  BY <1>1, <1>3 DEF docker
<1>4. ASSUME NEW c \in Commands, NEW n \in Names, GivenUp(c, n)
      PROVE  Docker'
  <2>1. CASE Perform(c, n) /\ UNCHANGED wire
    BY <1>1, <2>1, PerformEffect
  <2>2. CASE wire' = wire \cup {<<c, n>>} /\ UNCHANGED <<box, made, ran>>
    BY <1>1, <2>2
  <2> QED BY <1>3, <1>4, <2>1, <2>2 DEF GivenUp
<1> HIDE DEF Docker
<1> USE DEF None
<1>5. ASSUME NEW mode \in {"probe", "run"}, NEW n \in Names, Begin(mode, n)
      PROVE  TypeOK'
  <2>1. call' \in Calls
    BY <1>5 DEF Begin, Blank, Calls
  <2>2. files' \in Files
    BY <1>1, <1>5, FilesTypes DEF Begin
  <2> QED BY <1>1, <1>2, <1>3, <1>5, <2>1, <2>2 DEF Begin, Setup
<1>6. CASE Stage
  <2>1. call' \in Calls /\ files' \in Files
    BY <1>1, <1>6, CallTypes, FilesTypes DEF Stage
  <2> QED BY <1>1, <1>2, <1>3, <1>6, <2>1 DEF Stage, Setup
<1>7. CASE Build \/ ReadBack \/ Attest \/ Revalidate \/ Exited \/ Finished
  <2>1. call' \in Calls
    <3>1. call.candidate \in Names \cup {None}
      BY <1>1 DEF Calls
    <3>2. [call EXCEPT !.uncertain = TRUE] \in Calls
      BY <1>1, CallTypes
    <3>3. [call EXCEPT !.id = call.candidate, !.uncertain = FALSE] \in Calls
      BY <1>1, <3>1, CallTypes
    <3> QED BY <1>1, <1>7, <3>2, <3>3
            DEF Build, ReadBack, Attest, Revalidate, Exited, Finished
  <2> QED BY <1>1, <1>2, <1>3, <1>7, <2>1 DEF Build, ReadBack, Attest, Attested, Revalidate,
          Exited, Finished, Setup, Cleaning
<1>8. CASE Create
  <2>1. call.name \in Names
    BY <1>8 DEF Create, IdentityInv
  <2>2. Docker'
    BY <1>1, <1>8, <2>1, PerformEffect DEF Create, Docker, Commands
  <2>3. call' \in Calls
    <3>1. PICK n \in Names : call' = [call EXCEPT !.candidate = n]
      BY <1>8, <2>1 DEF Create
    <3> QED BY <1>1, <3>1, CallTypes
  <2> QED BY <1>1, <1>2, <1>8, <2>2, <2>3 DEF Create, Setup
<1>9. CASE Start
  <2>1. call.id \in Names
    BY <1>9 DEF Start, IdentityInv
  <2>2. Docker'
    BY <1>1, <1>9, <2>1, PerformEffect DEF Start, Docker, Commands
  <2> QED BY <1>1, <1>2, <1>9, <2>2 DEF Start, Setup
<1>10. ASSUME NEW err \in {"error", "interrupt"}, Raises(err)
       PROVE  TypeOK'
  <2>1. call.name \in Names /\ StageOf(pc) \in Stages
    BY <1>10 DEF Raises, IdentityInv, StageOf, Stages, Setup
  <2>2. call' \in Calls
    BY <1>1, <1>10, <2>1, CallTypes DEF Raises
  <2>3. Docker'
    BY <1>3, <1>4, <1>10, <2>1 DEF Raises, Commands
  <2> QED BY <1>1, <1>2, <1>10, <2>2, <2>3 DEF Raises, Cleaning
<1>11. CASE Cleanup \/ Resolve \/ Absent
  <2>1. call.name \in Names \cup {None} /\ call.id \in Names \cup {None}
    BY <1>1 DEF Calls
  <2>2. call' \in Calls
    BY <1>1, <1>11, <2>1, CallTypes DEF Cleanup, Resolve, Absent
  <2> QED BY <1>1, <1>2, <1>3, <1>11, <2>2 DEF Cleanup, Resolve, Absent, Cleaning
<1>12. CASE Kill
  <2>1. Docker'
    BY <1>1, <1>12 DEF Kill, Docker
  <2> QED BY <1>1, <1>2, <1>12, <2>1 DEF Kill, Cleaning
<1>13. CASE Remove \/ CleanupFails
  <2>1. pc = "remove" => call.target \in Names
    BY DEF ProgressInv, IdentityInv
  <2>2. Docker'
    <3>1. CASE pc = "remove" /\ GivenUp("rm", call.target)
      BY <1>4, <2>1, <3>1 DEF Commands
    <3>2. CASE UNCHANGED docker
      BY <1>3, <3>2
    <3> QED BY <1>13, <3>1, <3>2 DEF Remove, CleanupFails, GivenUp
  <2>3. call' \in Calls
    BY <1>1, <1>13, CallTypes DEF Remove, CleanupFails
  <2> QED BY <1>1, <1>2, <1>13, <2>2, <2>3 DEF Remove, CleanupFails, Cleaning
<1>14. CASE Unstage
  <2>1. PICK removed \in {None, "yes", "no"} :
          /\ files' = IF removed = "yes" THEN [files EXCEPT !.archive = None] ELSE files
          /\ call' = [call EXCEPT !.removed = removed, !.stage = StageSaid(removed)]
          /\ pc' \in {AfterProbe(removed), AfterRun(removed), "interrupted"}
    BY <1>14 DEF Unstage
  <2>2. StageSaid(removed) \in {None} \cup Stages
    BY <1>1 DEF StageSaid, Stages, Calls
  <2>3. call' \in Calls /\ files' \in Files
    BY <1>1, <2>1, <2>2, CallTypes, FilesTypes
  <2>4. pc' \in Pcs
    BY <2>1 DEF AfterProbe, AfterRun, Ended, Restoring
  <2> QED BY <1>1, <1>2, <1>3, <1>14, <2>3, <2>4 DEF Unstage
<1>15. CASE Extract \/ SetAside \/ Install \/ DropPrevious \/ DiscardArchive \/ Again
  <2>1. files' \in Files
    <3>1. SetAside => files.workspace \in {None, "old"}
      BY DEF SetAside, FilesInv
    <3> QED BY <1>1, <1>15, <3>1, FilesTypes
            DEF Extract, SetAside, Install, DropPrevious, DiscardArchive, Again
  <2> QED BY <1>1, <1>2, <1>3, <1>15, <2>1 DEF Extract, SetAside, Install, DropPrevious,
          DiscardArchive, Again, Restoring, Ended
<1>16. ASSUME NEW err \in {"error", "interrupt"}, RestoreFails(err)
       PROVE  TypeOK'
  <2>1. files.previous \in {None, "old"} /\ files.workspace \in {None, "old", "new"}
    BY <1>1 DEF Files
  <2>2. files' \in Files
    BY <1>1, <1>16, <2>1, FilesTypes DEF RestoreFails, AfterFailedRestore
  <2>3. call' \in Calls
    BY <1>1, <1>16, CallTypes DEF RestoreFails, Stages
  <2> QED BY <1>1, <1>2, <1>3, <1>16, <2>2, <2>3 DEF RestoreFails
<1>17. CASE Undo
  <2>1. call' \in Calls /\ files' \in Files
    BY <1>1, <1>17, CallTypes, FilesTypes DEF Undo
  <2> QED BY <1>1, <1>2, <1>3, <1>17, <2>1 DEF Undo, Ended
<1>18. CASE Die
  BY <1>1, <1>2, <1>3, <1>18 DEF Die
<1>19. CASE ContainerExits
  <2>1. files.archive \in {None, "empty", "full", "foreign"}
    BY <1>1 DEF Files
  <2>2. files' \in Files
    BY ZenonT(60), <1>1, <1>19, <2>1, FilesTypes DEF ContainerExits
  <2>3. Docker'
    BY <1>1, <1>19 DEF ContainerExits, Docker
  <2> QED BY <1>1, <1>2, <1>19, <2>2, <2>3 DEF ContainerExits
<1>20. CASE DaemonCatchesUp
  <2>1. PICK c \in Commands, n \in Names : Perform(c, n) /\ wire' \subseteq wire
    <3>1. PICK request \in wire : Perform(request[1], request[2]) /\ wire' = wire \ {request}
      BY <1>20 DEF DaemonCatchesUp
    <3> QED BY <1>1, <3>1 DEF Docker
  <2>2. Docker'
    BY <1>1, <2>1, PerformEffect DEF Docker
  <2> QED BY <1>1, <1>2, <1>20, <2>2 DEF DaemonCatchesUp
<1> QED BY <1>5, <1>6, <1>7, <1>8, <1>9, <1>10, <1>11, <1>12, <1>13, <1>14, <1>15, <1>16,
        <1>17, <1>18, <1>19, <1>20 DEF Next, Proceed, BeginProbe, BeginRun

-----------------------------------------------------------------------------
(* What a step of the call changes in the fields that the invariants about the *)
(* daemon speak of.                                                            *)

Asking == {"stage", "build", "create"}

LEMMA QuietStep ==
    ASSUME TypeOK,
           \/ Stage \/ Build \/ Attest \/ Revalidate \/ Exited \/ Finished \/ Absent \/ Unstage
           \/ Extract \/ SetAside \/ Install \/ DropPrevious \/ DiscardArchive \/ Undo \/ Again
           \/ Die \/ \E err \in {"error", "interrupt"} : RestoreFails(err)
    PROVE  /\ UNCHANGED <<box, made, ran, wire, used>>
           /\ UNCHANGED <<call.name, call.mode, call.id, call.target>>
           /\ pc' \in Asking => pc \in Asking
           /\ pc' \in BeforeStart => pc \in BeforeStart
           /\ pc' # "idle" => pc # "idle"
<1> USE DEF TypeOK, Calls, docker, Asking, BeforeStart
<1>1. CASE Stage \/ Build \/ Attest \/ Revalidate \/ Exited \/ Finished \/ Absent
  BY <1>1 DEF Stage, Build, Attest, Attested, Revalidate, Exited, Finished, Absent
<1>2. CASE Unstage
  BY ZenonT(60), <1>2 DEF Unstage, AfterProbe, AfterRun
<1>3. CASE Extract \/ SetAside \/ Install \/ DropPrevious \/ DiscardArchive \/ Again \/ Die
  BY <1>3 DEF Extract, SetAside, Install, DropPrevious, DiscardArchive, Again, Die
<1>4. CASE Undo \/ \E err \in {"error", "interrupt"} : RestoreFails(err)
  BY ZenonT(60), <1>4 DEF Undo, RestoreFails, Restoring
<1> QED BY <1>1, <1>2, <1>3, <1>4

\* The daemon's part of the invariant.
LEMMA DaemonStep ==
    ASSUME TypeOK, TypeOK', DaemonInv, IdentityInv, ProgressInv, Next
    PROVE  DaemonInv'
<1> USE DEF MayCreate, MayStart, Fresh, None
<1>1. /\ call \in Calls /\ call' \in Calls
      /\ wire \subseteq Commands \X Names
      /\ box \in [Names -> {None, "created", "running", "exited"}]
      /\ made \in [Names -> DOMAIN Made]
      /\ ran \subseteq Names
  BY DEF TypeOK
<1>2. ASSUME UNCHANGED <<box, made, ran, wire, used>>,
             UNCHANGED <<call.name, call.mode, call.id, call.target>>,
             pc' \in Asking => pc \in Asking
      PROVE  DaemonInv'
  BY <1>2 DEF DaemonInv, Asking
\* An identity that the call learns is that of a container that is there.
<1>3. ASSUME UNCHANGED <<box, made, ran, wire, used>>, UNCHANGED <<call.name, call.mode>>,
             NEW n \in Names \ ForeignNames, n = call.name, box[n] # None,
             call'.id \in {call.id, n}, call'.target \in {call.target, n},
             call'.id = call.id \/ call.id = None,
             pc' \notin Asking
      PROVE  DaemonInv'
  BY <1>3 DEF DaemonInv, Asking
<1>4. ASSUME NEW mode \in {"probe", "run"}, NEW n \in Names, Begin(mode, n)
      PROVE  DaemonInv'
  <2>1. /\ UNCHANGED <<box, made, ran, wire>>
        /\ n \notin used /\ used' = used \cup {n}
        /\ call'.name = n /\ call'.id = None /\ call'.target = None
    BY <1>4 DEF Begin, Blank, docker
  <2> QED BY <2>1 DEF DaemonInv, Commands
<1>5. CASE ReadBack
  <2>1. /\ UNCHANGED <<box, made, ran, wire, used>>
        /\ UNCHANGED <<call.name, call.mode, call.target>>
        /\ call'.id = call.name /\ call.id = None
        /\ call.name \in Names \ ForeignNames /\ box[call.name] # None
        /\ pc' = "attest"
    BY <1>1, <1>5 DEF ReadBack, IsOwned, Known, docker, IdentityInv, Calls
  <2> QED BY <1>3, <2>1 DEF Asking
<1>6. CASE Cleanup
  <2>1. /\ UNCHANGED <<box, made, ran, wire, used>>
        /\ UNCHANGED <<call.name, call.mode, call.id>>
        /\ call'.target = call.id
        /\ pc' \notin Asking
    BY <1>1, <1>6 DEF Cleanup, docker, Calls, Asking
  <2> QED BY <2>1 DEF DaemonInv, Asking
<1>7. CASE Resolve
  <2>1. /\ UNCHANGED <<box, made, ran, wire, used>>
        /\ UNCHANGED <<call.name, call.mode, call.id>>
        /\ pc' \in {"kill", "unstage"}
        /\ \/ call'.target = call.target
           \/ call'.target = call.name /\ call.name \in Names \ ForeignNames
              /\ box[call.name] # None
    BY <1>1, <1>7 DEF Resolve, IsOwned, Known, docker, IdentityInv, Calls
  <2> QED BY <1>2, <1>3, <2>1 DEF Asking
<1>8. CASE Create
  <2> DEFINE n == call.name
  <2>1. /\ n \in Names /\ n \in used
        /\ pc = "create" /\ box[n] = None /\ pc' = "readback"
        /\ UNCHANGED <<wire, used>>
        /\ UNCHANGED <<call.name, call.mode, call.id, call.target>>
    BY <1>1, <1>8 DEF Create, IdentityInv, Calls
  <2>2. /\ \A m \in Names \ {n} : box'[m] = box[m] /\ made'[m] = made[m]
        /\ ran' = ran /\ box'[n] = "created"
    BY <1>8, <2>1, PerformEffect DEF Create, Commands
  <2> QED BY <2>1, <2>2 DEF DaemonInv, Commands
\* A start is sent, or carried out.
<1>9. ASSUME pc = "start", pc' \notin Asking, UNCHANGED used,
             UNCHANGED <<call.name, call.mode, call.id, call.target>>,
             \/ UNCHANGED <<box, made, ran, wire>>
             \/ Perform("start", call.name) /\ UNCHANGED wire
             \/ wire' = wire \cup {<<"start", call.name>>} /\ UNCHANGED <<box, made, ran>>
      PROVE  DaemonInv'
  <2> DEFINE n == call.name
  <2>1. /\ n \in Names \ ForeignNames /\ call.id = n /\ n # None
        /\ MayStart(n) /\ n \in used
    BY <1>9 DEF IdentityInv
  <2>2. CASE UNCHANGED <<box, made, ran, wire>>
    BY <1>2, <1>9, <2>2
  <2>3. CASE Perform("start", n) /\ UNCHANGED wire
    <3>1. /\ \A m \in Names \ {n} : box'[m] = box[m] /\ (m \in ran' <=> m \in ran)
          /\ made' = made
          /\ \/ box[n] = "created" /\ box'[n] = "running" /\ ran' = ran \cup {n}
             \/ box' = box /\ ran' = ran
      BY <2>1, <2>3, PerformEffect DEF Commands
    <3> QED BY <1>9, <2>1, <2>3, <3>1 DEF DaemonInv, Asking
  <2>4. CASE wire' = wire \cup {<<"start", n>>} /\ UNCHANGED <<box, made, ran>>
    BY <1>9, <2>1, <2>4 DEF DaemonInv, Asking
  <2> QED BY <1>9, <2>2, <2>3, <2>4
<1>10. CASE Start
  BY <1>9, <1>10 DEF Start, Asking, IdentityInv
\* A removal is sent, or carried out.
<1>11. ASSUME pc = "remove", pc' \notin Asking, UNCHANGED used,
              UNCHANGED <<call.name, call.mode, call.id, call.target>>,
              \/ UNCHANGED <<box, made, ran, wire>>
              \/ Perform("rm", call.target) /\ UNCHANGED wire
              \/ wire' = wire \cup {<<"rm", call.target>>} /\ UNCHANGED <<box, made, ran>>
       PROVE  DaemonInv'
  <2> DEFINE n == call.target
  <2>1. n \in Names \ ForeignNames
    BY <1>11 DEF ProgressInv, IdentityInv
  <2>2. ~Fresh(n)'
    BY <1>11 DEF ProgressInv, IdentityInv, Asking
  <2>3. CASE UNCHANGED <<box, made, ran, wire>>
    BY <1>2, <1>11, <2>3
  <2>4. CASE Perform("rm", n) /\ UNCHANGED wire
    <3>1. /\ \A m \in Names \ {n} : box'[m] = box[m]
          /\ made' = made /\ ran' = ran /\ box'[n] = None
      BY <2>1, <2>4, PerformEffect DEF Commands
    <3> QED BY <1>11, <2>1, <2>4, <3>1 DEF DaemonInv, Asking
  <2>5. CASE wire' = wire \cup {<<"rm", n>>} /\ UNCHANGED <<box, made, ran>>
    BY <1>11, <2>1, <2>2, <2>5 DEF DaemonInv, Asking
  <2> QED BY <1>11, <2>3, <2>4, <2>5
<1>12. CASE Remove
  BY <1>11, <1>12 DEF Remove, Asking
<1>13. CASE CleanupFails
  <2>1. /\ UNCHANGED <<used, call.name, call.mode, call.id, call.target>>
        /\ pc' = "unstage"
    BY <1>1, <1>13 DEF CleanupFails, Calls
  <2>2. CASE pc = "remove"
    BY <1>11, <1>13, <2>1, <2>2 DEF CleanupFails, GivenUp, docker, Asking
  <2>3. CASE pc # "remove"
    BY <1>2, <1>13, <2>1, <2>3 DEF CleanupFails, docker, Asking
  <2> QED BY <2>2, <2>3
<1>14. ASSUME NEW err \in {"error", "interrupt"}, Raises(err)
       PROVE  DaemonInv'
  <2>1. /\ UNCHANGED <<used, call.name, call.mode, call.id, call.target>>
        /\ pc' = "cleanup"
    BY <1>1, <1>14 DEF Raises, Calls
  <2>2. CASE pc = "start"
    BY <1>9, <1>14, <2>1, <2>2 DEF Raises, GivenUp, docker, Asking
  <2>3. CASE pc = "create"
    <3> DEFINE n == call.name
    <3>1. /\ n \in Names /\ n \in used /\ call.id = None /\ call.target = None
          /\ Fresh(n)
      BY <2>3 DEF IdentityInv, ProgressInv, Setup
    <3>2. CASE UNCHANGED docker
      BY <1>2, <2>1, <3>2 DEF docker, Asking
    <3>3. CASE Perform("create", n) /\ UNCHANGED wire
      <4>1. /\ \A m \in Names \ {n} : box'[m] = box[m] /\ made'[m] = made[m]
            /\ ran' = ran
            /\ \/ box[n] = None /\ box'[n] = "created"
               \/ box[n] # None /\ box' = box /\ made' = made
        BY <3>1, <3>3, PerformEffect DEF Commands
      <4> QED BY <2>1, <3>1, <3>3, <4>1 DEF DaemonInv, Commands
    <3>4. CASE wire' = wire \cup {<<"create", n>>} /\ UNCHANGED <<box, made, ran>>
      BY <2>1, <3>1, <3>4 DEF DaemonInv, Commands
    <3> QED BY <1>14, <2>3, <3>2, <3>3, <3>4 DEF Raises, GivenUp
  <2>4. CASE pc \notin {"start", "create"}
    BY <1>2, <1>14, <2>1, <2>4 DEF Raises, docker, Asking
  <2> QED BY <2>2, <2>3, <2>4
<1>15. CASE Kill
  <2>1. /\ UNCHANGED <<made, ran, wire, used, call>> /\ pc' = "remove"
        /\ call.target \in Names \ ForeignNames
        /\ \/ box' = box
           \/ box[call.target] = "running" /\ box' = [box EXCEPT ![call.target] = "exited"]
    BY <1>15 DEF Kill, ProgressInv, IdentityInv
  <2> QED BY <1>1, <2>1 DEF DaemonInv
<1>16. CASE ContainerExits
  <2>1. PICK n \in Names \ ForeignNames :
          /\ box[n] = "running" /\ box' = [box EXCEPT ![n] = "exited"]
          /\ UNCHANGED <<made, ran, wire, used, pc, call>>
    BY <1>16 DEF ContainerExits
  <2> QED BY <1>1, <2>1 DEF DaemonInv
<1>17. CASE DaemonCatchesUp
  <2>1. PICK request \in wire :
          /\ Perform(request[1], request[2]) /\ wire' = wire \ {request}
          /\ UNCHANGED <<used, pc, call>>
    BY <1>17 DEF DaemonCatchesUp
  <2>2. PICK c \in Commands, n \in Names : request = <<c, n>> /\ Perform(c, n)
    BY <1>1, <2>1
  <2>3. \A m \in Names \ {n} :
          box'[m] = box[m] /\ made'[m] = made[m] /\ (m \in ran' <=> m \in ran)
    BY <2>2, PerformEffect
  <2>4. ran' \subseteq Names
    BY DEF TypeOK
  <2>5. CASE c = "create"
    <3>1. /\ ran' = ran
          /\ \/ box[n] = None /\ box'[n] = "created"
             \/ box[n] # None /\ box' = box /\ made' = made
      BY <2>2, <2>5, PerformEffect
    <3> QED BY <2>1, <2>2, <2>3, <2>5, <3>1 DEF DaemonInv, Commands
  <2>6. CASE c = "start"
    <3>1. /\ made' = made
          /\ \/ box[n] = "created" /\ box'[n] = "running" /\ ran' = ran \cup {n}
             \/ box' = box /\ ran' = ran
      BY <2>2, <2>6, PerformEffect
    <3> QED BY <2>1, <2>2, <2>3, <2>6, <3>1 DEF DaemonInv, Commands
  <2>7. CASE c = "rm"
    <3>1. made' = made /\ ran' = ran /\ box'[n] = None
      BY <2>2, <2>7, PerformEffect
    <3> QED BY <2>1, <2>2, <2>3, <2>7, <3>1 DEF DaemonInv, Commands
  <2> QED BY <2>5, <2>6, <2>7 DEF Commands
<1>18. CASE \/ Stage \/ Build \/ Attest \/ Revalidate \/ Exited \/ Finished \/ Absent \/ Unstage
            \/ Extract \/ SetAside \/ Install \/ DropPrevious \/ DiscardArchive \/ Undo \/ Again
            \/ Die \/ \E err \in {"error", "interrupt"} : RestoreFails(err)
  BY <1>2, <1>18, QuietStep
<1> QED BY <1>4, <1>5, <1>6, <1>7, <1>8, <1>10, <1>12, <1>13, <1>14, <1>15, <1>16, <1>17, <1>18
        DEF Next, Proceed, BeginProbe, BeginRun

-----------------------------------------------------------------------------
(* What the call knows of its container. *)

\* What the daemon does by itself takes nothing away from a container that no
\* creation is under way for, and starts nothing that it was not told to start.
LEMMA DaemonMove ==
    ASSUME TypeOK, ContainerExits \/ DaemonCatchesUp
    PROVE  /\ UNCHANGED <<used, pc, call>>
           /\ wire' \subseteq wire
           /\ \A n \in Names : NotStarted(n) => NotStarted(n)'
           /\ \A n \in Names : <<"create", n>> \notin wire =>
                made'[n] = made[n] /\ (box[n] = None => box'[n] = None)
<1> USE DEF NotStarted
<1>1. CASE ContainerExits
  BY <1>1 DEF ContainerExits, TypeOK, None
<1>2. CASE DaemonCatchesUp
  <2>1. PICK request \in wire :
          /\ Perform(request[1], request[2]) /\ wire' = wire \ {request}
          /\ UNCHANGED <<used, pc, call>>
    BY <1>2 DEF DaemonCatchesUp
  <2>2. PICK c \in Commands, n \in Names : request = <<c, n>> /\ Perform(c, n)
    BY <2>1 DEF TypeOK
  <2>3. \A m \in Names \ {n} :
          box'[m] = box[m] /\ made'[m] = made[m] /\ (m \in ran' <=> m \in ran)
    BY <2>2, PerformEffect
  <2>4. c # "start" => ran' = ran
    BY <2>2, PerformEffect DEF Commands
  <2>5. c # "create" => made' = made /\ (box[n] = None => box'[n] = None)
    BY <2>2, PerformEffect DEF Commands, None
  <2> QED BY <2>1, <2>2, <2>3, <2>4, <2>5
<1> QED BY <1>1, <1>2

\* The identity part of the invariant.
LEMMA IdentityStep ==
    ASSUME TypeOK, TypeOK', DaemonInv, IdentityInv, ProgressInv, Next
    PROVE  IdentityInv'
<1> USE DEF None, NotStarted
<1>1. /\ call \in Calls /\ call' \in Calls
      /\ wire \subseteq Commands \X Names
      /\ call.id # None => call.id \in Names
  BY DEF TypeOK, Calls
<1>2. ASSUME NEW mode \in {"probe", "run"}, NEW n \in Names, Begin(mode, n)
      PROVE  IdentityInv'
  <2>1. /\ UNCHANGED <<box, made, ran, wire>>
        /\ n \notin used /\ used' = used \cup {n} /\ pc' = "stage"
        /\ call'.name = n /\ call'.id = None /\ call'.target = None
    BY <1>2 DEF Begin, Blank, docker
  <2>2. NotStarted(n)
    BY <2>1 DEF DaemonInv, Fresh, Commands
  <2> QED BY <2>1, <2>2 DEF IdentityInv
<1>3. CASE \/ Stage \/ Build \/ Attest \/ Revalidate \/ Exited \/ Finished \/ Absent \/ Unstage
           \/ Extract \/ SetAside \/ Install \/ DropPrevious \/ DiscardArchive \/ Undo \/ Again
           \/ Die \/ \E err \in {"error", "interrupt"} : RestoreFails(err)
  <2>1. /\ UNCHANGED <<box, made, ran, wire, used>>
        /\ UNCHANGED <<call.name, call.mode, call.id, call.target>>
        /\ pc' \in BeforeStart => pc \in BeforeStart
        /\ pc' # "idle" => pc # "idle"
    BY <1>3, QuietStep
  <2>2. CASE Stage \/ Build \/ Revalidate \/ Exited \/ Finished \/ Absent
    BY <1>1, <2>1, <2>2 DEF IdentityInv, BeforeStart, Stage, Build, Revalidate, Exited, Finished,
       Absent
  <2>3. CASE Attest
    BY <1>1, <2>1, <2>3 DEF IdentityInv, BeforeStart, Attest, Attested, Calls
  <2>4. CASE Unstage \/ Extract \/ SetAside \/ Install \/ DropPrevious \/ DiscardArchive \/ Undo
             \/ Again \/ Die \/ \E err \in {"error", "interrupt"} : RestoreFails(err)
    <3>1. pc' \in {"idle", "undo", "dead"} \cup Restoring \cup Ended
      BY <2>4 DEF Unstage, AfterProbe, AfterRun, Extract, SetAside, Install, DropPrevious,
         DiscardArchive, Undo, Again, Die, RestoreFails, Ended, Restoring
    <3> QED BY <2>1, <3>1 DEF IdentityInv, BeforeStart, Restoring, Ended
  <2> QED BY <1>3, <2>2, <2>3, <2>4
<1>4. CASE Create
  <2>1. /\ call.name \in Names /\ pc = "create" /\ pc' = "readback"
        /\ UNCHANGED <<wire, used>>
        /\ UNCHANGED <<call.name, call.mode, call.id, call.target>>
    BY <1>1, <1>4 DEF Create, IdentityInv, Calls
  <2>2. ran' = ran
    BY <1>4, <2>1, PerformEffect DEF Create, Commands
  <2>3. call.target = None
    BY <2>1 DEF ProgressInv, Setup
  <2> QED BY <2>1, <2>2, <2>3 DEF IdentityInv, BeforeStart
<1>5. CASE ReadBack
  <2>1. /\ UNCHANGED <<box, made, ran, wire, used>>
        /\ UNCHANGED <<call.name, call.mode, call.target>>
        /\ call'.id = call.name /\ call.name \in Names \ ForeignNames /\ box[call.name] # None
        /\ pc = "readback" /\ pc' = "attest"
    BY <1>1, <1>5 DEF ReadBack, IsOwned, Known, docker, IdentityInv, Calls
  <2>2. <<"create", call.name>> \notin wire
    BY <2>1 DEF DaemonInv, MayCreate
  <2> QED BY <2>1, <2>2 DEF IdentityInv, BeforeStart
<1>6. CASE Start
  <2>1. /\ call.name \in Names /\ call.id = call.name
        /\ UNCHANGED <<wire, used, call>> /\ pc = "start" /\ pc' = "attached"
    BY <1>6 DEF Start, IdentityInv
  <2> QED BY <2>1 DEF IdentityInv, BeforeStart
<1>7. ASSUME NEW err \in {"error", "interrupt"}, Raises(err)
      PROVE  IdentityInv'
  <2>1. /\ UNCHANGED <<used, call.name, call.mode, call.id, call.target>>
        /\ pc' = "cleanup" /\ pc \in Setup
    BY <1>1, <1>7 DEF Raises, Calls
  <2>2. wire' \subseteq wire \cup {<<pc, call.name>>}
    BY <1>7 DEF Raises, GivenUp, docker
  <2>3. pc = "create" => call.id = None
    BY DEF IdentityInv
  <2>4. call.target = None
    BY <2>1 DEF ProgressInv
  <2> QED BY <2>1, <2>2, <2>3, <2>4 DEF IdentityInv, BeforeStart, Setup
<1>8. CASE Cleanup
  <2>1. /\ UNCHANGED <<box, made, ran, wire, used>>
        /\ UNCHANGED <<call.name, call.mode, call.id>>
        /\ call'.target = call.id
        /\ pc = "cleanup" /\ pc' \in {"kill", "resolve", "unstage"}
    BY <1>1, <1>8 DEF Cleanup, docker, Calls
  <2> QED BY <2>1 DEF IdentityInv, BeforeStart
<1>9. CASE Resolve
  <2>1. /\ UNCHANGED <<box, made, ran, wire, used>>
        /\ UNCHANGED <<call.name, call.mode, call.id>>
        /\ pc = "resolve" /\ pc' \in {"kill", "unstage"}
        /\ \/ call'.target = call.target
           \/ call'.target = call.name /\ call.name \in Names \ ForeignNames
              /\ box[call.name] # None
    BY <1>1, <1>9 DEF Resolve, IsOwned, Known, docker, IdentityInv, Calls
  <2>2. box[call.name] # None /\ call.name \in Names \ ForeignNames =>
          <<"create", call.name>> \notin wire
    BY DEF DaemonInv, MayCreate
  <2> QED BY <2>1, <2>2 DEF IdentityInv, BeforeStart
<1>10. CASE Kill \/ Remove \/ CleanupFails
  <2>1. /\ UNCHANGED <<used, call.name, call.mode, call.id, call.target>>
        /\ pc' \in {"remove", "absent", "unstage"} /\ pc \in Cleaning
    BY <1>1, <1>10 DEF Kill, Remove, CleanupFails, Calls, Cleaning
  <2>2. wire' \subseteq wire \cup {<<"rm", call.target>>}
    BY <1>10 DEF Kill, Remove, CleanupFails, GivenUp, docker
  <2> QED BY <2>1, <2>2 DEF IdentityInv, BeforeStart, Cleaning
<1>11. CASE ContainerExits \/ DaemonCatchesUp
  <2>1. /\ UNCHANGED <<used, pc, call>>
        /\ wire' \subseteq wire
        /\ \A n \in Names : NotStarted(n) => NotStarted(n)'
        /\ \A n \in Names : <<"create", n>> \notin wire => made'[n] = made[n]
    BY <1>11, DaemonMove
  <2>2. pc \in BeforeStart => NotStarted(call.name)'
    BY <2>1 DEF IdentityInv, BeforeStart
  <2>3. pc \in {"revalidate", "start"} => made'[call.name] = made[call.name]
    BY <2>1 DEF IdentityInv
  <2> QED BY <2>1, <2>2, <2>3 DEF IdentityInv
<1> QED BY <1>2, <1>3, <1>4, <1>5, <1>6, <1>7, <1>8, <1>9, <1>10, <1>11
        DEF Next, Proceed, BeginProbe, BeginRun

-----------------------------------------------------------------------------
(* How the call went. *)

\* The progress part of the invariant.
LEMMA ProgressStep ==
    ASSUME TypeOK, TypeOK', DaemonInv, IdentityInv, IdentityInv', ProgressInv, Next
    PROVE  ProgressInv'
<1> USE DEF None, NotStarted
<1>1. /\ call \in Calls /\ call' \in Calls
      /\ box \in [Names -> {None, "created", "running", "exited"}]
      /\ call.id # None => call.id \in Names
      /\ call.target # None => call.target \in Names
  BY DEF TypeOK, Calls
<1>2. ASSUME NEW mode \in {"probe", "run"}, NEW n \in Names, Begin(mode, n)
      PROVE  ProgressInv'
  <2>1. call' = Blank(mode, n) /\ pc' = "stage"
    BY <1>2 DEF Begin
  <2> QED BY <2>1 DEF ProgressInv, Blank, Setup, Cleaning, Restoring, EarlyStages
<1>3. CASE Stage \/ Build \/ Revalidate \/ Exited \/ Finished \/ Attest
  <2>1. /\ UNCHANGED <<box, ran, wire>>
        /\ UNCHANGED <<call.name, call.mode, call.id, call.target, call.err, call.stage,
                       call.cleaned>>
        /\ pc \in Setup /\ pc' \in Setup \cup {"cleanup"} /\ pc' # "stage"
        /\ pc = "stage" => call'.owned = (call.mode = "probe")
        /\ pc # "stage" => call'.owned = call.owned
        /\ pc' = "cleanup" => pc \in {"attest", "export"}
    BY <1>1, <1>3 DEF Stage, Build, Revalidate, Exited, Finished, Attest, Attested, docker,
       Setup, Calls
  <2>2. pc' = "cleanup" => call.id # None /\ pc # "stage"
    BY <2>1 DEF IdentityInv
  <2> QED BY <2>1, <2>2 DEF ProgressInv, Setup, Cleaning, Restoring, EarlyStages
<1>4. CASE Create \/ ReadBack \/ Start
  <2>1. /\ UNCHANGED <<call.name, call.mode, call.target, call.err, call.stage,
                       call.cleaned, call.owned>>
        /\ pc \in Setup /\ pc' \in Setup /\ pc' # "stage" /\ pc # "stage"
    BY ZenonT(60), <1>1, <1>4 DEF Create, ReadBack, Start, Setup, Calls
  <2> QED BY <2>1 DEF ProgressInv, Setup, Cleaning, Restoring, EarlyStages
<1>5. ASSUME NEW err \in {"error", "interrupt"}, Raises(err)
      PROVE  ProgressInv'
  <2>1. /\ UNCHANGED <<call.name, call.mode, call.id, call.target, call.cleaned, call.owned>>
        /\ call'.err = err /\ call'.stage = StageOf(pc)
        /\ pc' = "cleanup" /\ pc \in Setup
    BY <1>1, <1>5 DEF Raises, Calls
  <2>2. /\ call'.stage # None /\ call'.stage # "workspace_restore"
        /\ call'.stage \in EarlyStages => pc \in BeforeStart
    BY <2>1 DEF StageOf, Setup, EarlyStages, BeforeStart
  <2>3. pc \in BeforeStart => NotStarted(call.name)'
    <3>1. CASE pc = "create"
      <4>1. call.name \in Names /\ NotStarted(call.name)
        BY <3>1 DEF IdentityInv, BeforeStart
      <4>2. wire' \subseteq wire \cup {<<"create", call.name>>} /\ ran' = ran
        BY <1>5, <3>1, <4>1, PerformEffect DEF Raises, GivenUp, docker, Commands
      <4> QED BY <2>1, <4>1, <4>2
    <3>2. CASE pc \in BeforeStart /\ pc # "create"
      BY <1>5, <2>1, <3>2 DEF Raises, docker, IdentityInv, BeforeStart
    <3> QED BY <3>1, <3>2
  <2> QED BY <2>1, <2>2, <2>3 DEF ProgressInv, Setup, Cleaning, Restoring
<1>6. CASE Cleanup
  <2>1. /\ UNCHANGED <<box, ran, wire>>
        /\ UNCHANGED <<call.name, call.mode, call.id, call.err, call.stage, call.cleaned,
                       call.owned>>
        /\ call'.target = call.id
    BY <1>1, <1>6 DEF Cleanup, docker, Calls
  <2>2. /\ pc = "cleanup"
        /\ \/ pc' = "kill" /\ call.id # None
           \/ pc' \in {"resolve", "unstage"} /\ call.id = None
    BY <1>6 DEF Cleanup
  <2> QED BY <2>1, <2>2 DEF ProgressInv, Setup, Cleaning, Restoring, EarlyStages
<1>7. CASE Resolve
  <2>1. /\ UNCHANGED <<box, ran, wire>>
        /\ UNCHANGED <<call.name, call.mode, call.id, call.err, call.stage, call.owned>>
        /\ pc = "resolve"
        /\ \/ /\ call'.cleaned = "verified" /\ UNCHANGED call.target /\ pc' = "unstage"
              /\ box[call.name] = None
           \/ /\ UNCHANGED call.cleaned /\ call'.target # None /\ pc' = "kill"
    BY <1>1, <1>7 DEF Resolve, IsOwned, Known, docker, IdentityInv, Calls
  <2> QED BY <2>1 DEF ProgressInv, IdentityInv, Setup, Cleaning, Restoring, EarlyStages
<1>8. CASE Absent
  <2>1. /\ UNCHANGED <<box, ran, wire>>
        /\ UNCHANGED <<call.name, call.mode, call.id, call.target, call.err, call.stage,
                       call.owned>>
        /\ pc = "absent" /\ pc' = "unstage"
        /\ call'.cleaned = "verified" /\ box[call.target] = None
    BY <1>1, <1>8 DEF Absent, docker, Calls
  <2> QED BY <2>1 DEF ProgressInv, IdentityInv, Setup, Cleaning, Restoring, EarlyStages
<1>9. CASE Kill \/ Remove \/ CleanupFails
  <2>1. /\ UNCHANGED <<call.name, call.mode, call.id, call.target, call.err, call.stage,
                       call.owned>>
        /\ pc \in Cleaning
        /\ \/ pc' \in {"remove", "absent"} /\ pc \in {"kill", "remove"} /\ UNCHANGED call.cleaned
           \/ pc' = "unstage" /\ call'.cleaned = "failed"
    BY <1>1, <1>9 DEF Kill, Remove, CleanupFails, Calls, Cleaning
  <2>2. call.name # None => (NotStarted(call.name) => NotStarted(call.name)')
    <3>1. pc = "remove" => call.target \in Names
      BY <1>1 DEF ProgressInv
    <3>2. wire' \subseteq wire \cup {<<"rm", call.target>>} /\ ran' = ran
      BY <1>9, <3>1, PerformEffect DEF Kill, Remove, CleanupFails, GivenUp, docker, Commands
    <3> QED BY <2>1, <3>2
  <2>3. pc # "idle" /\ call.name # None
    BY <2>1 DEF Cleaning, IdentityInv
  <2> QED BY <2>1, <2>2, <2>3 DEF ProgressInv, Setup, Cleaning, Restoring
<1>10. CASE Unstage
  <2>1. /\ UNCHANGED <<box, ran, wire>>
        /\ UNCHANGED <<call.name, call.mode, call.id, call.target, call.err, call.cleaned,
                       call.owned>>
        /\ pc = "unstage"
    BY <1>1, <1>10 DEF Unstage, docker, Calls
  <2>2. PICK removed \in {None, "yes", "no"} :
          /\ call'.stage = StageSaid(removed)
          /\ \/ pc' = IF call.mode = "probe" THEN AfterProbe(removed) ELSE AfterRun(removed)
             \/ removed = "no" /\ pc' = "interrupted"
    BY <1>1, <1>10 DEF Unstage, Calls
  <2>3. call'.stage = call.stage \/ call'.stage \in {"container_cleanup",
           "export_staging_cleanup", None}
    BY <2>2 DEF StageSaid
  <2>4. call.err # None => call'.stage = call.stage
    BY <2>2 DEF StageSaid
  <2>5. pc' = "raised" => call'.stage # None
    BY <2>1, <2>2 DEF StageSaid, AfterProbe, AfterRun, ProgressInv
  <2>6. pc' \in {"extract", "returned", "raised", "interrupted"}
    BY <2>2 DEF AfterProbe, AfterRun
  <2>7. pc' \in {"extract", "returned"} =>
          /\ call.err = None /\ call.cleaned = "verified"
          /\ pc' = "extract" => call.mode = "run"
    BY <1>1, <2>1, <2>2 DEF AfterProbe, AfterRun, ProgressInv, Calls
  <2> QED BY <2>1, <2>3, <2>4, <2>5, <2>6, <2>7
          DEF ProgressInv, Setup, Cleaning, Restoring, EarlyStages
<1>11. CASE Extract \/ SetAside \/ Install \/ DropPrevious \/ DiscardArchive \/ Again \/ Die
  <2>1. /\ UNCHANGED <<box, ran, wire, call>>
        /\ \/ pc \in Restoring /\ pc' \in Restoring \cup {"returned"}
           \/ pc' \in {"idle", "dead"}
    BY <1>11 DEF Extract, SetAside, Install, DropPrevious, DiscardArchive, Again, Die, docker,
       Restoring
  <2> QED BY <2>1 DEF ProgressInv, Setup, Cleaning, Restoring, EarlyStages
<1>12. ASSUME NEW err \in {"error", "interrupt"}, RestoreFails(err)
       PROVE  ProgressInv'
  <2>1. /\ UNCHANGED <<box, ran, wire>>
        /\ UNCHANGED <<call.name, call.mode, call.id, call.target, call.cleaned, call.owned>>
        /\ call'.err = err /\ call'.stage = "workspace_restore"
        /\ pc \in Restoring /\ pc' = "undo"
    BY <1>1, <1>12 DEF RestoreFails, docker, Calls
  <2> QED BY <2>1 DEF ProgressInv, Setup, Cleaning, Restoring, EarlyStages
<1>13. CASE Undo
  <2>1. /\ UNCHANGED <<box, ran, wire>>
        /\ UNCHANGED <<call.name, call.mode, call.id, call.target, call.err, call.stage,
                       call.cleaned, call.owned>>
        /\ pc = "undo" /\ pc' \in {"interrupted", "raised"}
    BY <1>1, <1>13 DEF Undo, docker, Calls
  <2> QED BY <2>1 DEF ProgressInv, Setup, Cleaning, Restoring, EarlyStages
<1>14. CASE ContainerExits \/ DaemonCatchesUp
  <2>1. UNCHANGED <<used, pc, call>>
    BY <1>14, DaemonMove
  <2>2. \A n \in Names : NotStarted(n) => NotStarted(n)'
    BY <1>14, DaemonMove
  <2>3. call.target # None => (box[call.target] = None => box'[call.target] = None)
    BY <1>1, <1>14, DaemonMove DEF IdentityInv
  <2>4. NotStarted(call.name) => NotStarted(call.name)'
    <3>1. ran' \subseteq Names /\ wire' \subseteq Commands \X Names
      BY DEF TypeOK
    <3>2. call.name \in Names \cup {None}
      BY <1>1 DEF Calls
    <3> QED BY <2>1, <2>2, <3>1, <3>2
  <2> QED BY <2>1, <2>3, <2>4 DEF ProgressInv
<1> QED BY <1>2, <1>3, <1>4, <1>5, <1>6, <1>7, <1>8, <1>9, <1>10, <1>11, <1>12, <1>13, <1>14
        DEF Next, Proceed, BeginProbe, BeginRun

-----------------------------------------------------------------------------
(* The run directory. *)

\* The part of the invariant about the workspace and what lies beside it.
LEMMA FilesStep ==
    ASSUME TypeOK, TypeOK', ProgressInv, ProgressInv', FilesInv, Next
    PROVE  FilesInv'
<1> USE DEF None, NothingLost, Untouched
<1>1. call \in Calls /\ call' \in Calls /\ files \in Files /\ files' \in Files
  BY DEF TypeOK
<1>2. ASSUME NEW mode \in {"probe", "run"}, NEW n \in Names, Begin(mode, n)
      PROVE  FilesInv'
  <2>1. /\ call'.name = n /\ call'.mode = mode /\ ~call'.owned
        /\ pc = "idle" /\ pc' = "stage"
        /\ UNCHANGED <<files.workspace, files.previous, files.staging>>
        /\ n \in StrayArchives => files'.archive = "foreign"
    BY <1>1, <1>2 DEF Begin, Blank, Files
  <2> QED BY <2>1 DEF FilesInv, Setup, Cleaning
<1>3. CASE Stage
  <2>1. /\ UNCHANGED <<call.name, call.mode>>
        /\ UNCHANGED <<files.workspace, files.previous, files.staging>>
        /\ files.archive = None
        /\ pc = "stage" /\ pc' = "build"
    BY <1>1, <1>3 DEF Stage, Calls, Files
  <2> QED BY <2>1 DEF FilesInv, Setup, Cleaning
<1>4. ASSUME UNCHANGED <<files, call.name, call.mode, call.owned>>,
             pc \in Setup \cup Cleaning, pc' \in Setup \cup Cleaning \cup {"unstage"}
      PROVE  FilesInv'
  BY <1>4 DEF FilesInv, Setup, Cleaning
<1>5. CASE \/ Build \/ Create \/ ReadBack \/ Attest \/ Revalidate \/ Start \/ Exited \/ Finished
           \/ \E err \in {"error", "interrupt"} : Raises(err)
  <2>1. /\ UNCHANGED <<files, call.name, call.mode, call.owned>>
        /\ pc \in Setup /\ pc' \in Setup \cup {"cleanup"}
    BY ZenonT(60), <1>1, <1>5 DEF Build, Create, ReadBack, Attest, Attested, Revalidate, Start, Exited,
       Finished, Raises, Calls, Setup
  <2> QED BY <1>4, <2>1 DEF Cleaning
<1>6. CASE Cleanup \/ Resolve \/ Kill \/ Remove \/ Absent \/ CleanupFails
  <2>1. /\ UNCHANGED <<files, call.name, call.mode, call.owned>>
        /\ pc \in Cleaning /\ pc' \in Cleaning \cup {"unstage"}
    BY <1>1, <1>6 DEF Cleanup, Resolve, Kill, Remove, Absent, CleanupFails, Calls, Cleaning
  <2> QED BY <1>4, <2>1
<1>7. CASE Unstage
  <2>1. /\ UNCHANGED <<call.name, call.mode, call.owned, call.err>>
        /\ pc = "unstage"
    BY <1>1, <1>7 DEF Unstage, Calls
  <2>2. PICK removed \in {None, "yes", "no"} :
          /\ removed \in IF (IF call.mode = "probe" THEN RemovesProbeStaging
                                                    ELSE RemovesRunStaging)
                         THEN {"yes", "no"} ELSE {None}
          /\ files' = IF removed = "yes" THEN [files EXCEPT !.archive = None] ELSE files
          /\ call' = [call EXCEPT !.removed = removed, !.stage = StageSaid(removed)]
          /\ \/ pc' = IF call.mode = "probe" THEN AfterProbe(removed) ELSE AfterRun(removed)
             \/ removed = "no" /\ pc' = "interrupted"
    BY <1>7 DEF Unstage
  <2>3. /\ UNCHANGED <<files.workspace, files.previous, files.staging>>
        /\ removed = "yes" => files'.archive = None
        /\ removed # "yes" => files' = files
        /\ call'.removed = removed
    BY <1>1, <2>2 DEF Files, Calls
  <2>4. /\ pc' \in {"extract", "returned", "raised", "interrupted"}
        /\ pc' = "extract" => call.mode = "run"
        /\ pc' = "returned" => call.mode = "probe" /\ call.err = None /\ removed # "no"
    BY <1>1, <2>2 DEF AfterProbe, AfterRun, Calls
  <2>5. call.mode = "probe" /\ ~call.owned => removed = None
    BY <2>2 DEF RemovesProbeStaging
  <2>6. call.mode = "probe" /\ call.owned => removed # None
    BY <2>2 DEF RemovesProbeStaging
  <2>7. pc' = "returned" => removed = "yes"
    BY <2>1, <2>4, <2>6 DEF ProgressInv
  <2> QED BY <2>1, <2>3, <2>4, <2>5, <2>7 DEF FilesInv, Setup, Cleaning
<1>8. ASSUME pc \in Restoring \cup {"undo"}
      PROVE  call.mode = "run"
  BY <1>8 DEF ProgressInv
<1>9. CASE Extract \/ SetAside \/ Install \/ DropPrevious \/ DiscardArchive
  <2>1. call' = call /\ call.mode = "run"
    BY <1>8, <1>9 DEF Extract, SetAside, Install, DropPrevious, DiscardArchive, Restoring
  <2>2. CASE Extract
    BY <1>1, <2>1, <2>2 DEF FilesInv, Extract, Files, Setup, Cleaning
  <2>3. CASE SetAside
    BY <1>1, <2>1, <2>3 DEF FilesInv, SetAside, Files, Setup, Cleaning
  <2>4. CASE Install
    BY <1>1, <2>1, <2>4 DEF FilesInv, Install, Files, Setup, Cleaning
  <2>5. CASE DropPrevious
    BY <1>1, <2>1, <2>5 DEF FilesInv, DropPrevious, Files, Setup, Cleaning
  <2>6. CASE DiscardArchive
    BY <1>1, <2>1, <2>6 DEF FilesInv, DiscardArchive, Files, Setup, Cleaning
  <2> QED BY <1>9, <2>2, <2>3, <2>4, <2>5, <2>6
<1>10. ASSUME NEW err \in {"error", "interrupt"}, RestoreFails(err)
       PROVE  FilesInv'
  <2>1. /\ UNCHANGED <<call.name, call.mode>> /\ call.mode = "run"
        /\ pc \in Restoring /\ pc' = "undo"
    BY <1>1, <1>8, <1>10 DEF RestoreFails, Calls
  <2>2. files'.workspace = None => files'.previous = "old"
    <3>1. files' \in AfterFailedRestore(err)
      BY <1>10 DEF RestoreFails
    <3>2. CASE pc = "install"
      <4>1. files.workspace = None /\ files.previous = "old"
        BY <3>2 DEF FilesInv
      <4>2. CASE err = "error"
        <5> DEFINE back == [files EXCEPT !.workspace = files.previous, !.previous = None]
        <5>1. files' \in {back, [back EXCEPT !.staging = None],
                         files, [files EXCEPT !.staging = None]}
          BY <3>1, <3>2, <4>2 DEF AfterFailedRestore
        <5> QED BY <1>1, <4>1, <5>1 DEF Files
      <4>3. CASE err = "interrupt"
        BY <3>1, <3>2, <4>1, <4>3 DEF AfterFailedRestore
      <4> QED BY <4>2, <4>3
    <3>3. CASE pc = "extract"
      <4> DEFINE new == [files EXCEPT !.staging = "new"]
      <4>1. files' \in {new, [new EXCEPT !.staging = None]}
        BY <3>1, <3>3 DEF AfterFailedRestore
      <4> QED BY <1>1, <3>3, <4>1 DEF FilesInv, Files
    <3>4. CASE pc \notin {"install", "extract"}
      <4>1. files' \in {files, [files EXCEPT !.staging = None]}
        BY <1>10, <3>1, <3>4 DEF AfterFailedRestore
      <4> QED BY <1>1, <4>1 DEF FilesInv, Files
    <3> QED BY <3>2, <3>3, <3>4
  <2> QED BY <2>1, <2>2 DEF FilesInv, Setup, Cleaning
<1>11. CASE Undo
  <2>1. /\ UNCHANGED <<call.name, call.mode>> /\ call.mode = "run"
        /\ pc' \in {"interrupted", "raised"}
    BY <1>1, <1>8, <1>11 DEF Undo, Calls
  <2>2. /\ UNCHANGED <<files.workspace, files.previous>>
        /\ call'.removed = "yes" => files'.archive = None
    BY <1>1, <1>11 DEF Undo, Files, Calls
  <2> QED BY <2>1, <2>2 DEF FilesInv, Setup, Cleaning
<1>12. CASE Again
  <2>1. /\ pc = "returned" /\ pc' = "idle"
        /\ UNCHANGED <<files.previous, files.staging>> /\ files'.workspace = "old"
    BY <1>1, <1>12 DEF Again, Files
  <2> QED BY <2>1 DEF FilesInv, Setup, Cleaning
<1>13. CASE Die
  BY <1>13 DEF Die, FilesInv, Setup, Cleaning, Ended
<1>14. CASE ContainerExits
  <2>1. /\ UNCHANGED <<pc, call>>
        /\ UNCHANGED <<files.workspace, files.previous, files.staging>>
        /\ files.archive \in {None, "foreign"} => files'.archive = files.archive
    BY <1>1, <1>14 DEF ContainerExits, Files
  <2> QED BY <2>1 DEF FilesInv
<1>15. CASE DaemonCatchesUp
  BY <1>15 DEF DaemonCatchesUp, FilesInv
<1> QED BY <1>2, <1>3, <1>5, <1>6, <1>7, <1>9, <1>10, <1>11, <1>12, <1>13, <1>14, <1>15
        DEF Next, Proceed, BeginProbe, BeginRun

-----------------------------------------------------------------------------
(* What the attestation is worth. *)

\* A configuration that passes _validate_container_metadata leaves nothing open of what the
\* sandbox is there to prevent, whatever else the daemon made of the request.
LEMMA PolicySuffices ==
    ASSUME NEW c, PolicyHolds(c)
    PROVE  Escapes(c) = {}
<1>1. /\ c.image = "inspected" /\ c.process = "limiter" /\ c.healthcheck = "none"
      /\ c.network = "none" /\ c.ports = {} /\ ~c.publish_all
      /\ c.volumes = {} /\ c.rootfs = "read-only"
      /\ c.pid = "own" /\ c.ipc = "none"
      /\ ~c.privileged /\ c.user = "model" /\ c.added = {} /\ c.dropped = {"ALL"}
      /\ c.security = {"no-new-privileges"} /\ c.resources = {}
      /\ c.restart = "no"
  BY DEF PolicyHolds, ConfigurationFits, NamespacesFit, PrivilegesFit, ResourcesFit, ProcessFits
<1>2. \A l \in DOMAIN AskedLimits : c.limits[l] = "bounded"
  BY DEF PolicyHolds, NamespacesFit, UlimitsFit, AskedLimits
<1>3. \A t \in DOMAIN c.tmpfs : c.tmpfs[t] = "bounded"
  BY DEF PolicyHolds, TmpfsFits, AskedTmpfs
<1>4. \A b \in c.binds :
        /\ b.source \in {"workspace", "inputs", "kit", "export"}
        /\ b.writable => b.source = "export"
        /\ b.propagation = "rprivate"
  <2>1. SUFFICES ASSUME NEW b \in c.binds
                 PROVE  /\ b.source \in {"workspace", "inputs", "kit", "export"}
                        /\ b.writable => b.source = "export"
                        /\ b.propagation = "rprivate"
    OBVIOUS
  <2>2. PICK a \in AskedBinds :
          /\ b.source = a.source /\ b.writable = a.writable /\ b.propagation = "rprivate"
    BY DEF PolicyHolds, BindsFit
  <2>3. /\ a.source \in {"workspace", "inputs", "kit", "export"}
        /\ a.writable => a.source = "export"
    BY DEF AskedBinds, Bind
  <2> QED BY <2>2, <2>3
<1> SUFFICES ASSUME NEW e \in Escapes(c) PROVE FALSE
  OBVIOUS
<1>5. e \notin {"other code", "network", "host processes", "privileges", "return"}
  BY <1>1 DEF Escapes
<1>6. e # "host files"
  BY <1>1, <1>4 DEF Escapes
<1>7. e # "exhaustion"
  BY <1>2, <1>3 DEF Escapes
<1> QED BY <1>5, <1>6, <1>7 DEF Escapes

-----------------------------------------------------------------------------
(* The theorems. *)

LEMMA InvInit == Init => Inv
<1> SUFFICES ASSUME Init PROVE Inv
  OBVIOUS
<1> USE DEF Init, Blank, None
<1>1. DaemonInv
  BY DEF DaemonInv, Fresh
<1>2. IdentityInv
  BY DEF IdentityInv, BeforeStart
<1>3. ProgressInv
  BY DEF ProgressInv, Setup, Cleaning, Restoring, EarlyStages
<1>4. FilesInv
  BY DEF FilesInv, Untouched, NothingLost, Setup, Cleaning
<1> QED BY <1>1, <1>2, <1>3, <1>4 DEF Inv

LEMMA InvStep == TypeOK /\ Inv /\ [Next]_vars => Inv'
<1> SUFFICES ASSUME TypeOK, Inv, [Next]_vars PROVE Inv'
  OBVIOUS
<1> USE DEF Inv
<1>1. TypeOK'
  BY TypeStep
<1>2. CASE Next
  BY <1>1, <1>2, DaemonStep, IdentityStep, ProgressStep, FilesStep
<1>3. CASE UNCHANGED vars
  BY <1>3 DEF vars, docker, DaemonInv, IdentityInv, ProgressInv, FilesInv, MayCreate, MayStart,
     Fresh, NotStarted, Untouched, NothingLost
<1> QED BY <1>2, <1>3

\* The types and the invariant hold throughout, for any names, foreign containers and stray
\* export files, and however many calls and late commands there are.
THEOREM SandboxCorrect == Spec => [](TypeOK /\ Inv)
<1>1. Init => TypeOK /\ Inv
  BY TypeInit, InvInit
<1>2. TypeOK /\ Inv /\ [Next]_vars => (TypeOK /\ Inv)'
  BY TypeStep, InvStep
<1> QED BY <1>1, <1>2, PTL DEF Spec

\* Code of the model runs only in a container that was read back and found to be of the fixed
\* policy, and that leaves it none of the escapes; never in a probe's, not even by a command
\* that reaches the daemon late (execute, _validate_container_metadata).
THEOREM OnlyAttestedRunCorrect == Spec => []OnlyAttestedRun
<1>1. TypeOK /\ Inv => OnlyAttestedRun
  <2> SUFFICES ASSUME TypeOK, Inv,
                      NEW n \in Names \ ForeignNames, box[n] \in {"running", "exited"}
               PROVE  Escapes(Made[made[n]]) = {} /\ (n = call.name => call.mode = "run")
    BY DEF OnlyAttestedRun
  <2>1. MayStart(n)
    BY DEF Inv, DaemonInv
  <2>2. Escapes(Made[made[n]]) = {}
    BY <2>1, PolicySuffices DEF MayStart
  <2> QED BY <2>1, <2>2 DEF MayStart
<1> QED BY <1>1, SandboxCorrect, PTL

\* At every moment of the restore, failed, interrupted or killed, one of the two whole
\* workspaces lies in the run directory (_replace_workspace_from_export).
THEOREM NothingLostCorrect == Spec => []NothingLost
<1>1. Inv => NothingLost
  BY DEF Inv, FilesInv
<1> QED BY <1>1, SandboxCorrect, PTL

\* What a call says of itself when it ends is so: a verified cleanup, a result, the stage an
\* error names and the removal of the export file it reports (execute, probe_policy_readback).
THEOREM OutcomeTruthfulCorrect == Spec => []OutcomeTruthful
<1>1. TypeOK /\ Inv => OutcomeTruthful
  <2> SUFFICES ASSUME TypeOK, Inv PROVE OutcomeTruthful
    OBVIOUS
  <2> USE DEF None
  <2>1. DaemonInv /\ IdentityInv /\ ProgressInv /\ FilesInv
    BY DEF Inv
  <2>2. /\ call.name \in Names \cup {None}
        /\ files = [workspace |-> files.workspace, previous |-> files.previous,
                    staging |-> files.staging, archive |-> files.archive]
    BY DEF TypeOK, Calls, Files
  \* Before the start nothing ran; from then on the identity was known, and what is removed.
  <2>3. call.cleaned = "verified" =>
          /\ box[call.name] \in {"running", "exited"} => call.name \in ForeignNames
          /\ call.target # None => box[call.target] = None
    BY <2>1 DEF ProgressInv, DaemonInv, MayStart, IdentityInv
  <2>4. pc = "returned" =>
          /\ call.cleaned = "verified"
          /\ box[call.name] = None
          /\ files = [workspace |-> IF call.mode = "run" THEN "new" ELSE "old",
                      previous |-> None, staging |-> None, archive |-> None]
    BY <2>1, <2>2 DEF ProgressInv, IdentityInv, FilesInv
  <2>5. pc = "raised" =>
          /\ call.stage # None
          /\ call.removed = "yes" => files.archive = None
          /\ call.stage \in EarlyStages =>
                call.name \notin ran /\ <<"start", call.name>> \notin wire
          /\ call.stage = "workspace_restore" => box[call.name] = None
    BY <2>1 DEF ProgressInv, IdentityInv, FilesInv, NotStarted
  <2>6. pc # "idle" /\ call.mode = "probe" /\ call.name \in StrayArchives =>
          files.archive = "foreign"
    BY <2>1 DEF FilesInv
  <2> QED BY <2>3, <2>4, <2>5, <2>6 DEF OutcomeTruthful, EarlyStages
<1> QED BY <1>1, SandboxCorrect, PTL

\* A container of somebody else is never created over, started, stopped or removed, whatever
\* identities the daemon prints (_is_owned_container and its two uses).
THEOREM ForeignUntouchedCorrect == Spec => ForeignUntouched
<1>1. Inv /\ Inv' => [\A n \in ForeignNames : box'[n] = box[n]]_box
  BY DEF Inv, DaemonInv
<1> QED BY <1>1, SandboxCorrect, PTL DEF ForeignUntouched

\* The old workspace is moved away only after the container that exported the new one was
\* verified to be gone, and it is gone (execute: the restore follows the finally block).
THEOREM RestoredAfterRemovalCorrect == Spec => RestoredAfterRemoval
<1>1. TypeOK /\ Inv /\ [Next]_vars =>
        [files.workspace = "old" /\ files'.workspace # "old" =>
           call.cleaned = "verified" /\ box[call.name] = None]_files
  <2> SUFFICES ASSUME TypeOK, Inv, Next, files.workspace = "old", files'.workspace # "old"
               PROVE  call.cleaned = "verified" /\ box[call.name] = None
    BY DEF vars
  <2>1. DaemonInv /\ IdentityInv /\ ProgressInv /\ FilesInv /\ files \in Files
    BY DEF Inv, TypeOK
  <2>2. ASSUME pc \in Restoring
        PROVE  call.cleaned = "verified" /\ box[call.name] = None
    BY <2>1, <2>2 DEF ProgressInv, IdentityInv
  <2>3. CASE Stage \/ Unstage \/ Undo \/ ContainerExits \/ Again
    BY <2>1, <2>3 DEF Stage, Unstage, Undo, ContainerExits, Again, Files
  <2>4. CASE Extract \/ SetAside \/ Install \/ DropPrevious \/ DiscardArchive
             \/ \E err \in {"error", "interrupt"} : RestoreFails(err)
    BY <2>2, <2>4 DEF Extract, SetAside, Install, DropPrevious, DiscardArchive, RestoreFails,
       Restoring
  <2>5. CASE \E mode \in {"probe", "run"}, n \in Names : Begin(mode, n)
    BY <2>1, <2>5 DEF Begin, Files
  <2>6. ASSUME UNCHANGED files
        PROVE  FALSE
    BY <2>6
  <2> QED BY <2>3, <2>4, <2>5, <2>6
          DEF Next, Proceed, BeginProbe, BeginRun, Build, Create, ReadBack, Attest, Revalidate,
              Start, Exited, Finished, Raises, Cleanup, Resolve, Kill, Remove, Absent,
              CleanupFails, Die, DaemonCatchesUp
<1> QED BY <1>1, SandboxCorrect, PTL DEF RestoredAfterRemoval, Spec

=============================================================================
