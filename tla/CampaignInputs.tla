---------------------------- MODULE CampaignInputs ----------------------------
(***************************************************************************)
(* What the Nightwatch controller hands to the executor: run_campaign from *)
(* the approved campaign to each call of execute_plan, with the plan, the  *)
(* authorization and the model profile of every slot, which it reads from  *)
(* the repository twice, at its start and again when the slot's turn has   *)
(* come, while time passes and others edit the files.  How the ledger and  *)
(* the journal follow what happens is in Nightwatch.                       *)
(*                                                                         *)
(* A document is a record and stands for its own digest: whoever approved  *)
(* a document, or a campaign that names it, approved that record.          *)
(***************************************************************************)
EXTENDS Integers, Sequences, FiniteSets

CONSTANTS
    Campaigns,  \* the campaign documents that operators write
    Fold(_),    \* a name without its case; paths and runs are compared so
    Times,      \* the clock's readings
    MaxTouches  \* edits by others in a behaviour

\* A document's slots are an array.
ASSUME CampaignsAssumption ==
    \A c \in Campaigns : Len(c.slots) \in Nat /\ DOMAIN c.slots = 1..Len(c.slots)
ASSUME TimesAssumption == Times \subseteq Nat
ASSUME TouchesAssumption == MaxTouches \in Nat
\* What is an authorization has a period, and the clock reads every moment of it.
ASSUME PeriodsAssumption ==
    \A c \in Campaigns : \A i \in DOMAIN c.slots :
        LET a == c.slots[i].auth
        IN  a.kind = "authorization" => /\ a.issued \in Nat /\ a.expires \in Nat
                                        /\ a.issued..(a.expires - 1) \subseteq Times

\* An authorization is accepted this long before it is issued.
Slack == 1

VARIABLES
    campaign, \* the campaign document
    disk,     \* the document at each path that the campaign names
    source,   \* the controller's source, as it is on disk
    now,      \* the clock
    touches,  \* edits made so far
    mode,     \* "execute", or the read-only "status"
    npc,
    pass,     \* "first", at the start, or "turn", when the slot's turn has come
    turn,     \* when the turn of the slot at hand came
    taken,    \* the time that run_campaign took for the pass
    index,    \* the slot at hand
    bytes,    \* what has been read of the slot's documents
    handed,   \* the calls of execute_plan so far
    ran       \* the calls that the executor went on with

campaignVars == <<campaign, disk, source, now, touches, mode, npc, pass, turn, taken, index, bytes,
                  handed, ran>>

-----------------------------------------------------------------------------
(* The documents.  Those that an operator writes are in CampaignDocuments.   *)

Launches ==
    LET plain == [revision |-> 1, offline |-> TRUE, foreign_code |-> FALSE, sequences |-> 1, port |-> 80]
    IN  [plain    |-> plain,
         faster   |-> [plain EXCEPT !.sequences = 2],
         revised  |-> [plain EXCEPT !.revision = 2],
         online   |-> [plain EXCEPT !.offline = FALSE],
         trusting |-> [plain EXCEPT !.foreign_code = TRUE],
         crowded  |-> [plain EXCEPT !.sequences = 0]]

\* expected_served_model_id: a model's name says what it is and how it was launched.
ServedName(revision, launch) == <<revision, launch>>

\* What somebody else may put in the place of a document.
Edited == [kind |-> "edited"]

\* The documents that the campaign names, where it says they are; of two in one place, the
\* first slot's.
NamedAt(c, path) ==
    LET in == {i \in DOMAIN c.slots : path \in {c.slots[i].plan_path, c.slots[i].profile_path,
                                               c.slots[i].auth_path}}
        s == c.slots[CHOOSE i \in in : \A j \in in : i <= j]
    IN  CASE path = s.plan_path -> s.plan
          [] path = s.profile_path -> s.profile
          [] OTHER -> s.auth

PathsOf(c) == UNION {{c.slots[i].plan_path, c.slots[i].profile_path, c.slots[i].auth_path} :
                     i \in DOMAIN c.slots}

CampaignInit ==
    /\ campaign \in Campaigns
    /\ disk = [p \in PathsOf(campaign) |-> NamedAt(campaign, p)]
    /\ source = "reviewed"
    /\ now \in Times
    /\ touches = 0
    /\ mode \in {"execute", "status"}
    /\ npc = "begin" /\ pass = "first" /\ turn = now /\ taken = now /\ index = 1
    /\ bytes = <<>> /\ handed = {} /\ ran = {}

-----------------------------------------------------------------------------
(* verify_campaign_envelope. *)

ApprovalFits(c) == c.approved

WindowFits(c) == c.issued <= c.from /\ c.from < c.until

AutomationSafe(c) == c.serial /\ c.safe

LimitsFit(c) ==
    /\ c.max_slots = Len(c.slots) /\ c.max_slots \in 1..256
    /\ c.threshold \in 1..Len(c.slots)

\* Fault: paths are compared as they are spelled.
PathsFitSpelled(s, t) == s.auth_path # t.auth_path

\* A path has one role and, but for authorizations, one document; a slot has an authorization
\* of its own; and a plan has one profile.
PathsFit(s, t) ==
    LET Plan(x) == Fold(x.plan_path)
        Prof(x) == Fold(x.profile_path)
        Auth(x) == Fold(x.auth_path)
    IN  /\ Auth(s) \notin {Auth(t), Plan(t), Prof(t)}
        /\ Plan(s) \notin {Auth(t), Prof(t)}
        /\ Prof(s) \notin {Auth(t), Plan(t)}
        /\ Plan(s) = Plan(t) => s.plan = t.plan
        /\ Prof(s) = Prof(t) => s.profile = t.profile
        /\ s.plan = t.plan => s.profile = t.profile

RunIdsFit(s, t) == Fold(s.run) # Fold(t.run)

SlotFits(s) ==
    /\ Cardinality({Fold(s.plan_path), Fold(s.profile_path), Fold(s.auth_path)}) = 3
    /\ s.literal = <<s.plan, s.run>>

CampaignFits(c) ==
    /\ ApprovalFits(c) /\ WindowFits(c) /\ AutomationSafe(c) /\ LimitsFit(c)
    /\ \A i \in DOMAIN c.slots :
         /\ SlotFits(c.slots[i])
         /\ \A j \in 1..(i - 1) : PathsFit(c.slots[i], c.slots[j]) /\ RunIdsFit(c.slots[i], c.slots[j])

CampaignCurrent(c, time) == c.from <= time /\ time < c.until

-----------------------------------------------------------------------------
(* verify_profile_envelope. *)

TopologyFits(p) == p.nodes = 1

LaunchFits(launch, revision) ==
    /\ launch.revision = revision
    /\ launch.offline /\ ~launch.foreign_code
    /\ launch.sequences \in 1..1024

\* The endpoint is of this host, and its port that of the launched server.
Endpoint(p) == p.host = "loopback"

ProviderIdentified(p) ==
    /\ p.name = ServedName(p.revision, p.launch)
    /\ p.credential = "none" /\ p.charge = "local-no-charge"

ProfileVerified(p) ==
    /\ TopologyFits(p)
    /\ LaunchFits(Launches[p.launch], p.revision)
    /\ p.bound = p.launch
    /\ ProviderIdentified(p)
    /\ Endpoint(p) /\ p.port = Launches[p.launch].port

-----------------------------------------------------------------------------
(* _validate_slot_inputs. *)

\* What is charged for is disabled.
Free(a) == a.charge = "local-no-charge" /\ a.free

GrantSettingsFit(a) == a.turns \in 1..64

GrantContainerFits(c) == c.runtime = "frozen"

\* The container and the executor are of one approved implementation.
GrantImplementationFits(a) ==
    a.implementation.limiter = a.container.limiter /\ a.implementation.contract = "frozen"

\* The authorization that the slot names is current, and grants this run of this plan, with
\* this profile.
AuthorizationVerified(a, s, p, time) ==
    /\ a.kind = "authorization"
    /\ a.issued < a.expires /\ a.issued - Slack <= time /\ time < a.expires
    /\ a.plan = s.plan /\ a.run = s.run /\ a.grants
    /\ a.path = s.profile_path /\ a.profile = s.profile
    /\ a.model = p.name /\ a.host = p.host /\ a.charge = p.charge
    /\ GrantSettingsFit(a) /\ GrantContainerFits(a.container) /\ GrantImplementationFits(a) /\ Free(a)

AutomationOnly(a) == a.charge = "local-no-charge" /\ a.host = "loopback" /\ a.free

ProfileMatches(p, cohort, a) == cohort.profile = p /\ p.name = cohort.model /\ p.name = a.model

Occurrences(run, runs) == Cardinality({i \in DOMAIN runs : runs[i] = run})

\* What was read is what the campaign names, and its parts fit each other.
SlotVerified(b, s, time) ==
    /\ b.profile = s.profile /\ ProfileVerified(b.profile)
    /\ b.plan = s.plan /\ b.plan.revision = campaign.revision
    /\ Occurrences(s.run, b.plan.runs) = 1
    /\ b.auth = s.auth /\ b.plan.model = b.profile.name
    /\ AuthorizationVerified(b.auth, s, b.profile, time)
    /\ AutomationOnly(b.auth)
    /\ ProfileMatches(b.profile, b.plan, b.auth)

Midpoint(a) == a.issued + ((a.expires - a.issued) \div 2)

MidpointFits(a) == a.kind = "authorization" /\ a.issued < a.expires

\* Fault: an inspection, too, asks whether the authorization is current now.
VerifiedNow(b, s, time) == SlotVerified(b, s, time)

\* An inspection asks whether the authorization would do in its own time.
Verified(b, s, time) ==
    IF mode = "execute" THEN SlotVerified(b, s, time)
    ELSE MidpointFits(b.auth) /\ SlotVerified(b, s, Midpoint(b.auth))

-----------------------------------------------------------------------------
(* run_campaign. *)

SlotAtHand == campaign.slots[index]

\* Others edit a document or the controller's source, and may undo what they did.
Touch ==
    /\ touches < MaxTouches /\ npc \notin {"refused", "inspected", "closed", "review", "ended"}
    /\ touches' = touches + 1
    /\ \/ /\ \E p \in DOMAIN disk :
               disk' = [disk EXCEPT ![p] = IF @ = Edited THEN NamedAt(campaign, p) ELSE Edited]
          /\ source' = source
       \/ /\ source' = IF source = "reviewed" THEN "other" ELSE "reviewed"
          /\ disk' = disk
    /\ UNCHANGED <<campaign, now, mode, npc, pass, turn, taken, index, bytes, handed, ran>>

Tick ==
    /\ now + 1 \in Times /\ npc \notin {"refused", "inspected", "closed", "review", "ended"}
    /\ now' = now + 1
    /\ UNCHANGED <<campaign, disk, source, touches, mode, npc, pass, turn, taken, index, bytes, handed, ran>>

\* The campaign, the clock, the operator's confirmation, and the campaign's window.
Begin ==
    /\ npc = "begin"
    /\ taken' = now
    /\ \E confirmed \in BOOLEAN :
         npc' = IF /\ CampaignFits(campaign)
                   /\ mode = "execute" => confirmed /\ CampaignCurrent(campaign, now)
                THEN "source" ELSE "refused"
    /\ UNCHANGED <<campaign, disk, source, now, touches, mode, pass, turn, index, bytes, handed, ran>>

\* controller_identity measures the source as it is on disk, not the code that runs.
Identity == source

CheckSource ==
    /\ npc = "source"
    /\ npc' = IF Identity = campaign.controller THEN "plan" ELSE "refused"
    /\ UNCHANGED <<campaign, disk, source, now, touches, mode, pass, turn, taken, index, bytes, handed, ran>>

\* _stable_read gives a file's bytes as they were at one time, or fails as a changed one does.
StableRead(path) == disk[path]

ReadPlan ==
    /\ npc = "plan" /\ npc' = "authorization"
    /\ bytes' = [plan |-> StableRead(SlotAtHand.plan_path)]
    /\ UNCHANGED <<campaign, disk, source, now, touches, mode, pass, turn, taken, index, handed, ran>>

ReadAuthorization ==
    /\ npc = "authorization" /\ npc' = "profile"
    /\ bytes' = [plan |-> bytes.plan, auth |-> StableRead(SlotAtHand.auth_path)]
    /\ UNCHANGED <<campaign, disk, source, now, touches, mode, pass, turn, taken, index, handed, ran>>

ReadHere == [plan |-> bytes.plan, auth |-> bytes.auth, profile |-> StableRead(SlotAtHand.profile_path)]

\* The last read of a slot in the first pass: the next slot, or what comes after the pass.
ValidateFirst ==
    /\ npc = "profile" /\ pass = "first"
    /\ IF ~Verified(ReadHere, SlotAtHand, taken)
       THEN npc' = "refused" /\ index' = index
       ELSE IF index < Len(campaign.slots)
       THEN npc' = "plan" /\ index' = index + 1
       ELSE npc' = (IF mode = "execute" THEN "lock" ELSE "inspected") /\ index' = 1
    /\ bytes' = <<>>
    /\ UNCHANGED <<campaign, disk, source, now, touches, mode, pass, turn, taken, handed, ran>>

\* With the writer's lock, the clock is read again.
TakeLock ==
    /\ npc = "lock"
    /\ npc' = IF CampaignCurrent(campaign, now) THEN "slot" ELSE "refused"
    /\ pass' = "turn"
    /\ UNCHANGED <<campaign, disk, source, now, touches, mode, turn, taken, index, bytes, handed, ran>>

\* Fault: the slots have been validated against the time of the start.
TimeTakenOnce == taken' = taken

TimeTaken == taken' = now

\* A slot's turn: the window once more, and then the slot's documents once more.
TurnOf ==
    /\ npc = "slot"
    /\ npc' = IF index > Len(campaign.slots) THEN "ended"
              ELSE IF CampaignCurrent(campaign, now) THEN "plan" ELSE "closed"
    /\ turn' = now
    /\ TimeTaken
    /\ UNCHANGED <<campaign, disk, source, now, touches, mode, pass, index, bytes, handed, ran>>

\* The executor is called with the bytes just read, or the slot is left for review.
HandOver ==
    /\ npc = "profile" /\ pass = "turn"
    /\ IF Verified(ReadHere, SlotAtHand, taken)
       THEN /\ npc' = "executing"
            /\ handed' = handed \cup {[slot |-> index, plan |-> bytes.plan, auth |-> bytes.auth,
                                       at |-> now, turn |-> turn]}
            /\ bytes' = ReadHere
       ELSE npc' = "review" /\ handed' = handed /\ bytes' = <<>>
    /\ UNCHANGED <<campaign, disk, source, now, touches, mode, pass, turn, taken, index, ran>>

\* The executor reads the profile from the repository itself, and looks at the authorization
\* and its time. Whatever it ends with, the campaign goes on, stops, or waits for a review.
ExecuteSlot ==
    /\ npc = "executing"
    /\ LET profile == StableRead(SlotAtHand.profile_path)
       IN  IF profile = SlotAtHand.profile /\ SlotVerified([bytes EXCEPT !.profile = profile], SlotAtHand, now)
           THEN /\ ran' = ran \cup {[slot |-> index, profile |-> profile, at |-> now]}
                /\ npc' \in {"slot", "review", "ended"}
           ELSE /\ ran' = ran
                /\ npc' = "review"
    /\ index' = index + 1 /\ bytes' = <<>>
    /\ UNCHANGED <<campaign, disk, source, now, touches, mode, pass, turn, taken, handed>>

CampaignNext ==
    \/ Touch \/ Tick \/ Begin \/ CheckSource \/ ReadPlan \/ ReadAuthorization \/ ValidateFirst
    \/ TakeLock \/ TurnOf \/ HandOver \/ ExecuteSlot

CampaignSpec == CampaignInit /\ [][CampaignNext]_campaignVars

-----------------------------------------------------------------------------
(* Properties. *)

\* Whatever is edited and undone while the controller reads, and however late it is by then:
\* every call of the executor is for a run that its plan has once, of the campaign's revision,
\* with an authorization for that run of that plan that no other call used, for a free model
\* on this host under the name that the plan, the profile and the authorization agree on; the
\* campaign and the authorization were current when the slot's turn came; and an inspection
\* calls nothing.
HandedAsApproved ==
    /\ handed # {} => mode = "execute"
    /\ \A h \in handed :
         LET s == campaign.slots[h.slot]
             p == h.plan.profile
         IN  /\ Occurrences(s.run, h.plan.runs) = 1
             /\ h.plan.revision = campaign.revision
             /\ h.auth.plan = h.plan /\ h.auth.run = s.run /\ h.auth.profile = p
             /\ p.host = "loopback" /\ h.auth.host = "loopback" /\ h.auth.free
             /\ p.name = <<p.revision, p.launch>> /\ Launches[p.launch].revision = p.revision
             /\ h.plan.model = p.name /\ h.auth.model = p.name
             /\ campaign.from <= h.turn /\ h.turn < campaign.until
             /\ h.auth.issued - Slack <= h.turn /\ h.turn < h.auth.expires
             /\ \A g \in handed : g.slot < h.slot => g.at <= h.turn
    /\ \A g, h \in handed :
         g.slot # h.slot =>
             LET s == campaign.slots[g.slot]
                 t == campaign.slots[h.slot]
             IN  Fold(s.run) # Fold(t.run) /\ Fold(s.auth_path) # Fold(t.auth_path) /\ g.auth # h.auth
    /\ \A r \in ran : \E h \in handed :
         h.slot = r.slot /\ r.profile = h.plan.profile /\ r.at < h.auth.expires

\* While nobody edits anything, an inspection refuses no campaign that an execution would
\* take at any time, and what it accepts has, for every slot, a time when it would be taken.
InspectionPredicts ==
    mode = "status" /\ touches = 0 =>
        LET OnDisk(i) == LET s == campaign.slots[i]
                         IN  [plan |-> disk[s.plan_path], auth |-> disk[s.auth_path],
                              profile |-> disk[s.profile_path]]
            Takes(i, t) == SlotVerified(OnDisk(i), campaign.slots[i], t)
        IN  /\ npc = "refused" =>
                 ~ /\ CampaignFits(campaign) /\ campaign.controller = source
                   /\ \E t \in Times : /\ CampaignCurrent(campaign, t)
                                       /\ \A i \in DOMAIN campaign.slots : Takes(i, t)
            /\ npc = "inspected" => \A i \in DOMAIN campaign.slots : \E t \in Times : Takes(i, t)
=============================================================================
