------------------------------ MODULE MaterialMC ------------------------------
(***************************************************************************)
(* What an attempt is made from, and how its evidence is taken: what the   *)
(* campaign controller reads and hands over, and the two ends of           *)
(* execute_plan that read files of others, in one model.  They share       *)
(* nothing, so a behaviour is one of a single of them; the others stay     *)
(* where they start.                                                       *)
(***************************************************************************)
EXTENDS FrozenInputs, EvidenceCapture, CampaignDocuments, RuntimeAttestation

VARIABLE which

allVars == <<which, materialVars, captureVars, campaignVars, attestationVars>>

\* One that fits, one with a seed spelled twice, one that is too short.
Lists == {<<"1", "2", "3">>, <<"1", "01", "3">>, <<"1", "2">>}

Clock == 0..3

\* A workspace with a source in each of its directories; either need not be there if the other is.
InRoot  == StepNames \cup {"model.py"}
InLib   == {"lib/part.py"}
Modules == {"model.py"} \cup InLib
Sources == InRoot \cup InLib
Layout  == <<InRoot, InLib>>

\* The parts that do not run: no campaign is given, and no server looked at.
CampaignAside ==
    /\ campaign = "none" /\ disk = <<>> /\ source = "none" /\ now = 0 /\ touches = 0
    /\ mode = "execute" /\ npc = "begin" /\ pass = "first" /\ turn = 0 /\ taken = 0 /\ index = 0
    /\ bytes = <<>> /\ handed = {} /\ ran = {}

AttestationAside ==
    /\ docker = "none" /\ server = NoServer /\ store = "none" /\ snapshot = "none"
    /\ served = {} /\ deeds = 0 /\ apc = "docker" /\ learned = <<>> /\ was = {}

AllInit ==
    /\ which \in {"inputs", "evidence", "campaign", "server"}
    /\ MaterialInit /\ CaptureInit
    /\ which # "evidence" => ~change
    /\ which # "inputs" => task = "L1-ASSEMBLE" /\ head = 0 /\ tree = Committed(0)
    /\ IF which = "campaign" THEN CampaignInit ELSE CampaignAside
    /\ IF which = "server" THEN AttestationInit ELSE AttestationAside

InputsRun ==
    /\ which = "inputs" /\ MaterialNext
    /\ UNCHANGED <<which, captureVars, campaignVars, attestationVars>>

EvidenceRun ==
    /\ which = "evidence" /\ CaptureNext
    /\ UNCHANGED <<which, materialVars, campaignVars, attestationVars>>

CampaignRun ==
    /\ which = "campaign" /\ CampaignNext
    /\ UNCHANGED <<which, materialVars, captureVars, attestationVars>>

AttestationRun ==
    /\ which = "server" /\ AttestationNext
    /\ UNCHANGED <<which, materialVars, captureVars, campaignVars>>

AllNext == InputsRun \/ EvidenceRun \/ CampaignRun \/ AttestationRun

AllSpec == AllInit /\ [][AllNext]_allVars
=============================================================================
