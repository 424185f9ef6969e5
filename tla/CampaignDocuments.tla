--------------------------- MODULE CampaignDocuments ---------------------------
(***************************************************************************)
(* Documents that operators write, for TLC: a good one of every kind, and  *)
(* those that differ from it in one place, which the verification of       *)
(* CampaignInputs has to see.                                              *)
(***************************************************************************)
EXTENDS CampaignInputs

\* casefold of the names below.
Casefold(name) ==
    CASE name = "AUTH1" -> "auth1"
      [] name = "PLAN"  -> "plan"
      [] name = "R1"    -> "r1"
      [] OTHER -> name

Launched(launch) ==
    [kind |-> "profile", revision |-> 1, nodes |-> 1, launch |-> launch, bound |-> launch,
     name |-> ServedName(1, launch), host |-> "loopback", port |-> 80,
     charge |-> "local-no-charge", credential |-> "none"]

Good  == Launched("plain")
Other == Launched("faster")

Profiles ==
    {Launched(l) : l \in DOMAIN Launches}
    \cup {[Good EXCEPT !.revision = 2], [Good EXCEPT !.nodes = 2], [Good EXCEPT !.launch = "faster"],
          [Good EXCEPT !.name = ServedName(2, "plain")], [Good EXCEPT !.host = "elsewhere"],
          [Good EXCEPT !.port = 81], [Good EXCEPT !.charge = "metered"],
          [Good EXCEPT !.credential = "API_KEY"]}

PlanOn(profile) ==
    [kind |-> "plan", revision |-> 7, runs |-> <<"r1", "r2", "R1">>, model |-> profile.name,
     profile |-> profile]

CohortPlans ==
    LET p == PlanOn(Good)
    IN  {[p EXCEPT !.revision = 8], [p EXCEPT !.runs = <<"r2">>],
         [p EXCEPT !.runs = <<"r1", "r2", "r1">>], [p EXCEPT !.profile = Other],
         [p EXCEPT !.model = Other.name]}

Granted(cohort, run, profile) ==
    [kind |-> "authorization", plan |-> cohort, run |-> run, issued |-> 1, expires |-> 3,
     grants |-> TRUE, path |-> "profile", profile |-> profile, model |-> profile.name,
     host |-> profile.host, charge |-> "local-no-charge", free |-> TRUE, turns |-> 64,
     container |-> [runtime |-> "frozen", limiter |-> 1],
     implementation |-> [contract |-> "frozen", limiter |-> 1]]

Grants ==
    LET a == Granted(PlanOn(Good), "r1", Good)
    IN  {[a EXCEPT !.plan.revision = 8], [a EXCEPT !.run = "r2"], [a EXCEPT !.issued = 3],
         [a EXCEPT !.issued = 2], [a EXCEPT !.expires = 2], [a EXCEPT !.grants = FALSE],
         [a EXCEPT !.path = "plan"], [a EXCEPT !.profile = Other], [a EXCEPT !.model = Other.name],
         [a EXCEPT !.host = "elsewhere"], [a EXCEPT !.charge = "metered"], [a EXCEPT !.free = FALSE],
         [a EXCEPT !.turns = 65], [a EXCEPT !.turns = 0], [a EXCEPT !.container.runtime = "other"],
         [a EXCEPT !.implementation.contract = "other"], [a EXCEPT !.implementation.limiter = 2]}

SlotOf(run, cohort, profile, auth_path, grant) ==
    [run |-> run, plan_path |-> "plan", plan |-> cohort, profile_path |-> "profile",
     profile |-> profile, auth_path |-> auth_path, auth |-> grant, literal |-> <<cohort, run>>]

\* A campaign of two runs of one plan.
CampaignOf(profile, cohort, grant) ==
    [approved |-> TRUE, controller |-> "reviewed", revision |-> 7, issued |-> 0, from |-> 0,
     until |-> 3, serial |-> TRUE, safe |-> TRUE, max_slots |-> 2, threshold |-> 1,
     slots |-> <<SlotOf("r1", cohort, profile, "auth1", grant),
                 SlotOf("r2", cohort, profile, "auth2",
                        [Granted(cohort, "r2", profile) EXCEPT !.expires = 2])>>]

GoodCampaign == CampaignOf(Good, PlanOn(Good), Granted(PlanOn(Good), "r1", Good))

Deviating ==
    LET c == GoodCampaign
        Renamed(run) == [c EXCEPT !.slots[2].run = run, !.slots[2].auth.run = run,
                                  !.slots[2].literal = <<c.slots[2].plan, run>>]
    IN  {[c EXCEPT !.approved = FALSE], [c EXCEPT !.controller = "other"],
         [c EXCEPT !.revision = 8], [c EXCEPT !.issued = 1], [c EXCEPT !.until = 0],
         [c EXCEPT !.from = 2], [c EXCEPT !.serial = FALSE], [c EXCEPT !.safe = FALSE],
         [c EXCEPT !.max_slots = 3], [c EXCEPT !.threshold = 0], [c EXCEPT !.threshold = 3],
         Renamed("r1"), Renamed("R1"), [c EXCEPT !.slots[1].literal = c.slots[2].literal],
         [c EXCEPT !.slots[2].auth_path = "auth1", !.slots[2].auth = c.slots[1].auth],
         [c EXCEPT !.slots[2].auth_path = "AUTH1"], [c EXCEPT !.slots[2].auth_path = "plan"],
         [c EXCEPT !.slots[2].plan_path = "auth1"], [c EXCEPT !.slots[2].profile_path = "plan"],
         [c EXCEPT !.slots[1].profile_path = "auth2"], [c EXCEPT !.slots[2].plan_path = "PLAN"],
         [c EXCEPT !.slots[2].plan_path = "PLAN", !.slots[2].plan.revision = 8,
                   !.slots[2].literal[1].revision = 8],
         [c EXCEPT !.slots[2].profile = Other]}

\* The good campaign, and those that differ from it in one place, in the campaign itself or
\* in a document that it names.
Given ==
    {CampaignOf(p, PlanOn(p), Granted(PlanOn(p), "r1", p)) : p \in Profiles}
    \cup {CampaignOf(Good, p, Granted(p, "r1", Good)) : p \in CohortPlans}
    \cup {CampaignOf(Good, PlanOn(Good), a) : a \in Grants}
    \cup Deviating
=============================================================================
