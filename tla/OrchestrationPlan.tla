--------------------------- MODULE OrchestrationPlan --------------------------
(***************************************************************************)
(* p2a_orchestrate plan: which task is ready, which roles it needs, which  *)
(* provider may play each of them, and the check every plan passes before  *)
(* it is written and whenever it is read.                                  *)
(***************************************************************************)
EXTENDS Naturals, FiniteSets

CONSTANTS Tasks,     \* what each task of the graph asks for
          Profiles,  \* the profiles that may be asked for
          LeftOut,   \* an option that is left out
          Refused    \* the answer of a command that fails

VARIABLES taskStatus,  \* of each task of the graph
          plan         \* the last answer of the command

planVars == <<taskStatus, plan>>

Ids == DOMAIN Tasks

-----------------------------------------------------------------------------
(* What a provider may do                                                  *)

Providers == {"codex", "claude", "gemini", "manual"}

WriteAllowed(p) == p # "gemini"

Serves(p) == {"reviewer", "monitor"}
                 \cup (IF p = "gemini" THEN {} ELSE {"contributor"})
                 \cup (IF p = "manual" THEN {"lead"} ELSE {})

ImplementerProfiles == {"frontend", "backend", "fullstack", "test", "docs"}
ReviewerProfiles == {"qa", "architecture", "security"}

\* parseRoleProfile refuses any other.
ASSUME ProfilesAssumption == Profiles \subseteq ImplementerProfiles \cup ReviewerProfiles

RoleOf(profile) == CASE profile = "owner_supervisor" -> "lead"
                     [] profile = "manual_monitor" -> "monitor"
                     [] profile \in ImplementerProfiles -> "contributor"
                     [] profile \in ReviewerProfiles -> "reviewer"

\* The signals of the target area go before those of the text.
Specialist(signals, otherwise) ==
    IF {"frontend", "backend"} \subseteq signals THEN "fullstack"
    ELSE IF "test" \in signals THEN "test"
    ELSE IF "docs" \in signals THEN "docs"
    ELSE IF "frontend" \in signals THEN "frontend"
    ELSE IF "backend" \in signals THEN "backend"
    ELSE otherwise

ImplementerProfile(t) ==
    Specialist(Tasks[t].area, Specialist(Tasks[t].text, "fullstack"))

ReviewerProfile(t) == IF "security" \in Tasks[t].text THEN "security"
                      ELSE IF "architecture" \in Tasks[t].text THEN "architecture"
                      ELSE "qa"

\* A reviewer from another provider only reads.
ReviewerCompatible(agent, reviewer) ==
    reviewer \in {agent, "manual"} \/ ~WriteAllowed(reviewer)

-----------------------------------------------------------------------------
(* The task and the roles it needs                                         *)

IsReady(t) == taskStatus[t] = "todo" /\ \A d \in Tasks[t].dependencies : taskStatus[d] = "done"

\* The task asked for, or the only one that is ready.
Selected(asked) ==
    IF asked # LeftOut THEN {t \in {asked} : IsReady(t)}
    ELSE LET ready == {t \in Ids : IsReady(t)}
         IN IF Cardinality(ready) = 1 THEN ready ELSE {}

HighAcceptance == 6

RiskFlags(t) ==
    {f \in {"multi_area", "high_acceptance_count"} :
        IF f = "multi_area" THEN Tasks[t].multiArea ELSE Tasks[t].criteria >= HighAcceptance}

Mode(t) == CASE "multi_area" \in RiskFlags(t) -> "team"
             [] RiskFlags(t) = {"high_acceptance_count"} -> "solo_monitor"
             [] OTHER -> "solo"

Role(role, profile, source, provider, write) ==
    [role |-> role, profile |-> profile, source |-> source, provider |-> provider,
     write |-> write]

ChosenProfile(role, option, selected, provider, write) ==
    IF option = LeftOut THEN Role(role, selected, "auto", provider, write)
                     ELSE Role(role, option, "override", provider, write)

Roles(t, args, reviewer) ==
    {Role("lead", "owner_supervisor", "auto", "manual", FALSE),
     ChosenProfile("contributor", args.implementerProfile, ImplementerProfile(t),
                   args.agent, args.agent # "manual")}
    \cup (IF Mode(t) = "team"
          THEN {ChosenProfile("reviewer", args.reviewerProfile, ReviewerProfile(t),
                              reviewer, FALSE)} ELSE {})
    \cup (IF Mode(t) = "solo" THEN {}
          ELSE {Role("monitor", "manual_monitor", "auto", "manual", FALSE)})

\* assertProviderRoleCapability, which the validator repeats.
CapableRole(r) ==
    /\ r.role \in Serves(r.provider)
    /\ RoleOf(r.profile) = r.role
    /\ r.source = "override" => r.role \in {"contributor", "reviewer"}
    /\ r.write => WriteAllowed(r.provider)

Players(roles, role) == {r.provider : r \in {x \in roles : x.role = role}}

\* Mutant of StrategyMode: a manual reviewer counts as another provider.
ModeOfOtherReviewer(implementer, reviewers) ==
    IF implementer = "manual" THEN "manual"
    ELSE IF reviewers \subseteq {implementer} THEN "single_provider"
    ELSE "single_provider_with_read_only_reviewer"

StrategyMode(implementer, reviewers) ==
    IF implementer = "manual" THEN "manual"
    ELSE IF reviewers \subseteq {implementer, "manual"} THEN "single_provider"
    ELSE "single_provider_with_read_only_reviewer"

Built(t, args, reviewer) ==
    LET roles == Roles(t, args, reviewer)
    IN [task |-> t, roles |-> roles, monitorRequired |-> Mode(t) # "solo",
        mode |-> StrategyMode(args.agent, Players(roles, "reviewer")),
        primary |-> args.agent]

\* validateOrchestrationPlanData: of a plan just built, or of one that is read.
ValidPlan(p) ==
    /\ \A r \in p.roles : CapableRole(r)
    /\ p.mode = "single_provider" =>
           Players(p.roles, "reviewer") \subseteq {p.primary, "manual"}
    /\ p.mode = "single_provider_with_read_only_reviewer" =>
           \E reviewer \in Players(p.roles, "reviewer") :
               reviewer # p.primary /\ ~WriteAllowed(reviewer)
    /\ p.monitorRequired => Players(p.roles, "monitor") # {}

-----------------------------------------------------------------------------
(* The command                                                             *)

Args == [agent : Providers, reviewer : Providers \cup {LeftOut},
         implementerProfile : (Profiles \cap ImplementerProfiles) \cup {LeftOut},
         reviewerProfile : (Profiles \cap ReviewerProfiles) \cup {LeftOut}]

\* buildPlan without its last check.
PlanFor(t, args) ==
    LET reviewer == IF args.reviewer = LeftOut THEN args.agent ELSE args.reviewer
    IN IF \/ args.reviewerProfile # LeftOut /\ Mode(t) # "team"
          \/ args.agent = "gemini"
          \/ ~ReviewerCompatible(args.agent, reviewer)
       THEN Refused
       ELSE Built(t, args, reviewer)

PlanInit == taskStatus = [t \in Ids |-> "todo"] /\ plan = Refused

Plan(asked, args) ==
    /\ plan' = IF Selected(asked) = {} THEN Refused
               ELSE PlanFor(CHOOSE t \in Selected(asked) : TRUE, args)
    /\ UNCHANGED taskStatus

\* p2a_tasks moves a task on.
Progress(t) ==
    /\ \/ IsReady(t) /\ taskStatus' = [taskStatus EXCEPT ![t] = "in_progress"]
       \/ taskStatus[t] = "in_progress" /\ taskStatus' = [taskStatus EXCEPT ![t] = "done"]
       \/ taskStatus[t] = "done" /\ taskStatus' = [taskStatus EXCEPT ![t] = "todo"]
    /\ UNCHANGED plan

PlanNext == \/ \E asked \in Ids \cup {LeftOut}, args \in Args : Plan(asked, args)
        \/ \E t \in Ids : Progress(t)

PlanSpec == PlanInit /\ [][PlanNext]_planVars

-----------------------------------------------------------------------------
Writers == {r.provider : r \in {x \in plan.roles : x.write}}

\* Whatever is asked for, the plan that is built passes the check it is read
\* with later; one provider at most writes, a person decides over what a monitor
\* must confirm, and a reviewer of another provider cannot write.
PlansAreAccepted ==
    plan # Refused =>
        /\ ValidPlan(plan)
        /\ Cardinality(Writers) <= 1
        /\ \A r \in plan.roles :
             /\ r.role = "monitor" => r.provider = "manual"
             /\ r.role = "reviewer" =>
                  r.provider = "manual" \/ {r.provider} = Writers \/ ~WriteAllowed(r.provider)
=============================================================================
