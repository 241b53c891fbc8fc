---------------------------- MODULE MCOrchestration ----------------------------
(***************************************************************************)
(* A supervised run, the plan it starts from, and the gates of the         *)
(* artifacts the plan is made from.  Each behaviour runs one of them, the  *)
(* others stay as they started:                                            *)
(*   "run"    the roles of one run, whose owner acts on hints,             *)
(*   "run by hand"  the same with one question, and an event recorded by   *)
(*            hand: it is checked to end too,                              *)
(*   "plan"   a plain task, one that spans areas, and one with many        *)
(*            criteria that waits for both, planned with every option,     *)
(*   "gates"  one decision, one question that may become a second one,     *)
(*            and six graphs.                                              *)
(***************************************************************************)
EXTENDS Orchestration, OrchestrationPlan, ArtifactGates

CONSTANT Focus

VARIABLE focus

\* By hand: results that move the phase, a verdict of each kind, roles marked out
\* of turn, the phase set, and trouble taken back or added.
RecordedDef ==
    {Note("implementer", "verification"), Note("owner", "decision"), Note("owner", "answer"),
     Event("implementer", "status", "complete", None, None, FALSE, None),
     Event("implementer", "status", "active", "running", None, FALSE, None),
     Event("reviewer", "status", "pending", None, None, FALSE, None),
     Event("monitor", "status", "complete", "ready_to_finish", None, FALSE, None),
     Event("implementer", "concern", "blocked", "running", None, TRUE, None),
     Event("owner", "owner_note", None, "closed", None, FALSE, None)}
      \cup {Event("monitor", "monitor_verdict", None, None, None, FALSE, verdict) :
               verdict \in {None, "accepted", "rejected"}}

\* The same run with one question, and one event recorded by hand, which may raise a
\* concern or send a role back.
ByHand == INSTANCE Orchestration WITH
    MaxQuestions <- 1, MaxConcerns <- 0, MaxRedos <- 0, MaxRecords <- 1

-----------------------------------------------------------------------------
Task(area, text, multiArea, criteria, dependencies) ==
    [area |-> area, text |-> text, multiArea |-> multiArea, criteria |-> criteria,
     dependencies |-> dependencies]

\* Five and six criteria: from six on a task needs a monitor.
TasksDef ==
    [t \in {"t1", "t2", "t3"} |->
        CASE t = "t1" -> Task({"docs"}, {"frontend"}, FALSE, 5, {})
          [] t = "t2" -> Task({"frontend", "backend"}, {"security"}, TRUE, 1, {})
          [] t = "t3" -> Task({}, {}, FALSE, 6, {"t1", "t2"})]

TaskGraph(a, b, c) ==
    [t \in {"t1", "t2", "t3"} |-> CASE t = "t1" -> a [] t = "t2" -> b [] t = "t3" -> c]

\* A chain, a diamond, cycles of one, two and three tasks, and an unknown task.
TaskGraphsDef ==
    {TaskGraph({}, {"t1"}, {"t2"}), TaskGraph({}, {"t1"}, {"t1", "t2"}),
     TaskGraph({"t1"}, {}, {}), TaskGraph({}, {"t3"}, {"t2"}),
     TaskGraph({"t2"}, {"t3"}, {"t1"}), TaskGraph({}, {}, {"t9"})}

PromotedDef == [q \in {"q1"} |-> "promoted decision"]

-----------------------------------------------------------------------------
MCInit == /\ focus \in Focus /\ Init /\ PlanInit /\ GateInit
          /\ focus \notin {"run", "run by hand"} => DOMAIN rt.roles = RolesOf("solo")

RunStep  == /\ \/ focus = "run" /\ Next
               \/ focus = "run by hand" /\ ByHand!Next
            /\ UNCHANGED <<focus, planVars, gateVars>>
PlanStep == focus = "plan" /\ PlanNext /\ UNCHANGED <<focus, vars, gateVars>>
GateStep == focus = "gates" /\ GateNext /\ UNCHANGED <<focus, vars, planVars>>

MCSpec == /\ MCInit
          /\ [][RunStep \/ PlanStep \/ GateStep]_<<focus, vars, planVars, gateVars>>

-----------------------------------------------------------------------------
\* Under the fairness of the owner, a run comes to an end.
RunsEnd ==
    /\ focus = "run by hand"
    /\ WF_vars(focus = "run by hand" /\ ByHand!OwnerStep)
    => EveryRunEnds
=============================================================================
