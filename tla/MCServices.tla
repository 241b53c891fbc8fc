------------------------------ MODULE MCServices -------------------------------
(***************************************************************************)
(* The embedding provider, the artifact graph and the planning writes.     *)
(* Each behaviour runs one of them, the others stay as they started:       *)
(*   "provider"   a task and a search read the fields of the provider,     *)
(*   "graph"      one iteration that is sent with the same nodes in both   *)
(*                orders and with neither of them; and a project-level     *)
(*                snapshot that shares a key and a node id with it, or has *)
(*                an edge that leaves it,                                  *)
(*   "planning"   graph g1 of iteration i1 is stored with one task, and    *)
(*                clients propose the same graphs and runs under different *)
(*                ids, and the same tasks under different ids, in          *)
(*                different orders, and in another iteration,              *)
(*   "graph answers" and "planning answers"  the last two with fewer       *)
(*                requests, to check that everybody is answered.           *)
(***************************************************************************)
EXTENDS ProviderLifecycle, ArtifactGraph, PlanningWrites

CONSTANT Focus    \* the components to run

VARIABLE focus

-----------------------------------------------------------------------------
Row(id, key) == [id |-> id, key |-> key]
Edge(from, to) == [from |-> from, to |-> to]
Snapshot(scope, rows, links) == [scope |-> scope, nodes |-> rows, edges |-> links]
Query(scope, key, direction) ==
    [scope |-> scope, key |-> key, direction |-> direction, maxDepth |-> 1]

BodiesDef == {
    Snapshot("i1", <<Row("a", "k1"), Row("b", "k2")>>, {Edge("b", "a")}),
    Snapshot("i1", <<Row("b", "k2"), Row("a", "k1")>>, {Edge("a", "b"), Edge("b", "a")}),
    Snapshot("i1", <<Row("c", "k3")>>, {}),
    Snapshot("project", <<Row("d", "k1"), Row("c", "k3")>>, {Edge("d", "c")}),
    Snapshot("project", <<Row("d", "k1")>>, {Edge("d", "b")})}

ScopesDef == {"i1", "project"}

QueriesDef == {Query("anywhere", "k1", "both"), Query("i1", "k1", "upstream")}

\* The same without traces, and with a request of each client, or two of one.
GraphAnswers == INSTANCE ArtifactGraph WITH Queries <- {}, MaxReplacements <- 2

-----------------------------------------------------------------------------
TaskGraph(id, iteration, source, hash) ==
    [id |-> id, key |-> <<iteration, source>>, body |-> hash]
Task(id, graph, iteration, source, deps) ==
    [id |-> id, key |-> <<iteration, source>>, body |-> [graph |-> graph, deps |-> deps]]
Run(id, source, task) == [id |-> id, key |-> <<"i1", source>>, body |-> task]

StoredGraphsDef == {TaskGraph("g1", "i1", "plan", "h1")}

StoredTasksDef == {Task("A", "g1", "i1", "first", {})}

GraphsDef == {TaskGraph("g1", "i1", "plan", "h2"), TaskGraph("g2", "i1", "plan", "h2"),
              TaskGraph("g2", "i1", "fix", "h1"), TaskGraph("g2", "i2", "plan", "h1"),
              TaskGraph("g3", "i2", "plan", "h1")}

BatchesDef ==
    {<<Task("A", "g1", "i1", "first", {}), Task("B", "g1", "i1", "second", {"A"})>>,
     <<Task("B", "g1", "i1", "second", {}), Task("A", "g1", "i1", "first", {"B"})>>,
     <<Task("C", "g1", "i1", "second", {"A"})>>,
     <<Task("C", "g1", "i1", "first", {}), Task("B", "g1", "i1", "second", {"C"})>>,
     <<Task("A", "g2", "i2", "first", {})>>}

RunsDef == {Run("r1", "one", "A"), Run("r1", "two", "A"), Run("r2", "one", "A"),
            Run("r1", "one", "B")}

PlanningAnswers == INSTANCE PlanningWrites WITH MaxSaves <- 2

-----------------------------------------------------------------------------
MCInit == focus \in Focus /\ Init /\ GraphInit /\ SavesInit

ProviderStep == focus = "provider" /\ Next /\ UNCHANGED <<focus, graphVars, saveVars>>

GraphStep == /\ \/ focus = "graph" /\ GraphNext
                \/ focus = "graph answers" /\ GraphAnswers!GraphNext
             /\ UNCHANGED <<focus, vars, saveVars>>

PlanningStep == /\ \/ focus = "planning" /\ SavesNext
                   \/ focus = "planning answers" /\ PlanningAnswers!SavesNext
                /\ UNCHANGED <<focus, vars, graphVars>>

MCSpec == /\ MCInit
          /\ [][ProviderStep \/ GraphStep \/ PlanningStep]_<<focus, vars, graphVars, saveVars>>

-----------------------------------------------------------------------------
\* Under the fairness of each component, initialization settles and every request
\* is answered.
EverythingSettles ==
    /\ focus = "provider" /\ WF_vars(focus = "provider" /\ Initialize)
           => InitializationSettles
    /\ focus = "graph answers"
       /\ (\A c \in Replacers :
              WF_graphVars(focus = "graph answers" /\ GraphAnswers!ReplaceStep(c)))
           => GraphAnswers!EveryReplacementEnds
    /\ focus = "planning answers"
       /\ (\A c \in Savers :
              WF_saveVars(focus = "planning answers" /\ PlanningAnswers!SaveStep(c)))
           => PlanningAnswers!EveryWriteEnds
=============================================================================
