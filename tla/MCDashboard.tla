----------------------------- MODULE MCDashboard -------------------------------
(***************************************************************************)
(* The parts of the dashboard.  Each behaviour runs one of them, the       *)
(* others stay as they started:                                            *)
(*   "calls"    a call through the BFF, which shares nothing with others,  *)
(*              and one crash of the BFF,                                  *)
(*   "tree"     an artifact tree of two projects, with an iteration in one *)
(*              of them,                                                   *)
(*   "search"   addresses a person may type, search texts and settings,    *)
(*              answers of up to three pages,                              *)
(*   "reader"   a spec that names a task, its copy in another iteration,   *)
(*              and two tasks that go by that name,                        *)
(*   "trace"    every graph of eight edges between four nodes, built edge  *)
(*              by edge, traced in every direction and to every depth, and *)
(*              laid out.                                                  *)
(***************************************************************************)
EXTENDS BffRequest, ArtifactTree, SearchNavigation, BrowseReader, TraceView

CONSTANT Focus

VARIABLE focus

Paths == << <<"p1">>, <<"p1", "i1">>, <<"p2">> >>

ArtifactsDef == {"spec", "copy", "task", "twin"}
HomeDef  == [a \in ArtifactsDef |-> IF a = "copy" THEN "it2" ELSE "it1"]
KindDef  == [a \in ArtifactsDef |-> IF a \in {"spec", "copy"} THEN "product_spec" ELSE "none"]
RefsDef  == [a \in ArtifactsDef |-> IF a = "spec" THEN {"t1"} ELSE {}]
NamedDef == [r \in {"t1"} |-> {"task", "twin"}]

Edge(from, to) == [from |-> from, to |-> to]

FourNodes == <<"n1", "n2", "n3", "n4">>

\* Cycles of two, three and four nodes, a diamond, and shortcuts past them.
TracedEdges ==
    <<Edge("n1", "n2"), Edge("n1", "n3"), Edge("n2", "n3"), Edge("n2", "n4"),
      Edge("n3", "n1"), Edge("n3", "n4"), Edge("n4", "n1"), Edge("n4", "n2")>>

\* Five edges are of a type that makes lineage, on a cycle and off it.
LineageEdges == {Edge("n1", "n2"), Edge("n2", "n3"), Edge("n3", "n1"), Edge("n3", "n4"), Edge("n4", "n1")}

\* TLC keeps the value of a definition, not of one that stands for a constant.
NodeOrderDef == FourNodes
EdgeOrderDef == TracedEdges
PrimaryDef   == LineageEdges
OrderDef     == Paths

-----------------------------------------------------------------------------
MCInit == focus \in Focus /\ Init /\ TreeInit /\ SearchInit /\ ReaderInit /\ ViewInit

CallStep   == focus = "calls" /\ Next
              /\ UNCHANGED <<focus, treeVars, searchVars, readerVars, viewVars>>
TreeStep   == focus = "tree" /\ TreeNext
              /\ UNCHANGED <<focus, vars, searchVars, readerVars, viewVars>>
SearchStep == focus = "search" /\ SearchNext
              /\ UNCHANGED <<focus, vars, treeVars, readerVars, viewVars>>
ReaderStep == focus = "reader" /\ ReaderNext
              /\ UNCHANGED <<focus, vars, treeVars, searchVars, viewVars>>
TraceStep  == focus = "trace" /\ ViewNext
              /\ UNCHANGED <<focus, vars, treeVars, searchVars, readerVars>>

MCSpec == /\ MCInit
          /\ [][CallStep \/ TreeStep \/ SearchStep \/ ReaderStep \/ TraceStep]_
                <<focus, vars, treeVars, searchVars, readerVars, viewVars>>

-----------------------------------------------------------------------------
\* Under the fairness of the BFF, whatever the backend does or fails to do, the
\* caller gets an answer.
CallsAreAnswered ==
    focus = "calls"
    /\ (\A c \in Calls : /\ WF_vars(focus = "calls" /\ TimerFires(c))
                         /\ WF_vars(focus = "calls" /\ Catch(c))
                         /\ WF_vars(focus = "calls" /\ Deliver(c)))
    => EveryCallIsAnswered
=============================================================================
