------------------------- MODULE MCIterationLifecycle --------------------------
(***************************************************************************)
(* The iterations of a project, the task graph of one of them as its spec  *)
(* changes, and the proposals mined from runs.  Each behaviour runs one of *)
(* them, the others stay as they started:                                  *)
(*   "iterations"  three of them, one command that dies, one file          *)
(*                 operation that fails, one --force,                      *)
(*   "closes"      the same with two, to check that a close completes,     *)
(*   "tasks"       a field that answers affect, one they do not, the tests *)
(*                 and the answers, three edits, and twice a forced diff   *)
(*                 or the promotion of a draft,                            *)
(*   "proposals"   two runs that failed, were doubted or were blocked, and *)
(*                 two people who approve, one of whose commands dies.     *)
(***************************************************************************)
EXTENDS IterationLifecycle, Proposals, SemanticDiff

CONSTANT Focus

VARIABLE focus

-----------------------------------------------------------------------------
TwoIterations == INSTANCE IterationLifecycle WITH MaxIteration <- 2

AreaOrderDef == <<"api">>

\* Two tasks somebody wrote, under areas of their own: the titles name other areas.
TaskNumbered(id, area, words, refs, deps) ==
    [id |-> id, area |-> area, words |-> words, refs |-> refs, deps |-> deps, status |-> "todo"]

AuthoredDef == {<<TaskNumbered(3, "other", {"api"}, {"f"}, {}),
                  TaskNumbered(1, "verification", {"requirements", "misc"}, {}, {3})>>}

Outcome(runStatus, class, source, verified, verdict) ==
    [status |-> runStatus, class |-> class, source |-> source, verified |-> verified,
     verdict |-> verdict]

OutcomesDef ==
    {Outcome("failed", "scope_violation", "command", TRUE, "none"),
     Outcome("finished", "none", "none", FALSE, "rejected"),
     Outcome("blocked", "test_flake", "monitor", TRUE, "rejected")}

-----------------------------------------------------------------------------
MCInit == /\ focus \in Focus /\ Init /\ DiffInit /\ ProposalsInit
          /\ focus \notin {"iterations", "closes"} => moved = 0
          /\ focus # "proposals" => \A r \in Runs : log[r].status = "failed"

IterationStep == /\ \/ focus = "iterations" /\ Next
                    \/ focus = "closes" /\ TwoIterations!Next
                 /\ UNCHANGED <<focus, diffVars, proposalVars>>

TaskStep     == focus = "tasks" /\ DiffNext /\ UNCHANGED <<focus, vars, proposalVars>>

ProposalStep == focus = "proposals" /\ ProposalsNext /\ UNCHANGED <<focus, vars, diffVars>>

MCSpec == /\ MCInit
          /\ [][IterationStep \/ TaskStep \/ ProposalStep]_
                <<focus, vars, diffVars, proposalVars>>

-----------------------------------------------------------------------------
\* What was interrupted, a close or an approval, is completed by giving it again.
InterruptedWorkCompletes ==
    /\ focus = "closes"
       /\ WF_vars(focus = "closes" /\ Write)
       /\ SF_vars(focus = "closes" /\ TwoIterations!Work)
       /\ SF_vars(focus = "closes" /\ TwoIterations!CloseAgain)
           => TwoIterations!InterruptedCloseCompletes
    /\ focus = "proposals"
       /\ WF_proposalVars(focus = "proposals" /\ WriteApproval)
       /\ (\A who \in Approvers :
               SF_proposalVars(focus = "proposals" /\ ApproveAgain(who)))
           => InterruptedApprovalCompletes
=============================================================================
