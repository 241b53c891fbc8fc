------------------------------ MODULE Proposals ------------------------------
(***************************************************************************)
(* What p2a_proposals makes of the runs that are logged: proposals mined   *)
(* from them, reviewed in groups, curated into candidates, drafted, and,   *)
(* approved by a person, turned into tasks of the maintenance graph.       *)
(*                                                                         *)
(* Every document is a file of its own whose name is a hash of what it     *)
(* says: here a document is its own identity.  An approval writes two      *)
(* files, the task graph first, and may die between them.                  *)
(***************************************************************************)
EXTENDS Naturals, Sequences, FiniteSets

CONSTANTS Runs, Outcomes,   \* run logs, and what they may say: see OutcomeType
          Decisions,        \* of a person on a proposal
          Approvers, MaxReviews, MaxDrafts, MaxApprovalDeaths, MaxOverwrites

VARIABLES log,         \* the outcome of each run
          queue,       \* the proposals on file
          reviews, curations, drafts,
          tasks,       \* the maintenance task graph
          approvals,   \* the approval files
          approving,   \* the approval under way has still to write its file
          approvalDeaths,
          overwrites   \* how often proposals were mined with --overwrite

proposalVars == <<log, queue, reviews, curations, drafts, tasks, approvals, approving, approvalDeaths,
                  overwrites>>

Nothing   == {}

Classes == {"verification_failed", "test_flake", "scope_violation", "missing_dependency",
            "environment_failure", "implementation_incomplete", "other"}

\* A run file that does not validate is skipped; a sidecar or a verdict that
\* does not, or that is not there, counts as none.
OutcomeType == [status : {"finished", "failed", "blocked", "unreadable"},
                class : Classes \cup {"none"}, source : {"none", "command", "monitor"},
                verified : BOOLEAN, verdict : {"none", "accepted", "rejected"}]

ASSUME LogsAssumption == IsFiniteSet(Runs) /\ Outcomes \subseteq OutcomeType

ProposalsInit ==
    /\ log \in [Runs -> Outcomes]
    /\ queue = {} /\ reviews = {} /\ curations = {} /\ drafts = {}
    /\ tasks = <<>> /\ approvals = {} /\ approving = Nothing /\ approvalDeaths = 0
    /\ overwrites = 0

-----------------------------------------------------------------------------
(* mine                                                                    *)

RiskForFailure(class) ==
    CASE class \in {"scope_violation", "missing_dependency"} -> "high"
      [] class \in {"environment_failure", "test_flake"} -> "low"
      [] OTHER -> "medium"

NewProposal(r, class, risk) ==
    [run |-> r, class |-> class, risk |-> risk, status |-> "proposed"]

FailureProposal(r) ==
    {NewProposal(r, log[r].class, RiskForFailure(log[r].class)) :
        x \in {y \in {r} : log[r].status \in {"failed", "blocked"} /\ log[r].class # "none"}}

GapProposal(r) ==
    {NewProposal(r, "verification_gap", "medium") :
        x \in {y \in {r} : log[r].status = "finished" /\ ~log[r].verified}}

MonitorProposal(r) ==
    {NewProposal(r, "monitor_gate_mismatch", "medium") :
        x \in {y \in {r} : log[r].verdict = "rejected" /\ log[r].source # "monitor"}}

ProposalsForRun(r) == FailureProposal(r) \cup GapProposal(r) \cup MonitorProposal(r)

Readable(r) == log[r].status # "unreadable"

SameId(p, q) == p.run = q.run /\ p.class = q.class

\* Mutant of Written: a proposal that is on file is written again unasked.
WrittenOver(mined, overwrite) == {p \in queue : ~\E q \in mined : SameId(p, q)} \cup mined

\* A proposal that is on file stays as it is, unless mine was told to overwrite.
Written(mined, overwrite) ==
    IF overwrite
      THEN {p \in queue : ~\E q \in mined : SameId(p, q)} \cup mined
      ELSE queue \cup {q \in mined : ~\E p \in queue : SameId(p, q)}

Mine(rs, overwrite) ==
    /\ overwrite => overwrites < MaxOverwrites
    /\ queue' = Written(UNION {ProposalsForRun(r) : r \in {s \in rs : Readable(s)}}, overwrite)
    /\ overwrites' = IF overwrite THEN overwrites + 1 ELSE overwrites
    /\ UNCHANGED <<log, reviews, curations, drafts, tasks, approvals, approving, approvalDeaths>>

-----------------------------------------------------------------------------
(* review                                                                  *)

HighestRisk(ps) ==
    CASE \E p \in ps : p.risk = "high" -> "high"
      [] ~(\E p \in ps : p.risk = "high") /\ (\E p \in ps : p.risk = "medium") -> "medium"
      [] OTHER -> "low"

Proposed(ps) == Cardinality({p \in ps : p.status = "proposed"})

Disposition(class, ps) ==
    IF Proposed(ps) = 0 THEN "defer"
    ELSE IF class = "verification_gap" THEN "needs_more_evidence"
    ELSE IF HighestRisk(ps) = "high" \/ Cardinality(ps) >= 2 THEN "approve" ELSE "defer"

GroupOf(c, ps) ==
    LET g == {p \in ps : p.class = c}
    IN [class |-> c, proposals |-> g, risk |-> HighestRisk(g), disposition |-> Disposition(c, g)]

\* Proposals with the same classification have the same target files and the same
\* recommendation.
ReviewOf(ps) == {GroupOf(c, ps) : c \in {p.class : p \in ps}}

Review ==
    /\ Cardinality(reviews \cup {ReviewOf(queue)}) <= MaxReviews
    /\ queue # {}
    /\ reviews' = reviews \cup {ReviewOf(queue)}
    /\ UNCHANGED <<log, queue, curations, drafts, tasks, approvals, approving, approvalDeaths,
                   overwrites>>

-----------------------------------------------------------------------------
(* curate, draft-patch                                                     *)

Readiness(g) ==
    CASE g.disposition = "approve" -> "patch_candidate"
      [] g.disposition = "needs_more_evidence" -> "needs_evidence"
      [] g.disposition = "defer" /\ Proposed(g.proposals) = 0 -> "no_action"
      [] OTHER -> "watch"

Priority(g) ==
    CASE Readiness(g) = "patch_candidate" /\ g.risk = "high" -> "P0"
      [] Readiness(g) = "patch_candidate" /\ g.risk # "high" -> "P1"
      [] Readiness(g) # "patch_candidate" /\ Cardinality(g.proposals) >= 2 -> "P1"
      [] Readiness(g) = "needs_evidence" /\ Cardinality(g.proposals) < 2 -> "P2"
      [] OTHER -> "P3"

Candidate(g) == [class |-> g.class, proposals |-> g.proposals, risk |-> g.risk,
                 readiness |-> Readiness(g), priority |-> Priority(g)]

\* Every proposal the review names must still be on file, in whatever status.
Curate(review) ==
    /\ \A g \in review : \A p \in g.proposals : \E q \in queue : SameId(p, q)
    /\ curations' = curations \cup {{Candidate(g) : g \in review}}
    /\ UNCHANGED <<log, queue, reviews, drafts, tasks, approvals, approving, approvalDeaths,
                   overwrites>>

\* Any candidate can be named: with one of them it need not be.
DraftPatch(curation, candidate) ==
    /\ Cardinality(drafts \cup {<<curation, candidate>>}) <= MaxDrafts
    /\ drafts' = drafts \cup {<<curation, candidate>>}
    /\ UNCHANGED <<log, queue, reviews, curations, tasks, approvals, approving, approvalDeaths,
                   overwrites>>

-----------------------------------------------------------------------------
(* approve-draft                                                           *)

\* Mutant of TaskOf: the task is looked for by the approval.
TaskOfApproval(draft, who) == {i \in DOMAIN tasks : tasks[i].draft = draft /\ who \in tasks[i].by}

\* The task a draft has already, whoever approved it.
TaskOf(draft, who) == {i \in DOMAIN tasks : tasks[i].draft = draft}

\* The graph with the task of this draft, which names each of its approvals.
PlannedTasks(draft, who) ==
    IF TaskOf(draft, who) = {}
      THEN Append(tasks, [draft |-> draft, by |-> {who}])
      ELSE [i \in DOMAIN tasks |->
              IF i \in TaskOf(draft, who) THEN [tasks[i] EXCEPT !.by = @ \cup {who}] ELSE tasks[i]]

ApprovalOf(draft, who, task) == [draft |-> draft, by |-> who, task |-> task]

\* Mutant of ApproveDraft: a draft whose task is in the graph is refused.
ApproveDraftOnce(draft, who) ==
    /\ approving = Nothing
    /\ TaskOf(draft, who) = {}
    /\ tasks' = PlannedTasks(draft, who)
    /\ approving' = {ApprovalOf(draft, who, Len(tasks) + 1)}
    /\ UNCHANGED <<log, queue, reviews, curations, drafts, approvals, approvalDeaths,
                   overwrites>>

\* An approval on file must agree with the one asked for; the task graph is
\* written before the approval.
ApproveDraft(draft, who) ==
    /\ approving = Nothing
    /\ LET planned == PlannedTasks(draft, who)
           task    == CHOOSE i \in DOMAIN planned : planned[i].draft = draft /\ who \in planned[i].by
       IN /\ \A a \in approvals : a.draft = draft /\ a.by = who => a.task = task
          /\ tasks' = planned
          /\ approving' = {ApprovalOf(draft, who, task)}
    /\ UNCHANGED <<log, queue, reviews, curations, drafts, approvals, approvalDeaths,
                   overwrites>>

WriteApproval ==
    /\ approving # Nothing
    /\ approvals' = approvals \cup approving
    /\ approving' = Nothing
    /\ UNCHANGED <<log, queue, reviews, curations, drafts, tasks, approvalDeaths,
                   overwrites>>

DieApproving ==
    /\ approving # Nothing /\ approvalDeaths < MaxApprovalDeaths
    /\ approvalDeaths' = approvalDeaths + 1 /\ approving' = Nothing
    /\ UNCHANGED <<log, queue, reviews, curations, drafts, tasks, approvals,
                   overwrites>>

-----------------------------------------------------------------------------
(* What happens around it                                                  *)

\* A person marks a proposal in its file.
Mark(p, status) ==
    /\ p.status = "proposed"
    /\ queue' = (queue \ {p}) \cup {[p EXCEPT !.status = status]}
    /\ UNCHANGED <<log, reviews, curations, drafts, tasks, approvals, approving, approvalDeaths,
                   overwrites>>

MineAny == \E overwrite \in BOOLEAN :
               Mine(Runs, overwrite) \/ \E r \in Runs : Mine({r}, overwrite)

ProposalsNext ==
    \/ approving = Nothing /\ MineAny
    \/ approving = Nothing /\ Review
    \/ approving = Nothing /\ \E r \in reviews : Curate(r)
    \/ approving = Nothing /\ \E c \in curations : \E k \in c : DraftPatch(c, k)
    \/ \E d \in drafts : \E who \in Approvers : ApproveDraft(d, who)
    \/ WriteApproval \/ DieApproving
    \/ \E p \in queue : \E s \in Decisions : Mark(p, s)

ProposalsSpec == ProposalsInit /\ [][ProposalsNext]_proposalVars

\* An approval that was interrupted, given again by whoever gave it.
ApproveAgain(who) ==
    \E d \in drafts : /\ \E i \in DOMAIN tasks : tasks[i].draft = d /\ who \in tasks[i].by
                      /\ ~\E a \in approvals : a.draft = d /\ a.by = who
                      /\ ApproveDraft(d, who)

-----------------------------------------------------------------------------
(* Properties                                                              *)

\* Approved work is tracked: the task an approval names is in the graph, made
\* from the draft that was approved and naming the approval, and a draft has one
\* task however many people approve it, again or after an interruption.
ApprovedWorkIsTracked ==
    /\ \A a \in approvals : /\ a.task \in DOMAIN tasks
                            /\ tasks[a.task].draft = a.draft /\ a.by \in tasks[a.task].by
    /\ \A i, j \in DOMAIN tasks : tasks[i].draft = tasks[j].draft => i = j

\* What a person decided on a proposal outlives every other mine, review and
\* decision; it is taken back only by a mine that was told to overwrite, and then
\* the proposal is on file to be decided again, its risk what it was.
DecisionsSurviveMining ==
    [][\A p \in queue : p.status # "proposed" =>
          \/ p \in queue'
          \/ /\ overwrites' # overwrites
             /\ [p EXCEPT !.status = "proposed"] \in queue']_proposalVars

\* What is offered as a patch candidate rests on a risky failure or on several
\* runs that ended alike, as their logs say; never on missing verification.
CandidatesAreEarned ==
    \A c \in curations : \A k \in c : k.readiness = "patch_candidate" =>
        \/ \E r \in Runs : log[r].class = k.class
                           /\ RiskForFailure(k.class) = "high"
        \/ Cardinality({r \in Runs : log[r].class = k.class}) >= 2
        \/ /\ k.class = "monitor_gate_mismatch"
           /\ Cardinality({r \in Runs : log[r].verdict = "rejected"}) >= 2

\* Approved work has its one task, and a candidate is earned by the runs.
ProposalsAreEarned == ApprovedWorkIsTracked /\ CandidatesAreEarned

\* An approval whose command died after it wrote the task graph is on file in
\* the end.
InterruptedApprovalCompletes ==
    \A who \in Approvers :
        (\E i \in DOMAIN tasks : /\ who \in tasks[i].by
                                 /\ ~\E a \in approvals : a.task = i /\ a.by = who)
        ~> (\A i \in DOMAIN tasks : who \in tasks[i].by =>
                                    \E a \in approvals : a.task = i /\ a.by = who)
=============================================================================
