------------------------- MODULE IterationLifecycle --------------------------
(***************************************************************************)
(* The iterations of one project, as p2a_iteration keeps them in files: a  *)
(* directory for each iteration, current-spec.json, and the active pointer *)
(* in status.md.  A command reads the files, decides, and then writes one  *)
(* file after the other; it may die between two writes.  Commands come one *)
(* at a time.                                                              *)
(*                                                                         *)
(* A spec is the set of changes it carries: a draft appends its own change *)
(* to nearly every field of the baseline it is built from.                 *)
(***************************************************************************)
EXTENDS Naturals, Sequences, FiniteSets, SequencesExt, FiniteSetsExt

CONSTANTS MaxIteration,  \* iterations are numbered in the order they are opened
          MaxDeaths,     \* commands that are killed
          MaxFailures,   \* file operations of init that fail
          MaxForces      \* commands given with --force

ASSUME Bounds == MaxIteration \in Nat \ {0} /\ MaxDeaths \in Nat /\ MaxFailures \in Nat /\ MaxForces \in Nat

VARIABLES current,   \* current-spec.json
          status,    \* status.md: the active pointer and the approvals shown
          iter,      \* iterations/<id>
          moved,     \* how many of the four greenfield gates init has moved
          todo,      \* the writes the command under way has still to make
          deaths, failures, forces

vars == <<current, status, iter, moved, todo, deaths, failures, forces>>

Ids   == 1 .. MaxIteration
Gates == 4

NoRef    == 0                    \* what effective_spec_ref may name: nothing,
TheView  == MaxIteration + 1     \* the spec of an iteration, or current-spec.json
NoFile   == [active |-> 0, closed |-> {}]
NoSpec   == [approved |-> FALSE, changes |-> {}]
NoGraph  == [tasks |-> "none", rev |-> 0]
NoPending == [id |-> 0, base |-> NoRef]

Skeleton == [exists |-> TRUE, meta |-> "none", base |-> NoRef, intake |-> FALSE,
             spec |-> NoSpec, draft |-> FALSE, graph |-> NoGraph, review |-> FALSE]
NoDir    == [Skeleton EXCEPT !.exists = FALSE]

\* What a close hashes: the artifacts of the four gates.
Artifacts(i) == [intake |-> iter[i].intake, spec |-> iter[i].spec,
                 graph |-> iter[i].graph, review |-> iter[i].review]

Greenfield == [Skeleton EXCEPT !.intake = TRUE, !.spec = [approved |-> TRUE, changes |-> {1}],
                               !.graph = [tasks |-> "open", rev |-> 0], !.review = TRUE]

\* A project begins with the four gates of a first plan at its root, or with the
\* empty first iteration of a scaffold.
Init ==
    /\ \/ /\ current = NoFile /\ status = NoFile
          /\ iter = [i \in Ids |-> NoDir]
          /\ moved = 0
       \/ /\ current = [active |-> 1, composed |-> <<>>, ref |-> NoRef, view |-> {},
                        decisions |-> FALSE, closed |-> {}, last |-> 0,
                        pending |-> [id |-> 1, base |-> NoRef], audits |-> {}]
          /\ status = [active |-> 1, gateB |-> FALSE, gateC |-> FALSE]
          /\ iter = [i \in Ids |-> IF i = 1 THEN [Skeleton EXCEPT !.meta = "active_planning",
                                                                  !.intake = TRUE]
                                            ELSE NoDir]
          /\ moved = Gates
    /\ todo = <<>> /\ deaths = 0 /\ failures = 0 /\ forces = 0

-----------------------------------------------------------------------------
(* Reading: what the commands require                                      *)

Active == current.active

\* resolveIterationState: both files name the same iteration, which is there,
\* and the effective spec is a file.
Resolvable ==
    /\ Active # 0 /\ status.active = Active
    /\ iter[Active].exists
    /\ current.ref \in Ids => iter[current.ref].exists /\ iter[current.ref].spec # NoSpec

SpecApproved(i) == iter[i].spec # NoSpec /\ iter[i].spec.approved

\* validateReadyIterationArtifacts
Ready ==
    /\ Resolvable
    /\ ~current.decisions
    /\ SpecApproved(Active) /\ status.gateB
    /\ iter[Active].graph # NoGraph /\ iter[Active].review

AllDone(i) == iter[i].graph.tasks = "done"

ClosedIds(cur) == {c.id : c \in cur.closed}

\* assertArchivedBaselineForOpen
ArchivedBaseline(i) ==
    /\ current.pending = NoPending
    /\ iter[i].meta = "archived"
    /\ i \in ClosedIds(current) /\ current.last = i
    /\ Cardinality(current.closed) > 1 => current.ref = TheView
    /\ ~current.decisions

\* The changes carried by the spec a reference names.
Baseline(ref) == IF ref = TheView THEN current.view ELSE iter[ref].spec.changes

-----------------------------------------------------------------------------
(* Writing: one file at a time                                             *)

Idle == todo = <<>>

ToCurrent(cur)     == [file |-> "current", value |-> cur]
ToIteration(i, v)  == [file |-> "iteration", id |-> i, value |-> v]

\* status.md is rendered anew from current-spec.json: an approval of Gate B is
\* kept there, one of Gate C is not.
ToStatus(cur) ==
    [file |-> "status",
     value |-> [active |-> cur.active, gateB |-> cur.active \in cur.audits, gateC |-> FALSE]]

\* The fields of v are written, the others stay.
Updated(it, v) == [f \in DOMAIN it |-> IF f \in DOMAIN v THEN v[f] ELSE it[f]]

Command(writes) ==
    /\ todo' = writes
    /\ UNCHANGED <<current, status, iter, moved, deaths, failures>>

Plain  == UNCHANGED forces
Forced == forces < MaxForces /\ forces' = forces + 1

Write ==
    /\ ~Idle
    /\ LET w == Head(todo)
       IN /\ current' = IF w.file = "current" THEN w.value ELSE current
          /\ status' = IF w.file = "status" THEN w.value ELSE status
          /\ iter' = IF w.file = "iteration"
                       THEN [iter EXCEPT ![w.id] = Updated(@, w.value)] ELSE iter
          /\ moved' = IF w.file = "gate" THEN moved + 1 ELSE moved
    /\ todo' = Tail(todo)
    /\ UNCHANGED <<deaths, failures, forces>>

\* A command that is killed leaves what it has written.
Die ==
    /\ ~Idle /\ deaths < MaxDeaths
    /\ deaths' = deaths + 1
    /\ todo' = <<>>
    /\ UNCHANGED <<current, status, iter, moved, failures, forces>>

-----------------------------------------------------------------------------
(* init: the greenfield gates become the first iteration                   *)

\* The last thing init writes is the README of the maintenance directory, which
\* nothing reads.
Readme == [file |-> "readme"]

Initialising == ~Idle /\ Last(todo) = Readme

FirstCurrent ==
    [active |-> 1, composed |-> <<1>>, ref |-> 1, view |-> {}, decisions |-> FALSE,
     closed |-> {}, last |-> 0, pending |-> NoPending, audits |-> {1}]

\* preflight refuses a project that has an iterations directory already.
InitProject ==
    /\ Idle /\ Active = 0 /\ moved = 0 /\ ~iter[1].exists
    /\ Command(<<ToIteration(1, Skeleton)>>
                 \o [g \in 1 .. Gates |-> [file |-> "gate"]]
                 \o <<ToIteration(1, Greenfield), ToCurrent(FirstCurrent),
                      ToStatus(FirstCurrent), Readme>>)
    /\ Plain

\* A file operation of init that fails: what was moved is moved back, and the
\* pointers stay as far as they are written.
Fail ==
    /\ Initialising /\ failures < MaxFailures
    /\ failures' = failures + 1
    /\ todo' = <<>> /\ moved' = 0
    /\ iter' = [iter EXCEPT ![1] = IF @.exists THEN Skeleton ELSE @]
    /\ UNCHANGED <<current, status, deaths, forces>>

-----------------------------------------------------------------------------
(* The other commands                                                      *)

\* Directories and metadata first, then the pointers.
Open(i) ==
    /\ Idle /\ Ready /\ AllDone(Active) /\ ArchivedBaseline(Active)
    /\ \A j \in Ids : iter[j].exists <=> j < i
    /\ LET cur == [current EXCEPT !.active = i, !.pending = [id |-> i, base |-> current.ref]]
       IN Command(<<ToIteration(i, Skeleton),
                    ToIteration(i, [meta |-> "active_planning", base |-> current.ref]),
                    ToCurrent(cur), ToStatus(cur)>>)
    /\ Plain

\* The draft is built from the baseline the iteration was opened on, which must
\* still be the effective one, or for a first iteration from its intake.
Draft ==
    /\ Idle /\ Resolvable
    /\ LET p == current.pending
           i == Active
       IN /\ p.id = i /\ iter[i].meta # "none"
          /\ p.base # NoRef => p.base = current.ref /\ ~current.decisions
          /\ p.base = NoRef => iter[i].intake
          /\ IF iter[i].spec # NoSpec \/ (p.base # NoRef /\ iter[i].intake) THEN Forced ELSE Plain
          /\ LET spec == [approved |-> FALSE,
                          changes |-> {i} \cup IF p.base = NoRef THEN {} ELSE Baseline(p.base)]
             IN Command(<<ToIteration(i, [intake |-> TRUE]), ToIteration(i, [spec |-> spec]),
                          ToIteration(i, [meta |-> "gate_b_draft"]),
                          ToCurrent(current), ToStatus(current)>>)

\* Mutant of PromoteSpec: the metadata marked is that of the effective spec.
PromoteEffective ==
    /\ Idle /\ Resolvable /\ SpecApproved(Active)
    /\ LET first == current.ref = NoRef
           cur == [current EXCEPT !.audits = @ \cup {Active},
                                  !.composed = IF first THEN Append(@, Active) ELSE @,
                                  !.ref = IF first THEN Active ELSE @]
       IN Command(<<ToCurrent(cur),
                    ToIteration(IF cur.ref \in Ids THEN cur.ref ELSE Active,
                                [meta |-> "gate_b_approved"]),
                    ToStatus(cur)>>)
    /\ Plain

PromoteSpec ==
    /\ Idle /\ Resolvable /\ SpecApproved(Active)
    /\ LET first == current.ref = NoRef
           cur == [current EXCEPT !.audits = @ \cup {Active},
                                  !.composed = IF first THEN Append(@, Active) ELSE @,
                                  !.ref = IF first THEN Active ELSE @]
       IN Command(<<ToCurrent(cur), ToIteration(Active, [meta |-> "gate_b_approved"]),
                    ToStatus(cur)>>)
    /\ Plain

\* The approval of Gate C must be in status.md; the status written last drops it.
PromoteTasks ==
    /\ Idle /\ Resolvable /\ iter[Active].draft /\ status.gateC
    /\ Command(<<ToIteration(Active, [graph |-> [tasks |-> "open",
                                                 rev |-> iter[Active].graph.rev + 1]]),
                 ToIteration(Active, [draft |-> FALSE]), ToStatus(current)>>)
    /\ Plain

DiffTasks ==
    /\ Idle /\ Resolvable /\ SpecApproved(Active)
    /\ IF iter[Active].graph # NoGraph THEN Forced ELSE Plain
    /\ Command(<<ToIteration(Active, [graph |-> [tasks |-> "open",
                                                 rev |-> iter[Active].graph.rev + 1]])>>)

AddMaintenanceTask ==
    /\ Idle /\ Resolvable
    /\ Command(<<ToStatus(current)>>) /\ Plain

\* The record of an iteration that is closed again replaces the one before.
ClosedCurrent(i) ==
    [current EXCEPT !.last = i,
                    !.closed = {c \in @ : c.id # i} \cup {[id |-> i, files |-> Artifacts(i)]},
                    !.pending = IF @.id = i THEN NoPending ELSE @]

Close ==
    /\ Idle /\ Ready /\ AllDone(Active)
    /\ LET cur == ClosedCurrent(Active)
       IN Command(<<ToIteration(Active, [meta |-> "archived"]), ToCurrent(cur), ToStatus(cur)>>)
    /\ Plain

-----------------------------------------------------------------------------
(* compose                                                                 *)

\* The iterations compose takes: those composed before in that order, then the
\* others in the order they were opened; approved, reviewed, all tasks done.
Source(i) ==
    /\ iter[i].exists /\ SpecApproved(i)
    /\ iter[i].graph # NoGraph /\ iter[i].review /\ AllDone(i)

\* What is in T, in the order of s.
Among(s, T) ==
    LET F[n \in 0 .. Len(s)] ==
            IF n = 0 THEN <<>> ELSE IF s[n] \in T THEN Append(F[n - 1], s[n]) ELSE F[n - 1]
    IN F[Len(s)]

Sources ==
    LET known == current.composed
        found == {i \in Ids : Source(i)}
    IN Among(known, found) \o Among([i \in Ids |-> i], found \ Range(known))

\* Mutant of StaleBaseline: the composed view counts as a spec like any other.
StaleUnlessLast(i, last) == iter[i].base \notin {NoRef, last}

\* An iteration drafted on a spec that is not the last one applied is stale;
\* one drafted on the composed view never is.
StaleBaseline(i, last) == iter[i].base \notin {NoRef, TheView, last}

\* A source replaces what is effective so far, unless it is stale.
Replaces(s, k) == k = 1 \/ ~StaleBaseline(s[k], s[k - 1])

Effective(s, k) == iter[s[Max({j \in 1 .. k : Replaces(s, j)})]].spec.changes

\* One that is stale and differs from it conflicts.
Composition(s) ==
    [view      |-> Effective(s, Len(s)),
     conflicts |-> \E k \in 1 .. Len(s) : iter[s[k]].spec.changes # Effective(s, k)]

Compose(allowConflicts) ==
    /\ Idle /\ Resolvable /\ Len(Sources) >= 2
    /\ LET c   == Composition(Sources)
           cur == [current EXCEPT !.composed = Sources, !.ref = TheView, !.view = c.view,
                                  !.decisions = c.conflicts,
                                  !.pending = IF @.id \in Range(Sources) THEN NoPending ELSE @]
       IN /\ c.conflicts => allowConflicts
          /\ Command(<<ToCurrent(cur), ToStatus(cur)>>)
    /\ Plain

-----------------------------------------------------------------------------
(* What people and agents write between the commands                       *)

Author(i, v) ==
    /\ Idle /\ i = Active /\ Resolvable
    /\ iter' = [iter EXCEPT ![i] = Updated(@, v)]
    /\ UNCHANGED <<current, status, moved, todo, deaths, failures, forces>>

Work == \E i \in Ids :
    \/ iter[i].exists /\ iter[i].spec # NoSpec /\ ~iter[i].spec.approved
         /\ Author(i, [spec |-> [iter[i].spec EXCEPT !.approved = TRUE]])
    \/ iter[i].exists /\ SpecApproved(i) /\ iter[i].graph = NoGraph /\ ~iter[i].draft
         /\ Author(i, [draft |-> TRUE])
    \/ iter[i].exists /\ iter[i].graph # NoGraph /\ ~iter[i].review /\ Author(i, [review |-> TRUE])
    \/ iter[i].exists /\ iter[i].graph.tasks = "open"
         /\ Author(i, [graph |-> [iter[i].graph EXCEPT !.tasks = "done"]])

\* A person approves Gate C in status.md, where promote-tasks looks for it.
ApproveTasks ==
    /\ Idle /\ Resolvable /\ iter[Active].draft /\ ~status.gateC
    /\ status' = [status EXCEPT !.gateC = TRUE]
    /\ UNCHANGED <<current, iter, moved, todo, deaths, failures, forces>>

Next ==
    \/ Write \/ Die \/ Fail \/ InitProject
    \/ \E i \in Ids : Open(i)
    \/ Draft \/ PromoteSpec \/ PromoteTasks \/ DiffTasks \/ AddMaintenanceTask \/ Close
    \/ \E allowConflicts \in BOOLEAN : Compose(allowConflicts)
    \/ Work \/ ApproveTasks

Spec == Init /\ [][Next]_vars

\* A close that was interrupted before current-spec.json knew of it.
HalfClosed(i) == iter[i].exists /\ iter[i].meta = "archived" /\ i \notin ClosedIds(current)

\* It is given again, the active pointer still naming it.
CloseAgain == Active \in Ids /\ HalfClosed(Active) /\ Close

\* Its user gives the command again, the work left to do is done in the end, and
\* commands run to theirs.
Fairness == WF_vars(Write) /\ SF_vars(Work) /\ SF_vars(CloseAgain)

-----------------------------------------------------------------------------
(* What the files may be relied on for                                     *)

\* A file operation of init that fails leaves no half of the conversion in use: the
\* gates are all in the iteration and the pointers written, or all back at the
\* root and, whatever pointers are written, every command refuses the project.
NoHalfInitIsUsed ==
    Idle /\ deaths = 0 =>
        \/ moved = Gates /\ status # NoFile
        \/ moved = 0 /\ ~Resolvable

\* Iterations opened one after the other compose without a conflict, whatever
\* was interrupted and however often compose is run.
ChainsComposeWithoutConflict ==
    Active # 0 /\ Len(Sources) >= 2 => ~Composition(Sources).conflicts

\* The iterations agree with each other: their gates, and their specs.
IterationsAgree == NoHalfInitIsUsed /\ ChainsComposeWithoutConflict

\* The active pointer leaves an iteration only when its close is complete: in
\* its metadata, in current-spec.json, and with every task done.
NextStartsFromClosed ==
    [][Active' # Active /\ Active # 0 =>
           /\ iter[Active].meta = "archived" /\ Active \in ClosedIds(current)
           /\ AllDone(Active)]_vars

\* Once another iteration is active, no command touches the artifacts of one
\* that is behind it.
PastIsFrozen ==
    [][\A i \in Ids : i < Active /\ i \in ClosedIds(current) => iter'[i] = iter[i]]_vars

\* What is closed stays closed: the pointer moves on only from it, and it is
\* never written again.
HistoryIsFinal == NextStartsFromClosed /\ PastIsFrozen

\* A close that died halfway is completed by giving it again.
InterruptedCloseCompletes ==
    \A i \in Ids : HalfClosed(i) ~> ~HalfClosed(i)
=============================================================================
