---------------------------- MODULE ArtifactGates -----------------------------
(***************************************************************************)
(* The four gates of a plan as files under one artifact root, and what     *)
(* validate_artifacts accepts.  People and agents write the files in any   *)
(* order and revise them later; the validator sees only what is there.     *)
(***************************************************************************)
EXTENDS Naturals, FiniteSets

CONSTANTS Decisions,   \* decisions the intake asks of the user
          Questions,   \* clarifying questions of the intake
          Promoted,    \* the decision a question may be promoted to
          TaskGraphs   \* graphs an agent may write: the dependencies of each task

ASSUME GatesAssumption == \A g \in TaskGraphs : IsFiniteSet(DOMAIN g)

VARIABLES intake, spec, graph, review, statusDoc

gateVars == <<intake, spec, graph, review, statusDoc>>

NoSpec   == [approved |-> FALSE, open |-> {}, answers |-> <<>>, technology |-> FALSE,
             webEvidence |-> FALSE]
NoGraph  == <<>>
NoReview == [present |-> FALSE, blocking |-> FALSE, ownRefs |-> TRUE]

SpecWritten == DOMAIN spec.answers # {}
GraphWritten == DOMAIN graph # {}

\* What a question came to: left out, one of the settled ways, or promoted to a
\* decision with or without its resolution.
Disposition == {"missing", "answered", "assumed", "deferred_non_goal",
                "promoted", "resolved"}

\* An agent writes the intake before anything else.
GateInit ==
    /\ intake = [status |-> "blocked_on_user",
                 decisions |-> [d \in Decisions |-> [status |-> "open", answer |-> FALSE]],
                 staleText |-> FALSE]
    /\ spec = NoSpec /\ graph = NoGraph /\ review = NoReview
    /\ statusDoc = [audit |-> FALSE]

-----------------------------------------------------------------------------
(* Gates A and B                                                           *)

\* Mutant of Unresolved: what is put off counts as settled.
UnresolvedOpen == {d \in Decisions : intake.decisions[d].status = "open"}

Unresolved == {d \in Decisions : intake.decisions[d].status \in {"open", "deferred"}}

\* staleText is intake.md marking an answered decision as open.
ValidIntake ==
    /\ \A d \in Decisions :
         intake.decisions[d].answer <=> intake.decisions[d].status = "answered"
    /\ intake.status = IF Unresolved = {} THEN "ready_for_spec" ELSE "blocked_on_user"
    /\ intake.staleText => \A d \in Decisions : intake.decisions[d].status # "answered"

PromotedIn(kinds) == {Promoted[q] : q \in {x \in Questions : spec.answers[x] \in kinds}}

\* Each question of the intake is disposed of; a promoted decision is open until
\* it has a resolution.
ValidDispositions ==
    /\ \A q \in Questions : spec.answers[q] # "missing"
    /\ \A q, r \in Questions :
         /\ q # r /\ {spec.answers[q], spec.answers[r]} \subseteq {"promoted", "resolved"}
         => Promoted[q] # Promoted[r]
    /\ \A q \in Questions :
         /\ spec.answers[q] = "promoted" => Promoted[q] \in spec.open
         /\ spec.answers[q] = "resolved" => Promoted[q] \notin spec.open

\* An approved spec that chooses technology shows evidence from the web.
ValidEvidence == spec.approved /\ spec.technology => spec.webEvidence

ValidSpec ==
    /\ ValidIntake
    /\ ValidEvidence
    /\ ValidDispositions
    /\ spec.approved => spec.open = {}
    /\ PromotedIn({"promoted", "resolved"}) \cap Decisions = {}
    /\ spec.open = Unresolved \cup PromotedIn({"promoted"})

-----------------------------------------------------------------------------
(* Gates C and D                                                           *)

\* detectCycles: depth first.  The walk is on its way below the tasks in visiting,
\* has the tasks in todo before it, and ends when one of them is on the way.
Walk(g) == [visiting : SUBSET DOMAIN g, todo : SUBSET DOMAIN g, visited : SUBSET DOMAIN g]

\* The dependencies of a task are visited before the task is.
Visit(g) ==
    LET visit[w \in Walk(g)] ==
            LET node  == CHOOSE t \in w.todo : TRUE
                rest  == w.todo \ {node}
                below == visit[[visiting |-> w.visiting \cup {node}, todo |-> g[node],
                                visited |-> w.visited]]
            IN IF w.todo = {} THEN [cycle |-> FALSE, visited |-> w.visited]
               ELSE IF node \in w.visiting THEN [cycle |-> TRUE, visited |-> w.visited]
               ELSE IF node \in w.visited
                 THEN visit[[visiting |-> w.visiting, todo |-> rest, visited |-> w.visited]]
               ELSE IF below.cycle THEN below
               ELSE visit[[visiting |-> w.visiting, todo |-> rest,
                           visited |-> below.visited \cup {node}]]
    IN visit

Cyclic(g) == Visit(g)[[visiting |-> {}, todo |-> DOMAIN g, visited |-> {}]].cycle

ValidGraph(g) ==
    /\ \A t \in DOMAIN g : g[t] \subseteq DOMAIN g
    /\ ~Cyclic(g)

\* The graph is validated against its spec, which must be approved.
ValidTaskGraph == ValidSpec /\ spec.approved /\ spec.open = {} /\ ValidGraph(graph)

ValidRoot ==
    /\ ValidIntake
    /\ SpecWritten => ValidSpec /\ (spec.approved => statusDoc.audit)
    /\ GraphWritten => SpecWritten /\ ValidTaskGraph
    /\ review.present => GraphWritten /\ review.ownRefs

\* What a handoff requires: the last three gates passed.
HandoffReady ==
    /\ ValidRoot
    /\ SpecWritten /\ spec.approved /\ spec.open = {}
    /\ GraphWritten
    /\ review.present /\ ~review.blocking

-----------------------------------------------------------------------------
(* The files are written by hand, one thing at a time                      *)

EditIntake ==
    /\ \/ \E d \in Decisions, s \in {"open", "deferred", "answered"}, a \in BOOLEAN :
              intake' = [intake EXCEPT !.decisions[d] = [status |-> s, answer |-> a]]
       \/ \E s \in {"blocked_on_user", "ready_for_spec"} : intake' = [intake EXCEPT !.status = s]
       \/ \E stale \in BOOLEAN : intake' = [intake EXCEPT !.staleText = stale]
    /\ UNCHANGED <<spec, graph, review, statusDoc>>

WriteSpec ==
    /\ ~SpecWritten
    /\ \E answers \in [Questions -> Disposition], technology \in BOOLEAN :
         spec' = [NoSpec EXCEPT !.answers = answers, !.technology = technology,
                                !.open = Unresolved]
    /\ UNCHANGED <<intake, graph, review, statusDoc>>

EditSpec ==
    /\ SpecWritten
    /\ \/ spec' = [spec EXCEPT !.approved = ~@]
       \/ spec' = [spec EXCEPT !.webEvidence = ~@]
       \/ \E x \in Decisions \cup {Promoted[q] : q \in Questions} :
              spec' = [spec EXCEPT !.open = IF x \in @ THEN @ \ {x} ELSE @ \cup {x}]
       \/ \E q \in Questions, a \in Disposition : spec' = [spec EXCEPT !.answers[q] = a]
    /\ UNCHANGED <<intake, graph, review, statusDoc>>

WriteGraph ==
    /\ \E g \in {NoGraph} \cup TaskGraphs : graph' = g
    /\ UNCHANGED <<intake, spec, review, statusDoc>>

WriteReview ==
    /\ review' \in {NoReview} \cup [present : {TRUE}, blocking : BOOLEAN, ownRefs : BOOLEAN]
    /\ UNCHANGED <<intake, spec, graph, statusDoc>>

WriteAudit ==
    /\ statusDoc' = [audit |-> ~statusDoc.audit]
    /\ UNCHANGED <<intake, spec, graph, review>>

GateNext == EditIntake \/ WriteSpec \/ EditSpec \/ WriteGraph \/ WriteReview \/ WriteAudit

GateSpec == GateInit /\ [][GateNext]_gateVars

-----------------------------------------------------------------------------
\* The task needs the other one, or a task that does: it is in every set that holds
\* what the task depends on and, with each of its tasks, what that one depends on.
Closed(g, S) == \A t \in S : g[t] \subseteq S

Reaches(g, from, to) ==
    \A S \in SUBSET DOMAIN g : g[from] \subseteq S /\ Closed(g, S) => to \in S

\* What is ready for handoff rests on nothing unsettled: every decision of the
\* intake is answered, every question disposed of and, when it became a decision,
\* resolved, and the tasks can be done one after the other.
HandoffIsSettled ==
    HandoffReady =>
        /\ \A d \in Decisions : intake.decisions[d].status = "answered"
        /\ \A q \in Questions : spec.answers[q] \notin {"missing", "promoted"}
        /\ \A t \in DOMAIN graph : ~Reaches(graph, t, t)

\* A graph that is refused names an unknown task or has a task that depends on
\* itself in the end, and any other graph is accepted.
CyclesAreFound ==
    GraphWritten =>
        (ValidGraph(graph) <=> /\ \A t \in DOMAIN graph : graph[t] \subseteq DOMAIN graph
                               /\ \A t \in DOMAIN graph : ~Reaches(graph, t, t))

\* The gates let nothing unsettled through, and refuse no graph without reason.
GatesHold == HandoffIsSettled /\ CyclesAreFound
=============================================================================
