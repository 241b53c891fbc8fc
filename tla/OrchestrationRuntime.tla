------------------------ MODULE OrchestrationRuntime -------------------------
(***************************************************************************)
(* The runtime file of one supervised run: which role is at work, what is  *)
(* open between the roles, and how far the run is.  These operators are    *)
(* what every command of p2a_orchestrate computes from the file it has     *)
(* read; the modules that extend this one say when the file is read and    *)
(* written.                                                                *)
(***************************************************************************)
EXTENDS Naturals, Sequences, SequencesExt

None == "none"

Modes        == {"solo", "solo_monitor", "team"}
Phases       == {"initialized", "running", "blocked", "ready_for_monitor",
                 "ready_to_finish", "closed"}
RoleStatuses == {"pending", "active", "blocked", "complete", "skipped"}
EventTypes   == {"handoff", "status", "question", "answer", "ack", "concern", "decision",
                 "blocker", "verification", "monitor_verdict", "owner_note"}

\* The roles a plan gives to a run of each mode.
RolesOf(mode) ==
    {"owner", "implementer"}
      \cup (IF mode = "team" THEN {"reviewer"} ELSE {})
      \cup (IF mode = "solo" THEN {} ELSE {"monitor"})

\* An event as a command asks for it.  status, phase and target may be None;
\* verdict is what a monitor_verdict event carries: "accepted", "rejected", or
\* None for a text that is no such record.
Event(role, type, status, phase, target, owner, verdict) ==
    [role |-> role, type |-> type, status |-> status, phase |-> phase,
     target |-> target, owner |-> owner, verdict |-> verdict]

Note(role, type) == Event(role, type, None, None, None, FALSE, None)

InitialRuntime(mode) ==
    [roles     |-> [r \in RolesOf(mode) |->
                       IF r \in {"owner", "implementer"} THEN "active" ELSE "pending"],
     phase     |-> "running",
     blocked   |-> FALSE,
     needsUser |-> FALSE,
     questions |-> <<>>,       \* [target, open]
     verdict   |-> None,       \* of the last monitor_verdict event
     blockers  |-> 0]          \* blocker events in the log, counted up to one

-----------------------------------------------------------------------------
(* appendRuntimeEvent                                                      *)

InferredPhase(phase, type) ==
    CASE type = "blocker"         -> "blocked"
      [] type = "verification"    -> "ready_for_monitor"
      [] type = "monitor_verdict" -> "ready_to_finish"
      [] OTHER -> IF phase = "initialized" THEN "running" ELSE phase

\* Mutant of AnsweredBy: only a question put to the role itself is closed.
AnsweredByTarget(questions, role) ==
    SelectInSeq(questions, LAMBDA q : q.open /\ q.target = role)

\* The question an answer of this role closes: the first open one for the role
\* or for nobody in particular, else the first open one; 0 if there is none.
AnsweredBy(questions, role) ==
    LET mine == SelectInSeq(questions, LAMBDA q : q.open /\ q.target \in {role, None})
    IN IF mine # 0 THEN mine ELSE SelectInSeq(questions, LAMBDA q : q.open)

QuestionsAfter(questions, e) ==
    LET i == AnsweredBy(questions, e.role)
    IN CASE e.type = "question" -> Append(questions, [target |-> e.target, open |-> TRUE])
         [] e.type = "answer" /\ i # 0 -> [questions EXCEPT ![i].open = FALSE]
         [] OTHER -> questions

HasOpenQuestion(rt) == \E i \in DOMAIN rt.questions : rt.questions[i].open

NeedsUserAfter(rt, e, open, blocked) ==
    IF e.type \in {"answer", "ack", "decision"} /\ ~open /\ ~blocked
      THEN FALSE
      ELSE rt.needsUser \/ e.owner \/ e.type \in {"question", "concern", "blocker"} \/ open

\* Mutant of BlockedAfter: a runtime is blocked no longer than its phase.
BlockedByPhase(rt, e, phase) ==
    \/ phase = "blocked"
    \/ e.status = "blocked"

\* Once set, status.blocked is never cleared.
BlockedAfter(rt, e, phase) ==
    \/ rt.blocked
    \/ phase = "blocked"
    \/ e.type = "blocker"
    \/ e.status = "blocked"

AppendEvent(rt, e) ==
    LET phase     == IF e.phase # None THEN e.phase ELSE InferredPhase(rt.phase, e.type)
        blocked   == BlockedAfter(rt, e, phase)
        questions == QuestionsAfter(rt.questions, e)
        open      == \E i \in DOMAIN questions : questions[i].open
    IN [roles     |-> IF e.status = None THEN rt.roles
                      ELSE [rt.roles EXCEPT ![e.role] = e.status],
        phase     |-> phase,
        blocked   |-> blocked,
        needsUser |-> NeedsUserAfter(rt, e, open, blocked),
        questions |-> questions,
        verdict   |-> IF e.type = "monitor_verdict" THEN e.verdict ELSE rt.verdict,
        blockers  |-> IF e.type = "blocker" THEN 1 ELSE rt.blockers]

\* What the validator asks of the state of a runtime, on reading and on writing.
ValidRuntime(rt) ==
    /\ (rt.phase = "blocked" \/ \E r \in DOMAIN rt.roles : rt.roles[r] = "blocked") => rt.blocked
    /\ rt.phase = "closed" => ~rt.blocked

-----------------------------------------------------------------------------
(* The scheduler                                                           *)

Incomplete(rt, role) ==
    role \in DOMAIN rt.roles /\ rt.roles[role] \notin {"complete", "skipped"}

Stuck(rt) ==
    rt.blocked \/ rt.phase = "blocked" \/ \E r \in DOMAIN rt.roles : rt.roles[r] = "blocked"

\* The first incomplete role in this order, with the reason to call it.
FirstIncomplete(rt, order, otherwise) ==
    LET i == SelectInSeq(order, LAMBDA o : Incomplete(rt, o.role))
    IN IF i # 0 THEN order[i] ELSE [role |-> "owner", reason |-> otherwise]

Implementer == [role |-> "implementer", reason |-> "implementation_required"]
Reviewer    == [role |-> "reviewer",    reason |-> "review_required"]
Monitor     == [role |-> "monitor",     reason |-> "monitor_required"]

NextRole(rt) ==
    LET q == SelectInSeq(rt.questions, LAMBDA x : x.open)
        toOwner(reason) == [role |-> "owner", reason |-> reason]
    IN CASE rt.phase = "closed" -> [role |-> None, reason |-> "runtime_closed"]
         [] rt.phase # "closed" /\ Stuck(rt) -> toOwner("blocked")
         [] rt.phase # "closed" /\ ~Stuck(rt) /\ q # 0 ->
                [role   |-> IF rt.questions[q].target \in DOMAIN rt.roles
                              THEN rt.questions[q].target ELSE "owner",
                 reason |-> "open_question"]
         [] OTHER ->
                CASE rt.needsUser -> toOwner("owner_decision_required")
                  [] ~rt.needsUser /\ rt.phase = "ready_to_finish" -> toOwner("ready_to_finish")
                  [] ~rt.needsUser /\ rt.phase = "ready_for_monitor" ->
                         FirstIncomplete(rt, <<Monitor, Reviewer>>, "monitor_not_configured")
                  [] OTHER ->
                         FirstIncomplete(rt, <<Implementer, Reviewer, Monitor>>, "roles_complete")

-----------------------------------------------------------------------------
(* mark-role                                                               *)

\* Mutant of PhaseAfterImplementer: the review of a team is passed over.
PhaseSkipsReview(rt) ==
    IF Incomplete(rt, "monitor") THEN "ready_for_monitor" ELSE "ready_to_finish"

PhaseAfterImplementer(rt) ==
    IF Incomplete(rt, "reviewer") THEN "running"
    ELSE IF Incomplete(rt, "monitor") THEN "ready_for_monitor" ELSE "ready_to_finish"

\* The event mark-role derives from the role and its new status.  An accepted
\* verdict is the one the plan lists; a monitor needs some verdict to complete.
MarkRoleEvent(rt, role, status, accepted) ==
    LET done(phase) == Event(role, "status", status, phase, None, FALSE, None)
    IN CASE status = "blocked" ->
                Event(role, "blocker", status, "blocked", None, TRUE, None)
         [] status = "complete" /\ role = "implementer" -> done(PhaseAfterImplementer(rt))
         [] status = "complete" /\ role = "reviewer" ->
                done(IF Incomplete(rt, "monitor") THEN "ready_for_monitor" ELSE "ready_to_finish")
         [] status = "complete" /\ role = "monitor" ->
                Event(role, "monitor_verdict", status,
                      IF accepted THEN "ready_to_finish" ELSE "blocked", None, ~accepted,
                      IF accepted THEN "accepted" ELSE "rejected")
         [] OTHER -> done(IF status = "active" THEN "running" ELSE rt.phase)

-----------------------------------------------------------------------------
(* failure-policy                                                          *)

Signal(source, retryable, needsUser) ==
    [source |-> source, retryable |-> retryable, needsUser |-> needsUser]

\* A run whose log names no failure.
NoFailure == [retryable |-> None, needsUser |-> FALSE]

\* The strongest sign of failure; the one in the log of the run comes first.
FailureSignal(rt, runFailure) ==
    CASE runFailure # NoFailure -> Signal("run_failure", runFailure.retryable, runFailure.needsUser)
      [] runFailure = NoFailure /\ HasOpenQuestion(rt) -> Signal("open_question", "no", TRUE)
      [] runFailure = NoFailure /\ ~HasOpenQuestion(rt) /\ rt.verdict = "rejected" ->
             Signal("monitor_verdict", "after_fix", FALSE)
      [] OTHER ->
             CASE rt.needsUser -> Signal("open_question", "no", TRUE)
               [] ~rt.needsUser /\ Stuck(rt) -> Signal("blocked_runtime", "no", TRUE)
               [] OTHER -> Signal(IF rt.phase = "closed" THEN "closed_runtime" ELSE "none",
                                  "no", FALSE)

PolicyAction(rt, runStatus, runFailure) ==
    LET signal == FailureSignal(rt, runFailure)
    IN IF runStatus = "finished" \/ rt.phase = "closed" THEN "stop"
       ELSE IF signal.needsUser THEN "ask_user"
       ELSE IF signal.retryable \in {"yes", "after_fix"} THEN "retry"
       ELSE "stop"
=============================================================================
