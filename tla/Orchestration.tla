---------------------------- MODULE Orchestration ----------------------------
(***************************************************************************)
(* One supervised run from its start to its finish.  The owner asks the    *)
(* scheduler for the next role, lets that role work, and records the       *)
(* result; while a role works, any role may have a question, a concern or  *)
(* a blocker recorded, so the owner acts on a hint that may be stale.      *)
(* And any event may be recorded by hand, which moves the phase and the    *)
(* roles whatever the scheduler says.  Commands come one at a time:        *)
(* results go back to the owner, who records them.                         *)
(***************************************************************************)
EXTENDS OrchestrationRuntime

CONSTANTS MaxQuestions,   \* questions asked in one run
          MaxConcerns,    \* concerns raised
          MaxRedos,       \* times a role is sent back to work
          MaxRecords,     \* events recorded by hand
          Recorded        \* what is recorded by hand

ASSUME Bounds ==
    MaxQuestions \in Nat /\ MaxConcerns \in Nat /\ MaxRedos \in Nat /\ MaxRecords \in Nat

\* What `record` takes, and `mark-role` with a --phase.
ASSUME RecordedAssumption ==
    \A e \in Recorded :
        /\ e.type \in EventTypes
        /\ e.status \in RoleStatuses \cup {None}
        /\ e.phase \in Phases \cup {None}
        /\ e.owner \in BOOLEAN
        /\ e.verdict \in {None, "accepted", "rejected"}

VARIABLES rt,         \* the runtime file
          run,        \* the run file: its status and its failure, if any
          hint,       \* the answer of next-role the owner acts on, or NoHint
          concerns,   \* concerns raised so far
          redos,      \* times a role was sent back so far
          records,    \* events recorded by hand so far
          byHand      \* the roles that a record by hand marked, or passed over, and
                      \* that were not completed by mark-role since

handVars == <<records, byHand>>
vars == <<rt, run, hint, concerns, redos, handVars>>

Failures == [retryable : {"yes", "no", "after_fix"}, needsUser : BOOLEAN]
Reasons  == {"blocked", "open_question", "owner_decision_required", "ready_to_finish",
             "monitor_required", "review_required", "implementation_required",
             "monitor_not_configured", "roles_complete"}

NoHint == [role |-> None, reason |-> None]

TypeOK ==
    /\ \E mode \in Modes : rt.roles \in [RolesOf(mode) -> RoleStatuses]
    /\ rt.phase \in Phases
    /\ rt.blocked \in BOOLEAN /\ rt.needsUser \in BOOLEAN
    /\ \A i \in DOMAIN rt.questions :
           rt.questions[i].target \in DOMAIN rt.roles \cup {None}
    /\ rt.verdict \in {None, "accepted", "rejected"}
    /\ run.status \in {"started", "finished", "failed", "blocked"}
    /\ run.failure \in Failures \cup {NoFailure}
    /\ hint = NoHint \/ hint.reason \in Reasons
    /\ byHand \subseteq DOMAIN rt.roles \cup {"monitor"}
    /\ ValidRuntime(rt)

Init ==
    /\ \E mode \in Modes : rt = InitialRuntime(mode)
    /\ run = [status |-> "started", failure |-> NoFailure]
    /\ hint = NoHint
    /\ concerns = 0
    /\ redos = 0
    /\ records = 0
    /\ byHand = {}

Started == run.status = "started"

\* Append one event and write the file, unless the validator refuses the result.
RecordEvent(e) ==
    LET after == AppendEvent(rt, e)
    IN rt' = IF ValidRuntime(after) THEN after ELSE rt

-----------------------------------------------------------------------------
(* Recorded at any time, the owner waiting or not                          *)

AskQuestion(role, target) ==
    /\ Started /\ Len(rt.questions) < MaxQuestions
    /\ role # target
    /\ RecordEvent(Event(role, "question", None, None, target, FALSE, None))
    /\ UNCHANGED <<run, hint, concerns, redos, handVars>>

RaiseConcern(role) ==
    /\ Started /\ concerns < MaxConcerns
    /\ RecordEvent(Note(role, "concern"))
    /\ concerns' = concerns + 1
    /\ UNCHANGED <<run, hint, redos, handVars>>

ReportBlocker(role) ==
    /\ Started /\ rt.blockers = 0
    /\ RecordEvent(Note(role, "blocker"))
    /\ UNCHANGED <<run, hint, concerns, redos, handVars>>

\* The roles a phase passes over: it says that they are through.
PassedOver(r) ==
    {role \in {"implementer", "reviewer", "monitor"} :
        /\ Incomplete(r, role)
        /\ \/ r.phase = "ready_to_finish"
           \/ (r.phase = "ready_for_monitor" /\ role # "monitor")}

\* record, or mark-role with a --phase: any event, with the status and the phase
\* it is given, or the phase its type stands for.
Record(e) ==
    /\ Started /\ records < MaxRecords
    /\ e.role \in DOMAIN rt.roles /\ e.target \in DOMAIN rt.roles \cup {None}
    /\ LET after == AppendEvent(rt, e)
       IN /\ ValidRuntime(after)
          /\ rt' = after
          /\ byHand' = byHand \cup PassedOver(after)
                               \cup (IF e.status = None THEN {} ELSE {e.role})
                               \cup (IF e.type = "monitor_verdict" THEN {"monitor"} ELSE {})
    /\ records' = records + 1
    /\ UNCHANGED <<run, hint, concerns, redos>>

-----------------------------------------------------------------------------
(* The owner                                                               *)

\* Of a runtime that was closed by hand the scheduler names no next role.
AskNextRole ==
    /\ Started /\ hint = NoHint /\ rt.phase # "closed"
    /\ hint' = NextRole(rt)
    /\ UNCHANGED <<rt, run, concerns, redos, handVars>>

\* The named role has worked and its new status is recorded.
MarkRole(status, accepted) ==
    /\ Started /\ hint # NoHint
    /\ hint.reason \in {"implementation_required", "review_required", "monitor_required"}
    /\ RecordEvent(MarkRoleEvent(rt, hint.role, status, accepted))
    /\ hint' = NoHint
    /\ byHand' = IF status = "complete" THEN byHand \ {hint.role} ELSE byHand
    /\ UNCHANGED <<run, concerns, redos, records>>

AnswerQuestion ==
    /\ Started /\ hint # NoHint /\ hint.reason = "open_question"
    /\ RecordEvent(Note(hint.role, "answer"))
    /\ hint' = NoHint
    /\ UNCHANGED <<run, concerns, redos, handVars>>

Decide ==
    /\ Started /\ hint # NoHint /\ hint.reason = "owner_decision_required"
    /\ RecordEvent(Note("owner", "decision"))
    /\ hint' = NoHint
    /\ UNCHANGED <<run, concerns, redos, handVars>>

\* A role that was through is sent back to work before the next hint is asked for.
SendBack(role) ==
    /\ Started /\ hint = NoHint /\ redos < MaxRedos
    /\ role # "owner" /\ rt.roles[role] = "complete"
    /\ RecordEvent(MarkRoleEvent(rt, role, "active", FALSE))
    /\ redos' = redos + 1
    /\ UNCHANGED <<run, hint, concerns, handVars>>

\* p2a_execute finish: the run is closed first, then its runtime; a runtime that
\* may not be closed is left as it is, with a warning.  Of a runtime that is closed
\* already the command leaves the run as it is.
Finish(status, failure) ==
    /\ Started /\ hint # NoHint /\ rt.phase # "closed"
    /\ \/ /\ hint.reason \in {"ready_to_finish", "roles_complete", "monitor_not_configured"}
          /\ status = "finished" /\ failure = NoFailure
       \/ /\ hint.reason = "blocked"
          /\ status = "blocked" /\ failure # NoFailure
    /\ run' = [status |-> status, failure |-> failure]
    /\ LET done == status = "finished"
       IN RecordEvent(Event("owner", IF done THEN "status" ELSE "blocker",
                            IF done THEN "complete" ELSE "blocked",
                            IF done THEN "closed" ELSE "blocked", None,
                            ~done /\ failure.needsUser, None))
    /\ hint' = NoHint
    /\ UNCHANGED <<concerns, redos, handVars>>

OwnerStep ==
    \/ AskNextRole
    \/ \E status \in {"complete", "blocked", "skipped"}, accepted \in BOOLEAN :
           MarkRole(status, accepted)
    \/ AnswerQuestion
    \/ Decide
    \/ \E status \in {"finished", "blocked"}, failure \in Failures \cup {NoFailure} :
           Finish(status, failure)

Next ==
    \/ \E role \in DOMAIN rt.roles, target \in DOMAIN rt.roles \cup {None} :
           AskQuestion(role, target)
    \/ \E role \in DOMAIN rt.roles : RaiseConcern(role)
    \/ \E role \in DOMAIN rt.roles : ReportBlocker(role)
    \/ \E role \in DOMAIN rt.roles : SendBack(role)
    \/ \E e \in Recorded : Record(e)
    \/ OwnerStep
    \/ (~Started \/ rt.phase = "closed") /\ UNCHANGED vars

Spec == Init /\ [][Next]_vars /\ WF_vars(OwnerStep)

-----------------------------------------------------------------------------
(* What the owner of a supervised run may rely on                          *)

\* The scheduler offers a run for finishing only when every role is through, but
\* those that a record by hand marked or passed over; when a monitor that
\* completed has accepted, unless its verdict was recorded by hand; and, whatever
\* was recorded, when nothing is open: no question, no decision, no blocker.
ReadyMeansEveryoneIsDone ==
    Started /\ NextRole(rt).reason \in {"ready_to_finish", "roles_complete",
                                        "monitor_not_configured"}
      => /\ \A r \in DOMAIN rt.roles \ ({"owner"} \cup byHand) :
               rt.roles[r] \in {"complete", "skipped"}
         /\ ~HasOpenQuestion(rt) /\ ~rt.needsUser /\ rt.blockers = 0
         /\ "monitor" \in DOMAIN rt.roles \ byHand /\ rt.roles["monitor"] = "complete"
              => rt.verdict = "accepted"

\* A blocker is never lost: whatever is recorded later, by an owner who acts on
\* a hint from before the blocker and by hand too, the scheduler only ever says
\* "blocked".  Nor is a verdict mark-role took from the monitor.
BlockerStopsTheRun ==
    Started /\ (rt.blockers > 0 \/ (rt.verdict = "rejected" /\ "monitor" \notin byHand))
      => NextRole(rt).reason = "blocked"

\* The failure policy proposes another attempt only for a run that cannot go on,
\* or for one whose monitor had a rejection recorded by hand.
RetryOnlyWhenStuck ==
    PolicyAction(rt, run.status, run.failure) = "retry"
      => Stuck(rt) \/ (rt.verdict = "rejected" /\ "monitor" \in byHand)

\* The runtime passes its validator, trouble in it is never lost, and only
\* trouble is a reason to try again.
RuntimeIsConsistent == TypeOK /\ BlockerStopsTheRun /\ RetryOnlyWhenStuck

\* A supervised run comes to an end when its owner keeps acting on the hints,
\* unless its runtime was closed by hand.
EveryRunEnds == <>(run.status # "started" \/ rt.phase = "closed")
=============================================================================
