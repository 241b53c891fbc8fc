-------------------------- MODULE OrchestrationProofs --------------------------
(***************************************************************************)
(* What holds of a supervised run for every number of questions, concerns, *)
(* roles sent back and events recorded by hand: the runtime stays          *)
(* consistent, a blocker is never lost, and a run is offered for finishing *)
(* only when everyone is done whom no record by hand has passed over.      *)
(* And what holds of the plan a run starts from, for every task graph, and *)
(* of the gates of the artifacts, where the depth-first search for cycles  *)
(* is a recursive function: it is defined, and finds the cycles there are, *)
(* by induction on the weight of what is left to walk.                     *)
(***************************************************************************)
EXTENDS Orchestration, OrchestrationPlan, ArtifactGates, GraphTraceProofs,
        WellFoundedInduction, FiniteSetTheorems, SequenceTheorems, TLAPS

Through(r, role) == ~Incomplete(r, role)

\* The shape of a runtime file, of any mode.
Shape(r) ==
    /\ r = [roles |-> r.roles, phase |-> r.phase, blocked |-> r.blocked,
            needsUser |-> r.needsUser, questions |-> r.questions, verdict |-> r.verdict,
            blockers |-> r.blockers]
    /\ \E mode \in Modes : r.roles \in [RolesOf(mode) -> RoleStatuses]
    /\ r.phase \in Phases
    /\ r.blocked \in BOOLEAN /\ r.needsUser \in BOOLEAN
    /\ r.questions \in Seq([target : DOMAIN r.roles \cup {None}, open : BOOLEAN])
    /\ r.verdict \in {None, "accepted", "rejected"}
    /\ r.blockers \in {0, 1}

\* The role is through, or was marked or passed over by hand.
ThroughBut(r, by, role) == Through(r, role) \/ role \in by

\* Trouble that was recorded once is kept in status.blocked, which is never
\* cleared; a monitor that completed has left a verdict.
TroubleIsKept(r, by) ==
    /\ ValidRuntime(r)
    /\ r.blockers > 0 => r.blocked
    /\ r.verdict = "rejected" => r.blocked \/ "monitor" \in by
    /\ "monitor" \in DOMAIN r.roles /\ r.roles["monitor"] = "complete" =>
           r.verdict # None \/ "monitor" \in by

\* The phase runs no further ahead than the roles, but by hand.
PhaseFollowsRoles(r, by) ==
    /\ r.phase \in {"ready_for_monitor", "ready_to_finish"} =>
           ThroughBut(r, by, "implementer") /\ ThroughBut(r, by, "reviewer")
    /\ r.phase = "ready_to_finish" => ThroughBut(r, by, "monitor")

Sound(r, by) ==
    /\ Shape(r) /\ TroubleIsKept(r, by) /\ PhaseFollowsRoles(r, by)
    /\ by \subseteq DOMAIN r.roles \cup {"monitor"}

\* A stale hint still tells the truth about the roles before the one it names.
HintStillHolds(r, by, h) ==
    /\ h = NoHint \/ h.reason \in Reasons
    /\ h.reason = "blocked" => r.blocked
    /\ h.reason \in {"implementation_required", "review_required", "monitor_required"} =>
           h.role \in DOMAIN r.roles
    /\ h.reason = "implementation_required" => h.role = "implementer"
    /\ h.reason = "review_required" => h.role = "reviewer" /\ ThroughBut(r, by, "implementer")
    /\ h.reason = "monitor_required" =>
           /\ h.role = "monitor"
           /\ ThroughBut(r, by, "implementer") /\ ThroughBut(r, by, "reviewer")

IInv ==
    /\ Sound(rt, byHand)
    /\ HintStillHolds(rt, byHand, hint)
    /\ run.status \in {"started", "finished", "failed", "blocked"}
    /\ run.failure \in Failures \cup {NoFailure}
    /\ run.failure # NoFailure => rt.blocked

-----------------------------------------------------------------------------
(* Lemmas about the operators of the runtime file                          *)

\* The least element of a set of numbers is one of them, and none is less.
LEMMA MinIsIn ==
    ASSUME NEW I \in SUBSET Nat, I # {}
    PROVE  Min(I) \in I /\ \A y \in I : Min(I) <= y
<1>1. PICK x \in I : \A y \in I : ~(<<y, x>> \in OpToRel(<, Nat))
  BY NatLessThanWellFounded, WFMin
<1>2. \A y \in I : x <= y
  <2> SUFFICES ASSUME NEW y \in I, y < x
               PROVE  FALSE
    OBVIOUS
  <2>1. x \in Nat /\ y \in Nat
    OBVIOUS
  <2>2. <<y, x>> \in OpToRel(<, Nat)
    BY <2>1 DEF OpToRel
  <2> QED
    BY <1>1, <2>2
<1>3. QED
  BY <1>2 DEF Min

\* Looking for the first open question finds one when there is one.
LEMMA FirstOpen ==
    ASSUME NEW T, NEW qs \in Seq([target : T, open : BOOLEAN]),
           NEW i, i = SelectInSeq(qs, LAMBDA x : x.open)
    PROVE  /\ i \in 0 .. Len(qs)
           /\ i # 0 => qs[i].open
           /\ i = 0 <=> \A j \in DOMAIN qs : ~qs[j].open
<1> DEFINE I == {j \in 1 .. Len(qs) : qs[j].open}
<1>1. i = IF I # {} THEN Min(I) ELSE 0
  BY DEF SelectInSeq
<1>2. I # {} => Min(I) \in I
  <2>1. I \in SUBSET Nat
    OBVIOUS
  <2> QED
    BY <2>1, MinIsIn
<1>3. QED
  BY <1>1, <1>2

\* The question an answer closes is one of the runtime's, if there is one.
LEMMA AnsweredIsAsked ==
    ASSUME NEW T, NEW qs \in Seq([target : T, open : BOOLEAN]), NEW role
    PROVE  AnsweredBy(qs, role) \in 0 .. Len(qs)
<1> DEFINE mine == SelectInSeq(qs, LAMBDA q : q.open /\ q.target \in {role, None})
           I == {j \in 1 .. Len(qs) : qs[j].open /\ qs[j].target \in {role, None}}
<1>1. mine = IF I # {} THEN Min(I) ELSE 0
  BY DEF SelectInSeq
<1>2. I # {} => Min(I) \in I
  <2>1. I \in SUBSET Nat
    OBVIOUS
  <2> QED
    BY <2>1, MinIsIn
<1>3. mine \in 0 .. Len(qs)
  BY <1>1, <1>2
<1>4. SelectInSeq(qs, LAMBDA q : q.open) \in 0 .. Len(qs)
  BY FirstOpen
<1> HIDE DEF mine
<1>5. AnsweredBy(qs, role) = IF mine # 0 THEN mine ELSE SelectInSeq(qs, LAMBDA q : q.open)
  BY DEF AnsweredBy, mine
<1>6. QED
  BY <1>3, <1>4, <1>5

\* The scheduler names the first role of its order that is not through.
LEMMA FirstIncompleteIs ==
    ASSUME NEW r, NEW S, NEW order \in Seq(S), NEW otherwise,
           NEW f, f = FirstIncomplete(r, order, otherwise)
    PROVE  \/ \E i \in 1 .. Len(order) :
               /\ f = order[i] /\ Incomplete(r, f.role)
               /\ \A j \in 1 .. (i - 1) : Through(r, order[j].role)
           \/ /\ f = [role |-> "owner", reason |-> otherwise]
              /\ \A i \in 1 .. Len(order) : Through(r, order[i].role)
<1> DEFINE I == {j \in 1 .. Len(order) : Incomplete(r, order[j].role)}
           i == SelectInSeq(order, LAMBDA o : Incomplete(r, o.role))
<1>1. i = IF I # {} THEN Min(I) ELSE 0
  BY DEF SelectInSeq
<1>2. I # {} => Min(I) \in I /\ \A y \in I : Min(I) <= y
  <2>1. I \in SUBSET Nat
    OBVIOUS
  <2> QED
    BY <2>1, MinIsIn
<1> HIDE DEF i
<1>3. f = IF i # 0 THEN order[i] ELSE [role |-> "owner", reason |-> otherwise]
  BY DEF FirstIncomplete, i
<1>4. CASE I = {}
  BY <1>1, <1>3, <1>4 DEF Through
<1>5. CASE I # {}
  <2>1. i \in I /\ \A y \in I : i <= y
    BY <1>1, <1>2, <1>5
  <2>2. \A j \in 1 .. (i - 1) : Through(r, order[j].role)
    BY <2>1 DEF Through
  <2>3. f = order[i] /\ Incomplete(r, f.role) /\ i \in 1 .. Len(order)
    BY <2>1, <1>3
  <2> QED
    BY <2>2, <2>3
<1>6. QED
  BY <1>4, <1>5
-----------------------------------------------------------------------------
(* The scheduler                                                           *)

\* The owner and the implementer are roles of every runtime.
LEMMA ShapeFacts ==
    ASSUME NEW r, Shape(r)
    PROVE  /\ {"owner", "implementer"} \subseteq DOMAIN r.roles
           /\ DOMAIN r.roles \subseteq {"owner", "implementer", "reviewer", "monitor"}
           /\ r.roles \in [DOMAIN r.roles -> RoleStatuses]
BY DEF Shape, RolesOf

\* Trouble comes first, then open questions, then what the owner must decide.
LEMMA SchedulerOrder ==
    ASSUME NEW r, Shape(r), r.phase # "closed"
    PROVE  /\ Stuck(r) => NextRole(r).reason = "blocked"
           /\ ~Stuck(r) /\ HasOpenQuestion(r) => NextRole(r).reason = "open_question"
           /\ ~Stuck(r) /\ ~HasOpenQuestion(r) /\ r.needsUser =>
                  NextRole(r).reason = "owner_decision_required"
           /\ ~Stuck(r) /\ ~HasOpenQuestion(r) /\ ~r.needsUser =>
                  NextRole(r) =
                    IF r.phase = "ready_to_finish"
                      THEN [role |-> "owner", reason |-> "ready_to_finish"]
                    ELSE IF r.phase = "ready_for_monitor"
                      THEN FirstIncomplete(r, <<Monitor, Reviewer>>, "monitor_not_configured")
                    ELSE FirstIncomplete(r, <<Implementer, Reviewer, Monitor>>, "roles_complete")
<1> DEFINE q == SelectInSeq(r.questions, LAMBDA x : x.open)
<1>1. q = 0 <=> ~HasOpenQuestion(r)
  BY FirstOpen DEF Shape, HasOpenQuestion
<1>2. r.needsUser \in BOOLEAN
  BY DEF Shape
<1> HIDE DEF q
<1>3. CASE Stuck(r)
  BY <1>1, <1>3 DEF NextRole, q
<1>4. CASE ~Stuck(r) /\ HasOpenQuestion(r)
  BY <1>1, <1>4 DEF NextRole, q
<1>5. CASE ~Stuck(r) /\ ~HasOpenQuestion(r)
  BY <1>1, <1>2, <1>5 DEF NextRole, q
<1>6. QED
  BY <1>3, <1>4, <1>5

\* The first role of monitor and reviewer that is not through.
LEMMA MonitorFirst ==
    ASSUME NEW r, NEW f, f = FirstIncomplete(r, <<Monitor, Reviewer>>, "monitor_not_configured")
    PROVE  \/ f = Monitor /\ Incomplete(r, "monitor")
           \/ f = Reviewer /\ Incomplete(r, "reviewer") /\ Through(r, "monitor")
           \/ /\ f = [role |-> "owner", reason |-> "monitor_not_configured"]
              /\ Through(r, "monitor") /\ Through(r, "reviewer")
<1> DEFINE order == <<Monitor, Reviewer>>
<1>1. order \in Seq({Monitor, Reviewer})
  OBVIOUS
<1>2. /\ Len(order) = 2 /\ order[1] = Monitor /\ order[2] = Reviewer
      /\ Monitor.role = "monitor" /\ Reviewer.role = "reviewer"
  BY DEF Monitor, Reviewer
<1> HIDE DEF order
<1>3. f = FirstIncomplete(r, order, "monitor_not_configured")
  BY DEF order
<1>4. QED
  BY <1>1, <1>2, <1>3, FirstIncompleteIs

\* The first role of implementer, reviewer and monitor that is not through.
LEMMA ImplementerFirst ==
    ASSUME NEW r, NEW f,
           f = FirstIncomplete(r, <<Implementer, Reviewer, Monitor>>, "roles_complete")
    PROVE  \/ f = Implementer /\ Incomplete(r, "implementer")
           \/ f = Reviewer /\ Incomplete(r, "reviewer") /\ Through(r, "implementer")
           \/ /\ f = Monitor /\ Incomplete(r, "monitor")
              /\ Through(r, "implementer") /\ Through(r, "reviewer")
           \/ /\ f = [role |-> "owner", reason |-> "roles_complete"]
              /\ \A role \in {"implementer", "reviewer", "monitor"} : Through(r, role)
<1> DEFINE order == <<Implementer, Reviewer, Monitor>>
<1>1. order \in Seq({Implementer, Reviewer, Monitor})
  OBVIOUS
<1>2. /\ Len(order) = 3
      /\ order[1] = Implementer /\ order[2] = Reviewer /\ order[3] = Monitor
      /\ Implementer.role = "implementer" /\ Reviewer.role = "reviewer"
      /\ Monitor.role = "monitor"
  BY DEF Implementer, Reviewer, Monitor
<1> HIDE DEF order
<1>3. f = FirstIncomplete(r, order, "roles_complete")
  BY DEF order
<1>4. QED
  BY <1>1, <1>2, <1>3, FirstIncompleteIs

\* What a fresh answer of next-role says of the runtime it was computed from.
LEMMA FreshHint ==
    ASSUME NEW r, NEW by, Sound(r, by), r.phase # "closed"
    PROVE  HintStillHolds(r, by, NextRole(r))
<1>1. Shape(r) /\ ValidRuntime(r) /\ PhaseFollowsRoles(r, by)
  BY DEF Sound, TroubleIsKept
<1>2. CASE Stuck(r)
  <2>1. NextRole(r).reason = "blocked" /\ r.blocked
    BY <1>1, <1>2, SchedulerOrder DEF Stuck, ValidRuntime
  <2> QED
    BY <2>1 DEF HintStillHolds, Reasons
<1>3. CASE ~Stuck(r) /\ HasOpenQuestion(r)
  BY <1>1, <1>3, SchedulerOrder DEF HintStillHolds, Reasons
<1>4. CASE ~Stuck(r) /\ ~HasOpenQuestion(r) /\ r.needsUser
  BY <1>1, <1>4, SchedulerOrder DEF HintStillHolds, Reasons
<1>5. CASE ~Stuck(r) /\ ~HasOpenQuestion(r) /\ ~r.needsUser
  <2>1. CASE r.phase = "ready_to_finish"
    BY <1>1, <1>5, <2>1, SchedulerOrder DEF HintStillHolds, Reasons
  <2>2. CASE r.phase = "ready_for_monitor"
    <3>1. NextRole(r) = FirstIncomplete(r, <<Monitor, Reviewer>>, "monitor_not_configured")
      BY <1>1, <1>5, <2>2, SchedulerOrder
    <3>2. ThroughBut(r, by, "implementer") /\ ThroughBut(r, by, "reviewer")
      BY <1>1, <2>2 DEF PhaseFollowsRoles
    <3> QED
      BY <3>1, <3>2, MonitorFirst
      DEF HintStillHolds, Reasons, Monitor, Reviewer, Incomplete, ThroughBut
  <2>3. CASE r.phase \notin {"ready_to_finish", "ready_for_monitor"}
    <3>1. NextRole(r) =
            FirstIncomplete(r, <<Implementer, Reviewer, Monitor>>, "roles_complete")
      BY <1>1, <1>5, <2>3, SchedulerOrder
    <3> QED
      BY <3>1, ImplementerFirst
      DEF HintStillHolds, Reasons, Implementer, Monitor, Reviewer, Incomplete, ThroughBut
  <2> QED
    BY <2>1, <2>2, <2>3
<1>6. r.needsUser \in BOOLEAN
  BY <1>1 DEF Shape
<1>7. QED
  BY <1>2, <1>3, <1>4, <1>5, <1>6

\* A runtime is ready to finish only with every role settled and nothing open.
LEMMA ReadyIsDone ==
    ASSUME NEW r, NEW by, Sound(r, by), r.phase # "closed",
           NextRole(r).reason \in {"ready_to_finish", "roles_complete", "monitor_not_configured"}
    PROVE  /\ \A role \in {"implementer", "reviewer", "monitor"} : ThroughBut(r, by, role)
           /\ ~HasOpenQuestion(r) /\ ~r.needsUser /\ ~Stuck(r)
<1>1. Shape(r) /\ ValidRuntime(r) /\ PhaseFollowsRoles(r, by)
  BY DEF Sound, TroubleIsKept
<1>2. ~Stuck(r) /\ ~HasOpenQuestion(r) /\ ~r.needsUser
  BY <1>1, SchedulerOrder
<1>3. CASE r.phase = "ready_to_finish"
  BY <1>1, <1>2, <1>3 DEF PhaseFollowsRoles
<1>4. CASE r.phase = "ready_for_monitor"
  <2>1. NextRole(r) = FirstIncomplete(r, <<Monitor, Reviewer>>, "monitor_not_configured")
    BY <1>1, <1>2, <1>4, SchedulerOrder
  <2> QED
    BY <1>1, <1>2, <1>4, <2>1, MonitorFirst DEF PhaseFollowsRoles, Monitor, Reviewer, ThroughBut
<1>5. CASE r.phase \notin {"ready_to_finish", "ready_for_monitor"}
  <2>1. NextRole(r) = FirstIncomplete(r, <<Implementer, Reviewer, Monitor>>, "roles_complete")
    BY <1>1, <1>2, <1>5, SchedulerOrder
  <2> QED
    BY <1>2, <2>1, ImplementerFirst DEF Implementer, Monitor, Reviewer, ThroughBut
<1>6. QED
  BY <1>3, <1>4, <1>5

-----------------------------------------------------------------------------
(* Appending an event                                                      *)

GoodEvent(r, e) ==
    /\ e.type \in EventTypes
    /\ e.status \in RoleStatuses \cup {None}
    /\ e.phase \in Phases \cup {None}
    /\ e.target \in DOMAIN r.roles \cup {None}
    /\ e.owner \in BOOLEAN
    /\ e.verdict \in {None, "accepted", "rejected"}

\* What becomes of the fields of the file.
Appended(r, e, a) ==
    /\ DOMAIN a.roles = DOMAIN r.roles
    /\ a.roles = IF e.status = None THEN r.roles ELSE [r.roles EXCEPT ![e.role] = e.status]
    /\ a.phase = IF e.phase # None THEN e.phase ELSE InferredPhase(r.phase, e.type)
    /\ a.blocked = BlockedAfter(r, e, a.phase)
    /\ a.verdict = IF e.type = "monitor_verdict" THEN e.verdict ELSE r.verdict
    /\ a.blockers = IF e.type = "blocker" THEN 1 ELSE r.blockers

\* The questions stay questions, each to a role of the run or to nobody.
LEMMA QuestionsKeepTheirType ==
    ASSUME NEW T, NEW qs \in Seq([target : T, open : BOOLEAN]),
           NEW e, e.target \in T
    PROVE  QuestionsAfter(qs, e) \in Seq([target : T, open : BOOLEAN])
<1> DEFINE Q == [target : T, open : BOOLEAN]
           i == AnsweredBy(qs, e.role)
           answered == [qs[i] EXCEPT !.open = FALSE]
           asked == [target |-> e.target, open |-> TRUE]
<1>1. i \in 0 .. Len(qs)
  BY AnsweredIsAsked
<1>2. QuestionsAfter(qs, e) = CASE e.type = "question" -> Append(qs, asked)
                                [] e.type = "answer" /\ i # 0 -> [qs EXCEPT ![i] = answered]
                                [] OTHER -> qs
  BY DEF QuestionsAfter
<1> HIDE DEF i
<1>3. asked \in Q
  OBVIOUS
<1>4. i # 0 => answered \in Q
  <2>1. i # 0 => i \in 1 .. Len(qs)
    BY <1>1
  <2>2. i # 0 => qs[i] \in Q
    BY <2>1, ElementOfSeq
  <2> QED
    BY <2>2
<1> HIDE DEF Q, asked, answered
<1>5. qs \in Seq(Q)
  BY DEF Q
<1>6. Append(qs, asked) \in Seq(Q)
  BY <1>3, <1>5
<1>7. i # 0 => [qs EXCEPT ![i] = answered] \in Seq(Q)
  <2>1. i # 0 => i \in 1 .. Len(qs)
    BY <1>1
  <2> QED
    BY <1>4, <1>5, <2>1, ExceptSeq
<1>8. QuestionsAfter(qs, e) \in Seq(Q)
  BY <1>2, <1>5, <1>6, <1>7
<1>9. QED
  BY <1>8 DEF Q

\* An event leaves a runtime that passes the validator.
LEMMA AppendKeepsShape ==
    ASSUME NEW r, Shape(r), NEW e, GoodEvent(r, e), NEW a, a = AppendEvent(r, e)
    PROVE  Shape(a) /\ Appended(r, e, a)
<1>1. /\ a.roles = IF e.status = None THEN r.roles ELSE [r.roles EXCEPT ![e.role] = e.status]
      /\ a.phase = IF e.phase # None THEN e.phase ELSE InferredPhase(r.phase, e.type)
      /\ a.blocked = BlockedAfter(r, e, a.phase)
      /\ a.verdict = IF e.type = "monitor_verdict" THEN e.verdict ELSE r.verdict
      /\ a.blockers = IF e.type = "blocker" THEN 1 ELSE r.blockers
      /\ a.questions = QuestionsAfter(r.questions, e)
      /\ a = [roles |-> a.roles, phase |-> a.phase, blocked |-> a.blocked,
              needsUser |-> a.needsUser, questions |-> a.questions, verdict |-> a.verdict,
              blockers |-> a.blockers]
  BY DEF AppendEvent
<1>2. a.phase \in Phases
  <2>1. InferredPhase(r.phase, e.type) \in Phases
    BY DEF Shape, InferredPhase, Phases
  <2> QED
    BY <1>1, <2>1 DEF GoodEvent
<1>3. a.blocked \in BOOLEAN
  BY <1>1 DEF BlockedAfter
<1>4. a.needsUser \in BOOLEAN
  BY DEF AppendEvent, NeedsUserAfter
<1>5. a.questions \in Seq([target : DOMAIN r.roles \cup {None}, open : BOOLEAN])
  <2>1. /\ r.questions \in Seq([target : DOMAIN r.roles \cup {None}, open : BOOLEAN])
        /\ e.target \in DOMAIN r.roles \cup {None}
    BY DEF Shape, GoodEvent
  <2>2. QuestionsAfter(r.questions, e)
          \in Seq([target : DOMAIN r.roles \cup {None}, open : BOOLEAN])
    BY <2>1, QuestionsKeepTheirType, Zenon
  <2> QED
    BY <1>1, <2>2
<1>6. a.verdict \in {None, "accepted", "rejected"} /\ a.blockers \in {0, 1}
  BY <1>1 DEF GoodEvent, Shape
<1>7. PICK mode \in Modes : r.roles \in [RolesOf(mode) -> RoleStatuses]
  BY DEF Shape
<1>8. a.roles \in [RolesOf(mode) -> RoleStatuses] /\ DOMAIN a.roles = DOMAIN r.roles
  BY <1>1, <1>7 DEF GoodEvent
<1>9. Shape(a)
  BY <1>1, <1>2, <1>3, <1>4, <1>5, <1>6, <1>8 DEF Shape
<1>10. QED
  BY <1>1, <1>8, <1>9 DEF Appended

\* An event that names no status and no phase: whatever hint the owner holds, it
\* is as good as before.
LEMMA PlainEvent ==
    ASSUME NEW r, NEW by, Sound(r, by), NEW e, GoodEvent(r, e), NEW a, a = AppendEvent(r, e),
           e.status = None, e.phase = None,
           e.type \in {"question", "answer", "concern", "decision", "blocker"},
           ValidRuntime(a)
    PROVE  /\ Sound(a, by)
           /\ a.roles = r.roles
           /\ r.blocked => a.blocked
<1>1. /\ Shape(r) /\ TroubleIsKept(r, by) /\ PhaseFollowsRoles(r, by)
      /\ by \subseteq DOMAIN r.roles \cup {"monitor"}
  BY DEF Sound
<1>2. /\ Shape(a)
      /\ a.roles = r.roles
      /\ a.phase = InferredPhase(r.phase, e.type)
      /\ a.blocked = BlockedAfter(r, e, a.phase)
      /\ a.verdict = r.verdict
      /\ a.blockers = IF e.type = "blocker" THEN 1 ELSE r.blockers
  <2>1. Shape(a) /\ Appended(r, e, a)
    BY <1>1, AppendKeepsShape
  <2> QED
    BY <2>1 DEF Appended
<1>3. a.phase \in {r.phase, "blocked", "running"}
  BY <1>2 DEF InferredPhase
<1>4. (r.blocked \/ e.type = "blocker") => a.blocked
  BY <1>2 DEF BlockedAfter
<1>5. TroubleIsKept(a, by)
  BY <1>1, <1>2, <1>4 DEF TroubleIsKept
<1>6. PhaseFollowsRoles(a, by)
  BY <1>1, <1>2, <1>3 DEF PhaseFollowsRoles, ThroughBut, Through, Incomplete
<1>7. QED
  BY <1>1, <1>2, <1>4, <1>5, <1>6 DEF Sound

\* What mark-role may be asked for: a role the owner was told to call, with the
\* roles before it through, or one that is sent back to work.
MayMark(r, by, role, status) ==
    /\ role \in DOMAIN r.roles \ {"owner"}
    /\ status \in {"complete", "blocked", "skipped", "active"}
    /\ status # "active" =>
           /\ role \in {"reviewer", "monitor"} => ThroughBut(r, by, "implementer")
           /\ role = "monitor" => ThroughBut(r, by, "reviewer")

\* The event mark-role derives.
Marked(r, role, status, accepted, e) ==
    /\ e.role = role /\ e.status = status
    /\ e.phase =
         CASE status = "blocked" -> "blocked"
           [] status = "complete" /\ role = "implementer" -> PhaseAfterImplementer(r)
           [] status = "complete" /\ role = "reviewer" ->
                IF Incomplete(r, "monitor") THEN "ready_for_monitor" ELSE "ready_to_finish"
           [] status = "complete" /\ role = "monitor" ->
                IF accepted THEN "ready_to_finish" ELSE "blocked"
           [] status = "active" -> "running"
           [] status = "skipped" -> r.phase
    /\ status = "blocked" => e.type = "blocker"
    /\ e.type = "monitor_verdict" <=> status = "complete" /\ role = "monitor"
    /\ status = "complete" /\ role = "monitor" =>
           e.verdict = IF accepted THEN "accepted" ELSE "rejected"

\* mark-role appends an event that fits the role and the phase.
LEMMA MarkIsGood ==
    ASSUME NEW r, Shape(r), NEW by, NEW role, NEW status, MayMark(r, by, role, status),
           NEW accepted \in BOOLEAN,
           NEW e, e = MarkRoleEvent(r, role, status, accepted)
    PROVE  GoodEvent(r, e) /\ Marked(r, role, status, accepted, e)
<1>1. role \in {"implementer", "reviewer", "monitor"}
  BY ShapeFacts DEF MayMark
<1>2. r.phase \in Phases
  BY DEF Shape
<1>3. status \in {"complete", "blocked", "skipped", "active"}
  BY DEF MayMark
<1>4. PhaseAfterImplementer(r) \in {"running", "ready_for_monitor", "ready_to_finish"}
  BY DEF PhaseAfterImplementer
<1>5. CASE status = "blocked"
  BY <1>1, <1>5
  DEF MarkRoleEvent, Event, GoodEvent, Marked, EventTypes, RoleStatuses, Phases, None
<1>6. CASE status = "complete" /\ role = "implementer"
  BY <1>4, <1>6
  DEF MarkRoleEvent, Event, GoodEvent, Marked, EventTypes, RoleStatuses, Phases, None
<1>7. CASE status = "complete" /\ role = "reviewer"
  BY <1>7
  DEF MarkRoleEvent, Event, GoodEvent, Marked, EventTypes, RoleStatuses, Phases, None
<1>8. CASE status = "complete" /\ role = "monitor"
  BY <1>8
  DEF MarkRoleEvent, Event, GoodEvent, Marked, EventTypes, RoleStatuses, Phases, None
<1>9. CASE status \in {"skipped", "active"}
  BY <1>2, <1>9
  DEF MarkRoleEvent, Event, GoodEvent, Marked, EventTypes, RoleStatuses, Phases, None
<1>10. QED
  BY <1>1, <1>3, <1>5, <1>6, <1>7, <1>8, <1>9

\* A role that is skipped is no blocker.
LEMMA MarkedSkipped ==
    ASSUME NEW r, NEW role, NEW accepted
    PROVE  MarkRoleEvent(r, role, "skipped", accepted).type = "status"
BY DEF MarkRoleEvent, Event

\* mark-role never makes a runtime its validator refuses.
LEMMA MarkIsValid ==
    ASSUME NEW r, Shape(r), ValidRuntime(r), NEW by, NEW role, NEW status,
           MayMark(r, by, role, status), NEW accepted \in BOOLEAN,
           NEW a, a = AppendEvent(r, MarkRoleEvent(r, role, status, accepted))
    PROVE  ValidRuntime(a)
<1> DEFINE e == MarkRoleEvent(r, role, status, accepted)
<1>1. GoodEvent(r, e) /\ Marked(r, role, status, accepted, e)
  BY MarkIsGood
<1>2. a = AppendEvent(r, e)
  OBVIOUS
<1> HIDE DEF e
<1>3. Appended(r, e, a)
  BY <1>1, <1>2, AppendKeepsShape
<1>4. /\ role \in {"implementer", "reviewer", "monitor"}
      /\ status \in {"complete", "blocked", "skipped", "active"} /\ status # None
      /\ r.phase \in Phases
  BY ShapeFacts DEF MayMark, Shape, None
<1>5. /\ e.status = status /\ e.role = role
      /\ e.phase # None
      /\ e.phase = "closed" => status = "skipped" /\ r.phase = "closed"
  BY <1>1, <1>4 DEF Marked, PhaseAfterImplementer, Phases, None
<1>6. /\ a.roles = [r.roles EXCEPT ![role] = status]
      /\ a.phase = e.phase
      /\ a.blocked = (r.blocked \/ a.phase = "blocked" \/ e.type = "blocker"
                        \/ e.status = "blocked")
  BY <1>3, <1>4, <1>5 DEF Appended, BlockedAfter
<1>7. (a.phase = "blocked" \/ \E x \in DOMAIN a.roles : a.roles[x] = "blocked") => a.blocked
  BY <1>5, <1>6 DEF ValidRuntime
<1>8. a.phase = "closed" => ~a.blocked
  <2> SUFFICES ASSUME a.phase = "closed"
               PROVE  ~a.blocked
    OBVIOUS
  <2>1. status = "skipped" /\ r.phase = "closed"
    BY <1>5, <1>6
  <2>2. e.type # "blocker"
    BY <2>1, MarkedSkipped DEF e
  <2> QED
    BY <1>5, <1>6, <2>1, <2>2 DEF ValidRuntime
<1>9. QED
  BY <1>7, <1>8 DEF ValidRuntime

\* A role that is marked leaves the runtime sound; one that completes is no
\* longer only marked by hand.
LEMMA MarkKeepsSound ==
    ASSUME NEW r, NEW by, Sound(r, by),
           NEW role, NEW status, MayMark(r, by, role, status), NEW accepted \in BOOLEAN,
           NEW a, a = AppendEvent(r, MarkRoleEvent(r, role, status, accepted)),
           ValidRuntime(a),
           NEW now, now = IF status = "complete" THEN by \ {role} ELSE by
    PROVE  Sound(a, now) /\ (r.blocked => a.blocked)
<1> DEFINE e == MarkRoleEvent(r, role, status, accepted)
<1>1. /\ Shape(r) /\ TroubleIsKept(r, by) /\ PhaseFollowsRoles(r, by)
      /\ by \subseteq DOMAIN r.roles \cup {"monitor"}
  BY DEF Sound
<1>2. GoodEvent(r, e) /\ Marked(r, role, status, accepted, e)
  BY <1>1, MarkIsGood
<1> HIDE DEF e
<1>3. /\ role \in {"implementer", "reviewer", "monitor"} /\ role \in DOMAIN r.roles
      /\ status \in {"complete", "blocked", "skipped", "active"}
      /\ r.phase \in Phases
  BY <1>1, ShapeFacts DEF MayMark, Shape
<1>4. e.phase # None /\ e.status # None
  BY <1>2, <1>3 DEF Marked, PhaseAfterImplementer, Phases, None, RoleStatuses
<1>5. /\ Shape(a) /\ DOMAIN a.roles = DOMAIN r.roles
      /\ a.roles = [r.roles EXCEPT ![role] = status]
      /\ a.phase = e.phase
      /\ a.blocked = BlockedAfter(r, e, a.phase)
      /\ a.verdict = IF e.type = "monitor_verdict" THEN e.verdict ELSE r.verdict
      /\ a.blockers = IF e.type = "blocker" THEN 1 ELSE r.blockers
  <2>1. a = AppendEvent(r, e)
    BY DEF e
  <2>2. Shape(a) /\ Appended(r, e, a)
    BY <1>1, <1>2, <2>1, AppendKeepsShape
  <2> QED
    BY <1>2, <1>4, <2>2 DEF Appended, Marked
<1>6. /\ r.blocked => a.blocked
      /\ e.type = "blocker" => a.blocked
      /\ a.phase = "blocked" => a.blocked
  BY <1>5 DEF BlockedAfter
<1>7. TroubleIsKept(a, now)
  <2>1. a.blockers > 0 => a.blocked
    BY <1>1, <1>5, <1>6 DEF TroubleIsKept
  <2>2. CASE status = "complete" /\ role = "monitor"
    <3>1. /\ a.verdict = IF accepted THEN "accepted" ELSE "rejected"
          /\ a.phase = IF accepted THEN "ready_to_finish" ELSE "blocked"
      BY <1>2, <1>5, <2>2 DEF Marked
    <3> QED
      BY <1>6, <2>1, <3>1 DEF TroubleIsKept, None
  <2>3. CASE ~(status = "complete" /\ role = "monitor")
    <3>1. a.verdict = r.verdict
      BY <1>2, <1>5, <2>3 DEF Marked
    <3>2. "monitor" \in by <=> "monitor" \in now
      BY <2>3
    <3>3. "monitor" \in DOMAIN a.roles /\ a.roles["monitor"] = "complete" =>
              "monitor" \in DOMAIN r.roles /\ r.roles["monitor"] = "complete"
      BY <1>3, <1>5, <2>3
    <3> QED
      BY <1>1, <1>6, <2>1, <3>1, <3>2, <3>3 DEF TroubleIsKept
  <2> QED
    BY <2>2, <2>3
<1>8. /\ \A other \in {"implementer", "reviewer", "monitor"} \ {role} :
             ThroughBut(a, now, other) <=> ThroughBut(r, by, other)
      /\ status \in {"complete", "skipped"} => ThroughBut(a, now, role)
  BY <1>3, <1>5 DEF ThroughBut, Through, Incomplete
<1>9. PhaseFollowsRoles(a, now)
  <2>1. CASE status = "blocked" \/ status = "active"
    BY <1>2, <1>5, <2>1 DEF Marked, PhaseFollowsRoles
  <2>2. CASE status = "skipped"
    BY <1>1, <1>2, <1>3, <1>5, <1>8, <2>2 DEF Marked, PhaseFollowsRoles
  <2>3. CASE status = "complete" /\ role = "implementer"
    BY <1>2, <1>5, <1>8, <2>3
    DEF Marked, PhaseFollowsRoles, PhaseAfterImplementer, ThroughBut, Through
  <2>4. CASE status = "complete" /\ role = "reviewer"
    BY <1>2, <1>5, <1>8, <2>4 DEF Marked, PhaseFollowsRoles, MayMark, ThroughBut, Through
  <2>5. CASE status = "complete" /\ role = "monitor"
    BY <1>2, <1>5, <1>8, <2>5 DEF Marked, PhaseFollowsRoles, MayMark
  <2> QED
    BY <1>3, <2>1, <2>2, <2>3, <2>4, <2>5
<1>10. QED
  BY <1>1, <1>5, <1>6, <1>7, <1>9 DEF Sound

\* An event recorded by hand: the roles it marks or passes over are known.
LEMMA RecordKeepsSound ==
    ASSUME NEW r, NEW by, Sound(r, by), NEW e, GoodEvent(r, e), e.role \in DOMAIN r.roles,
           NEW a, a = AppendEvent(r, e), ValidRuntime(a),
           NEW now, now = by \cup PassedOver(a)
                             \cup (IF e.status = None THEN {} ELSE {e.role})
                             \cup (IF e.type = "monitor_verdict" THEN {"monitor"} ELSE {})
    PROVE  /\ Sound(a, now)
           /\ r.blocked => a.blocked
           /\ DOMAIN a.roles = DOMAIN r.roles
           /\ \A role : ThroughBut(r, by, role) => ThroughBut(a, now, role)
<1>1. /\ Shape(r) /\ TroubleIsKept(r, by) /\ PhaseFollowsRoles(r, by)
      /\ by \subseteq DOMAIN r.roles \cup {"monitor"}
  BY DEF Sound
<1>2. Shape(a) /\ Appended(r, e, a)
  BY <1>1, AppendKeepsShape
<1>3. /\ r.blocked => a.blocked
      /\ e.type = "blocker" => a.blocked
  BY <1>2 DEF Appended, BlockedAfter
<1>4. \A role : role \notin now /\ role \in DOMAIN a.roles => a.roles[role] = r.roles[role]
  BY <1>2 DEF Appended
<1>5. TroubleIsKept(a, now)
  BY <1>1, <1>2, <1>3, <1>4 DEF TroubleIsKept, Appended
<1>6. PhaseFollowsRoles(a, now)
  BY DEF PhaseFollowsRoles, ThroughBut, Through, PassedOver
<1>7. now \subseteq DOMAIN a.roles \cup {"monitor"}
  BY <1>1, <1>2 DEF PassedOver, Incomplete, Appended
<1>8. \A role : ThroughBut(r, by, role) => ThroughBut(a, now, role)
  BY <1>2, <1>4 DEF ThroughBut, Through, Incomplete, Appended
<1>9. QED
  BY <1>2, <1>3, <1>5, <1>6, <1>7, <1>8 DEF Sound, Appended

-----------------------------------------------------------------------------
(* The invariant of a supervised run                                       *)

\* No hint cannot be old.
LEMMA NoHintHolds ==
    ASSUME NEW r, NEW by
    PROVE  HintStillHolds(r, by, NoHint)
BY DEF HintStillHolds, NoHint, None

\* A hint is as good after a step that unsettles no role and keeps the trouble.
LEMMA HintKeeps ==
    ASSUME NEW r, NEW by, NEW h, HintStillHolds(r, by, h), NEW a, NEW now,
           DOMAIN a.roles = DOMAIN r.roles, r.blocked => a.blocked,
           \A role : ThroughBut(r, by, role) => ThroughBut(a, now, role)
    PROVE  HintStillHolds(a, now, h)
BY DEF HintStillHolds

\* The invariant holds at the start.
LEMMA InitSound ==
    ASSUME Init
    PROVE  IInv
<1>1. PICK mode \in Modes : rt = InitialRuntime(mode)
  BY DEF Init
<1>2. Shape(rt)
  <2>1. rt.roles \in [RolesOf(mode) -> RoleStatuses]
    BY <1>1 DEF InitialRuntime, RoleStatuses
  <2>2. rt.questions \in Seq([target : DOMAIN rt.roles \cup {None}, open : BOOLEAN])
    BY <1>1 DEF InitialRuntime
  <2> QED
    BY <1>1, <2>1, <2>2 DEF InitialRuntime, Shape, Phases
<1>3. \A role \in DOMAIN rt.roles : rt.roles[role] \in {"active", "pending"}
  BY <1>1 DEF InitialRuntime
<1>4. TroubleIsKept(rt, byHand) /\ PhaseFollowsRoles(rt, byHand)
  BY <1>1, <1>3 DEF InitialRuntime, TroubleIsKept, ValidRuntime, PhaseFollowsRoles, None
<1>5. QED
  BY <1>2, <1>4, NoHintHolds DEF Init, IInv, Sound

\* A question, a concern, a blocker, an answer or a decision is recorded.
LEMMA PlainStep ==
    ASSUME IInv, NEW e, GoodEvent(rt, e), e.status = None, e.phase = None,
           e.type \in {"question", "answer", "concern", "decision", "blocker"},
           RecordEvent(e), UNCHANGED <<run, byHand>>, hint' = hint \/ hint' = NoHint
    PROVE  IInv'
<1> DEFINE a == AppendEvent(rt, e)
<1>1. rt' = IF ValidRuntime(a) THEN a ELSE rt
  BY DEF RecordEvent
<1>2. Sound(rt, byHand) /\ HintStillHolds(rt, byHand, hint)
  BY DEF IInv
<1>3. ValidRuntime(a) =>
          Sound(a, byHand) /\ a.roles = rt.roles /\ (rt.blocked => a.blocked)
  BY <1>2, PlainEvent
<1> HIDE DEF a
<1>4. Sound(rt', byHand') /\ rt'.roles = rt.roles /\ (rt.blocked => rt'.blocked)
  BY <1>1, <1>2, <1>3
<1>5. \A role : ThroughBut(rt, byHand, role) => ThroughBut(rt', byHand', role)
  BY <1>4 DEF ThroughBut, Through, Incomplete
<1>6. HintStillHolds(rt', byHand', hint')
  BY <1>2, <1>4, <1>5, HintKeeps, NoHintHolds
<1>7. QED
  BY <1>4, <1>6 DEF IInv

\* A role is marked, or sent back to work.
LEMMA MarkStep ==
    ASSUME IInv, NEW role, NEW status, MayMark(rt, byHand, role, status),
           NEW accepted \in BOOLEAN,
           RecordEvent(MarkRoleEvent(rt, role, status, accepted)),
           byHand' = (IF status = "complete" THEN byHand \ {role} ELSE byHand),
           UNCHANGED run, hint' = NoHint
    PROVE  IInv'
<1> DEFINE a == AppendEvent(rt, MarkRoleEvent(rt, role, status, accepted))
<1>1. rt' = IF ValidRuntime(a) THEN a ELSE rt
  BY DEF RecordEvent
<1>2. Sound(rt, byHand) /\ Shape(rt) /\ ValidRuntime(rt)
  BY DEF IInv, Sound, TroubleIsKept
<1>3. ValidRuntime(a)
  BY <1>2, MarkIsValid
<1>4. Sound(a, byHand') /\ (rt.blocked => a.blocked)
  BY <1>2, <1>3, MarkKeepsSound
<1> HIDE DEF a
<1>5. Sound(rt', byHand') /\ (rt.blocked => rt'.blocked)
  BY <1>1, <1>3, <1>4
<1>6. HintStillHolds(rt', byHand', hint')
  BY NoHintHolds
<1>7. QED
  BY <1>5, <1>6 DEF IInv

\* An event is recorded by hand.
LEMMA RecordStep ==
    ASSUME IInv, NEW e \in Recorded, Record(e)
    PROVE  IInv'
<1> DEFINE a == AppendEvent(rt, e)
<1>1. /\ e.role \in DOMAIN rt.roles
      /\ ValidRuntime(a) /\ rt' = a
      /\ byHand' = byHand \cup PassedOver(a)
                          \cup (IF e.status = None THEN {} ELSE {e.role})
                          \cup (IF e.type = "monitor_verdict" THEN {"monitor"} ELSE {})
      /\ UNCHANGED <<run, hint>>
  BY DEF Record
<1>2. GoodEvent(rt, e)
  BY RecordedAssumption DEF GoodEvent, Record
<1>3. Sound(rt, byHand) /\ HintStillHolds(rt, byHand, hint)
  BY DEF IInv
<1>4. /\ Sound(a, byHand')
      /\ rt.blocked => a.blocked
      /\ DOMAIN a.roles = DOMAIN rt.roles
      /\ \A role : ThroughBut(rt, byHand, role) => ThroughBut(a, byHand', role)
  BY <1>1, <1>2, <1>3, RecordKeepsSound
<1> HIDE DEF a
<1>5. HintStillHolds(rt', byHand', hint')
  BY <1>1, <1>3, <1>4, HintKeeps
<1>6. QED
  BY <1>1, <1>4, <1>5 DEF IInv

\* A run that is finished was ready; one that is closed with a failure was stuck.
LEMMA FinishStep ==
    ASSUME IInv, NEW status, NEW failure \in Failures \cup {NoFailure}, Finish(status, failure)
    PROVE  IInv'
<1> DEFINE done == status = "finished"
           e == Event("owner", IF done THEN "status" ELSE "blocker",
                      IF done THEN "complete" ELSE "blocked",
                      IF done THEN "closed" ELSE "blocked", None,
                      ~done /\ failure.needsUser, None)
           a == AppendEvent(rt, e)
<1>1. /\ rt' = IF ValidRuntime(a) THEN a ELSE rt
      /\ run' = [status |-> status, failure |-> failure]
      /\ hint' = NoHint /\ byHand' = byHand
      /\ \/ status = "finished" /\ failure = NoFailure
         \/ hint.reason = "blocked" /\ status = "blocked" /\ failure # NoFailure
  BY DEF Finish, RecordEvent, handVars
<1>2. /\ Sound(rt, byHand) /\ Shape(rt) /\ HintStillHolds(rt, byHand, hint)
  BY DEF IInv, Sound
<1>3. failure.needsUser \in BOOLEAN
  <2>1. CASE failure \in Failures
    BY <2>1 DEF Failures
  <2>2. CASE failure = NoFailure
    BY <2>2 DEF NoFailure
  <2> QED
    BY <2>1, <2>2
<1>4. GoodEvent(rt, e)
  BY <1>3 DEF GoodEvent, Event, EventTypes, RoleStatuses, Phases, None
<1>5. Shape(a) /\ Appended(rt, e, a)
  BY <1>2, <1>4, AppendKeepsShape
<1>6. /\ e.role = "owner" /\ e.status \in {"complete", "blocked"} /\ e.status # None
      /\ e.phase \in {"closed", "blocked"} /\ e.phase # None
      /\ e.type \in {"status", "blocker"}
      /\ e.type = "blocker" <=> e.phase = "blocked"
  BY DEF Event, None
<1> HIDE DEF a, e
<1>7. rt.blocked => a.blocked
  BY <1>5 DEF Appended, BlockedAfter
<1>8. ValidRuntime(a) => Sound(a, byHand)
  <2>1. a.phase \notin {"ready_for_monitor", "ready_to_finish"}
    BY <1>5, <1>6 DEF Appended
  <2>2. "monitor" \in DOMAIN a.roles =>
            "monitor" \in DOMAIN rt.roles /\ a.roles["monitor"] = rt.roles["monitor"]
    BY <1>5, <1>6 DEF Appended
  <2>3. a.verdict = rt.verdict
    <3>1. e.type # "monitor_verdict"
      BY <1>6
    <3> QED
      BY <1>5, <3>1 DEF Appended
  <2>4. a.blockers > 0 => rt.blockers > 0 \/ a.blocked
    BY <1>5, <1>6 DEF Appended, BlockedAfter
  <2> QED
    BY <1>2, <1>5, <1>7, <2>1, <2>2, <2>3, <2>4
    DEF Sound, TroubleIsKept, PhaseFollowsRoles, Appended
<1>9. Sound(rt', byHand') /\ (rt.blocked => rt'.blocked)
  BY <1>1, <1>2, <1>7, <1>8
<1>10. HintStillHolds(rt', byHand', hint')
  BY <1>1, NoHintHolds
<1>11. failure # NoFailure => rt'.blocked
  BY <1>1, <1>2, <1>9 DEF HintStillHolds
<1>12. QED
  BY <1>1, <1>9, <1>10, <1>11 DEF IInv

\* Every step keeps the invariant.
LEMMA StepSound ==
    ASSUME IInv, Next
    PROVE  IInv'
<1> USE DEF Note
<1>1. Shape(rt)
  BY DEF IInv, Sound
<1>2. ASSUME NEW role \in DOMAIN rt.roles, NEW target \in DOMAIN rt.roles \cup {None},
             AskQuestion(role, target)
      PROVE  IInv'
  <2> DEFINE e == Event(role, "question", None, None, target, FALSE, None)
  <2>1. GoodEvent(rt, e) /\ e.status = None /\ e.phase = None /\ e.type = "question"
    BY DEF Event, GoodEvent, EventTypes
  <2> HIDE DEF e
  <2>2. RecordEvent(e) /\ UNCHANGED <<run, hint, byHand>>
    BY <1>2 DEF AskQuestion, handVars, e
  <2> QED
    BY <2>1, <2>2, PlainStep
<1>3. ASSUME NEW role, NEW type \in {"concern", "blocker", "answer", "decision"},
             RecordEvent(Note(role, type)), UNCHANGED <<run, byHand>>, hint' = hint \/ hint' = NoHint
      PROVE  IInv'
  <2> DEFINE e == Note(role, type)
  <2>1. GoodEvent(rt, e) /\ e.status = None /\ e.phase = None /\ e.type = type
    BY DEF Event, GoodEvent, EventTypes
  <2> HIDE DEF e
  <2>2. RecordEvent(e)
    BY <1>3 DEF e
  <2> QED
    BY <1>3, <2>1, <2>2, PlainStep
<1>4. ASSUME NEW role \in DOMAIN rt.roles, RaiseConcern(role) \/ ReportBlocker(role)
      PROVE  IInv'
  BY <1>3, <1>4 DEF RaiseConcern, ReportBlocker, handVars
<1>5. ASSUME NEW role \in DOMAIN rt.roles, SendBack(role)
      PROVE  IInv'
  <2>1. MayMark(rt, byHand, role, "active")
    BY <1>5 DEF SendBack, MayMark
  <2> QED
    BY <1>5, <2>1, MarkStep DEF SendBack, handVars
<1>6. CASE AskNextRole
  <2>1. UNCHANGED <<rt, run, byHand>> /\ hint' = NextRole(rt) /\ rt.phase # "closed"
    BY <1>6 DEF AskNextRole, handVars
  <2>2. HintStillHolds(rt, byHand, NextRole(rt))
    BY <2>1, FreshHint DEF IInv
  <2> QED
    BY <2>1, <2>2 DEF IInv
<1>7. ASSUME NEW status \in {"complete", "blocked", "skipped"}, NEW accepted \in BOOLEAN,
             MarkRole(status, accepted)
      PROVE  IInv'
  <2>1. MayMark(rt, byHand, hint.role, status)
    BY <1>7 DEF MarkRole, MayMark, IInv, HintStillHolds
  <2> QED
    BY <1>7, <2>1, MarkStep DEF MarkRole
<1>8. CASE AnswerQuestion \/ Decide
  BY <1>3, <1>8 DEF AnswerQuestion, Decide, handVars
<1>9. ASSUME NEW status \in {"finished", "blocked"}, NEW failure \in Failures \cup {NoFailure},
             Finish(status, failure)
      PROVE  IInv'
  BY <1>9, FinishStep
<1>10. ASSUME NEW e \in Recorded, Record(e)
       PROVE  IInv'
  BY <1>10, RecordStep
<1>11. CASE UNCHANGED vars
  BY <1>11 DEF vars, handVars, IInv
<1>12. QED
  BY <1>2, <1>4, <1>5, <1>6, <1>7, <1>8, <1>9, <1>10, <1>11 DEF Next, OwnerStep

\* Every reachable runtime file is sound, and so is the hint its owner acts on.
THEOREM RunIsSound == Spec => []IInv
<1>1. ASSUME IInv, UNCHANGED vars
      PROVE  IInv'
  BY <1>1 DEF vars, handVars, IInv
<1>2. QED
  BY InitSound, StepSound, <1>1, PTL DEF Spec

-----------------------------------------------------------------------------
(* What the invariant gives                                                *)

\* The invariant gives the type.
LEMMA SoundIsTyped ==
    ASSUME IInv
    PROVE  TypeOK
<1>1. /\ Sound(rt, byHand) /\ Shape(rt) /\ ValidRuntime(rt)
      /\ byHand \subseteq DOMAIN rt.roles \cup {"monitor"}
  BY DEF IInv, Sound, TroubleIsKept
<1>2. \A i \in DOMAIN rt.questions : rt.questions[i].target \in DOMAIN rt.roles \cup {None}
  <2> SUFFICES ASSUME NEW i \in DOMAIN rt.questions
               PROVE  rt.questions[i].target \in DOMAIN rt.roles \cup {None}
    OBVIOUS
  <2>1. rt.questions \in Seq([target : DOMAIN rt.roles \cup {None}, open : BOOLEAN])
    BY <1>1 DEF Shape
  <2>2. i \in 1 .. Len(rt.questions)
    BY <2>1
  <2>3. rt.questions[i] \in [target : DOMAIN rt.roles \cup {None}, open : BOOLEAN]
    BY <2>1, <2>2, ElementOfSeq
  <2> QED
    BY <2>3
<1>3. hint = NoHint \/ hint.reason \in Reasons
  BY DEF IInv, HintStillHolds
<1>4. QED
  BY <1>1, <1>2, <1>3 DEF TypeOK, IInv, Shape

\* A runtime with a blocker or a rejection mark-role took is only ever called
\* blocked.
LEMMA TroubleBlocks ==
    ASSUME IInv
    PROVE  BlockerStopsTheRun
<1>1. Sound(rt, byHand) /\ Shape(rt) /\ TroubleIsKept(rt, byHand)
  BY DEF IInv, Sound
<1>2. ASSUME Started,
             rt.blockers > 0 \/ (rt.verdict = "rejected" /\ "monitor" \notin byHand)
      PROVE  NextRole(rt).reason = "blocked"
  <2>1. rt.blocked /\ rt.phase # "closed"
    BY <1>1, <1>2 DEF TroubleIsKept, ValidRuntime
  <2>2. Stuck(rt)
    BY <2>1 DEF Stuck
  <2> QED
    BY <1>1, <2>1, <2>2, SchedulerOrder
<1>3. QED
  BY <1>2 DEF BlockerStopsTheRun

\* Another attempt is proposed for a run that is stuck, or rejected by hand, only.
LEMMA RetriesAreStuck ==
    ASSUME IInv
    PROVE  RetryOnlyWhenStuck
<1> SUFFICES ASSUME PolicyAction(rt, run.status, run.failure) = "retry"
             PROVE  Stuck(rt) \/ (rt.verdict = "rejected" /\ "monitor" \in byHand)
  BY DEF RetryOnlyWhenStuck
<1>1. TroubleIsKept(rt, byHand) /\ Shape(rt)
  BY DEF IInv, Sound
<1> DEFINE signal == FailureSignal(rt, run.failure)
<1>2. signal.retryable \in {"yes", "after_fix"}
  BY DEF PolicyAction
<1>3. CASE run.failure # NoFailure
  BY <1>3 DEF IInv, Stuck
<1>4. CASE run.failure = NoFailure
  <2>1. rt.verdict = "rejected"
    BY <1>1, <1>2, <1>4 DEF FailureSignal, Signal, Shape
  <2> QED
    BY <1>1, <2>1 DEF TroubleIsKept, Stuck
<1>5. QED
  BY <1>3, <1>4

\* A run that is offered for finishing has every role settled.
LEMMA ReadyIsEveryone ==
    ASSUME IInv
    PROVE  ReadyMeansEveryoneIsDone
<1> SUFFICES ASSUME Started, NextRole(rt).reason \in {"ready_to_finish", "roles_complete",
                                                      "monitor_not_configured"}
             PROVE  /\ \A r \in DOMAIN rt.roles \ ({"owner"} \cup byHand) :
                           rt.roles[r] \in {"complete", "skipped"}
                    /\ ~HasOpenQuestion(rt) /\ ~rt.needsUser /\ rt.blockers = 0
                    /\ "monitor" \in DOMAIN rt.roles \ byHand /\ rt.roles["monitor"] = "complete"
                         => rt.verdict = "accepted"
  BY DEF ReadyMeansEveryoneIsDone
<1>1. Sound(rt, byHand) /\ Shape(rt) /\ TroubleIsKept(rt, byHand)
  BY DEF IInv, Sound
<1>2. /\ \A role \in {"implementer", "reviewer", "monitor"} : ThroughBut(rt, byHand, role)
      /\ ~HasOpenQuestion(rt) /\ ~rt.needsUser /\ ~Stuck(rt)
  <2>1. rt.phase # "closed"
    BY DEF NextRole
  <2> QED
    BY <1>1, <2>1, ReadyIsDone
<1>3. \A r \in DOMAIN rt.roles \ ({"owner"} \cup byHand) : rt.roles[r] \in {"complete", "skipped"}
  BY <1>1, <1>2, ShapeFacts DEF ThroughBut, Through, Incomplete
<1>4. rt.blockers = 0 /\ (rt.verdict = "rejected" => "monitor" \in byHand)
  BY <1>1, <1>2 DEF TroubleIsKept, Stuck, Shape
<1>5. "monitor" \in DOMAIN rt.roles \ byHand /\ rt.roles["monitor"] = "complete"
        => rt.verdict = "accepted"
  BY <1>1, <1>4 DEF TroubleIsKept, Shape
<1>6. QED
  BY <1>2, <1>3, <1>4, <1>5

\* The runtime file passes its validator after every command, a blocker, or a
\* rejection mark-role took, is never lost whatever is recorded after it, and
\* another attempt is proposed only for a run that cannot go on or was rejected by
\* hand: for any number of questions, concerns, roles sent back and events
\* recorded by hand, of whatever kind.
THEOREM RuntimeStaysConsistent == Spec => []RuntimeIsConsistent
BY RunIsSound, SoundIsTyped, TroubleBlocks, RetriesAreStuck, PTL DEF RuntimeIsConsistent

\* Whatever events are recorded by hand, the scheduler offers a run for finishing
\* only when every role is through whom no such event has marked or passed over,
\* the monitor that completed has accepted, and nothing is open.
THEOREM ReadyRunsAreDone == Spec => []ReadyMeansEveryoneIsDone
BY RunIsSound, ReadyIsEveryone, PTL

-----------------------------------------------------------------------------
(*                                 The plan                                *)
-----------------------------------------------------------------------------
WritersOf(p) == {r.provider : r \in {x \in p.roles : x.write}}

\* What PlansAreAccepted says of a plan.
Accepted(p) ==
    /\ ValidPlan(p)
    /\ Cardinality(WritersOf(p)) <= 1
    /\ \A r \in p.roles :
         /\ r.role = "monitor" => r.provider = "manual"
         /\ r.role = "reviewer" =>
              r.provider = "manual" \/ {r.provider} = WritersOf(p) \/ ~WriteAllowed(r.provider)

\* Whatever signals there are, an implementer and a reviewer are chosen for their roles.
LEMMA ChosenForTheirRoles ==
    ASSUME NEW t, NEW args \in Args
    PROVE  /\ ImplementerProfile(t) \in ImplementerProfiles
           /\ ReviewerProfile(t) \in ReviewerProfiles
           /\ args.implementerProfile # LeftOut => args.implementerProfile \in ImplementerProfiles
           /\ args.reviewerProfile # LeftOut => args.reviewerProfile \in ReviewerProfiles
<1>1. \A signals : \A p \in ImplementerProfiles : Specialist(signals, p) \in ImplementerProfiles
  BY DEF Specialist, ImplementerProfiles
<1>2. ImplementerProfile(t) \in ImplementerProfiles
  BY <1>1 DEF ImplementerProfile, ImplementerProfiles
<1>3. ReviewerProfile(t) \in ReviewerProfiles
  BY DEF ReviewerProfile, ReviewerProfiles
<1>4. QED
  BY <1>2, <1>3 DEF Args

\* The role, the profile and the provider of a role that is played by choice.
LEMMA ChosenRoles ==
    ASSUME NEW role \in {"contributor", "reviewer"}, NEW option, NEW selected, NEW provider,
           NEW write \in BOOLEAN, NEW profiles,
           selected \in profiles, option # LeftOut => option \in profiles
    PROVE  LET r == ChosenProfile(role, option, selected, provider, write)
           IN /\ r.role = role /\ r.provider = provider /\ r.write = write
              /\ r.profile \in profiles
BY DEF ChosenProfile, Role

\* A plan that is built passes the check, and keeps what is asked of its roles.
LEMMA BuiltIsAccepted ==
    ASSUME NEW t, NEW args \in Args, NEW reviewer \in Providers,
           args.agent # "gemini", ReviewerCompatible(args.agent, reviewer)
    PROVE  Accepted(Built(t, args, reviewer))
<1> DEFINE agent == args.agent
           lead == Role("lead", "owner_supervisor", "auto", "manual", FALSE)
           monitor == Role("monitor", "manual_monitor", "auto", "manual", FALSE)
           implementer == ChosenProfile("contributor", args.implementerProfile,
                                        ImplementerProfile(t), agent, agent # "manual")
           second == ChosenProfile("reviewer", args.reviewerProfile, ReviewerProfile(t),
                                   reviewer, FALSE)
           roles == Roles(t, args, reviewer)
           plan0 == Built(t, args, reviewer)
<1>1. agent \in {"codex", "claude", "manual"}
  BY DEF Args, Providers
<1>2. /\ lead.role = "lead" /\ lead.provider = "manual" /\ lead.write = FALSE
      /\ monitor.role = "monitor" /\ monitor.provider = "manual" /\ monitor.write = FALSE
  BY DEF Role
<1>3. /\ implementer.role = "contributor" /\ implementer.provider = agent
      /\ implementer.write = (agent # "manual")
      /\ implementer.profile \in ImplementerProfiles
  <2>1. PICK write \in BOOLEAN : write = (agent # "manual")
    OBVIOUS
  <2>2. implementer = ChosenProfile("contributor", args.implementerProfile,
                                    ImplementerProfile(t), agent, write)
    BY <2>1
  <2> HIDE DEF implementer, agent
  <2>3. /\ ImplementerProfile(t) \in ImplementerProfiles
        /\ args.implementerProfile # LeftOut => args.implementerProfile \in ImplementerProfiles
    BY ChosenForTheirRoles
  <2>4. /\ implementer.role = "contributor" /\ implementer.provider = agent
        /\ implementer.write = write /\ implementer.profile \in ImplementerProfiles
    BY <2>2, <2>3, ChosenRoles
  <2>5. QED
    BY <2>1, <2>4
<1>4. /\ second.role = "reviewer" /\ second.provider = reviewer /\ second.write = FALSE
      /\ second.profile \in ReviewerProfiles
  BY ChosenForTheirRoles, ChosenRoles
<1>5. CapableRole(lead) /\ CapableRole(monitor) /\ CapableRole(implementer) /\ CapableRole(second)
  <2>1. CapableRole(lead) /\ CapableRole(monitor)
    BY DEF CapableRole, Role, Serves, RoleOf, WriteAllowed, ImplementerProfiles, ReviewerProfiles
  <2> HIDE DEF implementer, second, agent
  <2>2. CapableRole(implementer)
    BY <1>1, <1>3 DEF CapableRole, Serves, RoleOf, WriteAllowed, ImplementerProfiles, ReviewerProfiles
  <2>3. CapableRole(second)
    BY <1>4 DEF CapableRole, Serves, RoleOf, WriteAllowed, ImplementerProfiles, ReviewerProfiles
  <2>4. QED
    BY <2>1, <2>2, <2>3
<1>6. /\ lead \in roles /\ implementer \in roles
      /\ Mode(t) = "team" => second \in roles
      /\ Mode(t) # "solo" => monitor \in roles
      /\ \A r \in roles : \/ r \in {lead, implementer}
                          \/ r = second /\ Mode(t) = "team"
                          \/ r = monitor /\ Mode(t) # "solo"
  BY DEF Roles
<1>7. /\ plan0.roles = roles /\ plan0.primary = agent
      /\ plan0.monitorRequired = (Mode(t) # "solo")
      /\ plan0.mode = StrategyMode(agent, Players(roles, "reviewer"))
  BY DEF Built
<1> HIDE DEF lead, monitor, implementer, second, roles, plan0, agent
<1>8. WritersOf(plan0) = IF agent = "manual" THEN {} ELSE {agent}
  BY <1>2, <1>3, <1>4, <1>6, <1>7 DEF WritersOf
<1>9. Cardinality(WritersOf(plan0)) <= 1
  <2>1. Cardinality({}) = 0 /\ Cardinality({agent}) = 1
    BY FS_EmptySet, FS_Singleton
  <2>2. QED
    BY <1>8, <2>1
<1>10. Players(roles, "reviewer") = IF Mode(t) = "team" THEN {reviewer} ELSE {}
  BY <1>2, <1>3, <1>4, <1>6 DEF Players
<1>11. "manual" \in Players(roles, "monitor") \/ Mode(t) = "solo"
  BY <1>2, <1>6 DEF Players
<1>12. reviewer \in {agent, "manual"} \/ ~WriteAllowed(reviewer)
  BY DEF ReviewerCompatible, agent
<1>13. ValidPlan(plan0)
  <2>1. \A r \in plan0.roles : CapableRole(r)
    BY <1>5, <1>6, <1>7
  <2>2. plan0.mode = "single_provider" =>
            Players(plan0.roles, "reviewer") \subseteq {plan0.primary, "manual"}
    BY <1>7 DEF StrategyMode
  <2>3. plan0.mode = "single_provider_with_read_only_reviewer" =>
            \E x \in Players(plan0.roles, "reviewer") : x # plan0.primary /\ ~WriteAllowed(x)
    <3>1. plan0.mode = "single_provider_with_read_only_reviewer" =>
              ~(Players(roles, "reviewer") \subseteq {agent, "manual"})
      BY <1>7 DEF StrategyMode
    <3>2. QED
      BY <1>7, <1>10, <1>12, <3>1
  <2>4. plan0.monitorRequired => Players(plan0.roles, "monitor") # {}
    BY <1>7, <1>11
  <2>5. QED
    BY <2>1, <2>2, <2>3, <2>4 DEF ValidPlan
<1>14. ASSUME NEW r \in roles
       PROVE  /\ r.role = "monitor" => r.provider = "manual"
              /\ r.role = "reviewer" =>
                   r.provider = "manual" \/ {r.provider} = WritersOf(plan0)
                   \/ ~WriteAllowed(r.provider)
  BY <1>2, <1>3, <1>4, <1>6, <1>8, <1>12
<1>15. QED
  BY <1>7, <1>9, <1>13, <1>14 DEF Accepted, plan0

\* A plan is accepted by the check that reads it whenever one is built, one provider at
\* most writes, and a reviewer of another cannot; for any task graph in any progress, any
\* profiles and all options (buildPlan, validateOrchestrationPlanData).
THEOREM BuiltPlansAreAccepted == PlanSpec => []PlansAreAccepted
<1>1. PlansAreAccepted <=> (plan # Refused => Accepted(plan))
  BY DEF PlansAreAccepted, Accepted, Writers, WritersOf
<1>2. PlanInit => PlansAreAccepted
  BY <1>1 DEF PlanInit
<1>3. ASSUME NEW asked, NEW args \in Args, Plan(asked, args), plan' # Refused
      PROVE  Accepted(plan')
  <2> DEFINE t == CHOOSE t \in Selected(asked) : TRUE
             reviewer == IF args.reviewer = LeftOut THEN args.agent ELSE args.reviewer
  <2>1. plan' = PlanFor(t, args) /\ plan' # Refused
    BY <1>3 DEF Plan
  <2>2. /\ plan' = Built(t, args, reviewer)
        /\ args.agent # "gemini" /\ ReviewerCompatible(args.agent, reviewer)
    BY <2>1 DEF PlanFor
  <2>3. reviewer \in Providers
    BY DEF Args
  <2>4. QED
    BY <2>2, <2>3, BuiltIsAccepted
<1>4. ASSUME PlansAreAccepted, PlanNext \/ UNCHANGED planVars
      PROVE  PlansAreAccepted'
  <2>1. CASE UNCHANGED plan
    BY <1>4, <2>1 DEF PlansAreAccepted, Writers
  <2>2. CASE plan' # plan
    <3>1. PICK asked, args : args \in Args /\ Plan(asked, args)
      BY <1>4, <2>2 DEF PlanNext, Progress, planVars
    <3>2. plan' # Refused => Accepted(plan')
      BY <1>3, <3>1
    <3>3. QED
      BY <3>2 DEF PlansAreAccepted, Accepted, Writers, WritersOf
  <2>3. QED
    BY <2>1, <2>2
<1>5. QED
  BY <1>2, <1>4, PTL DEF PlanSpec

-----------------------------------------------------------------------------
(*                       The gates of the artifacts                        *)
-----------------------------------------------------------------------------
(* The walk that finds the cycles                                          *)

\* The tasks of a graph are finitely many, and it names no others.
Known(g) == IsFiniteSet(DOMAIN g) /\ \A t \in DOMAIN g : g[t] \subseteq DOMAIN g

Outcome(g) == [cycle : BOOLEAN, visited : SUBSET DOMAIN g]

\* The task a walk comes to, and the walks below and beside it.
Node(w)         == CHOOSE t \in w.todo : TRUE
Below(g, w)     == [visiting |-> w.visiting \cup {Node(w)}, todo |-> g[Node(w)], visited |-> w.visited]
Beside(w, seen) == [visiting |-> w.visiting, todo |-> w.todo \ {Node(w)}, visited |-> seen]

\* What the walk answers, when v answers for the walks it goes on with.
Answered(g, v, w) ==
    IF w.todo = {} THEN [cycle |-> FALSE, visited |-> w.visited]
    ELSE IF Node(w) \in w.visiting THEN [cycle |-> TRUE, visited |-> w.visited]
    ELSE IF Node(w) \in w.visited THEN v[Beside(w, w.visited)]
    ELSE IF v[Below(g, w)].cycle THEN v[Below(g, w)]
    ELSE v[Beside(w, v[Below(g, w)].visited \cup {Node(w)})]

\* The tasks that are not on the way count more than those to do.
Weight(g, w) ==
    (Cardinality(DOMAIN g) + 1) * Cardinality(DOMAIN g \ w.visiting) + Cardinality(w.todo)

\* One task more on the way outweighs all that it brings to do.
LEMMA Outweighs ==
    ASSUME NEW n \in Nat, NEW a \in Nat, NEW b \in 0 .. n, NEW c \in Nat
    PROVE  (n + 1) * a + b < (n + 1) * (a + 1) + c
<1>1. (n + 1) * (a + 1) = (n + 1) * a + (n + 1)
  OBVIOUS
<1>2. PICK p \in Nat : p = (n + 1) * a
  OBVIOUS
<1>3. QED
  BY <1>1, <1>2

\* A walk goes on with lighter walks.
LEMMA WalksGetLighter ==
    ASSUME NEW g, Known(g), NEW w \in Walk(g)
    PROVE  /\ Weight(g, w) \in Nat
           /\ w.todo # {} =>
                /\ Node(w) \in w.todo /\ Node(w) \in DOMAIN g
                /\ \A seen \in SUBSET DOMAIN g :
                     Beside(w, seen) \in Walk(g) /\ Weight(g, Beside(w, seen)) < Weight(g, w)
                /\ Node(w) \notin w.visiting =>
                     Below(g, w) \in Walk(g) /\ Weight(g, Below(g, w)) < Weight(g, w)
<1>1. PICK N : N = DOMAIN g /\ IsFiniteSet(N) /\ \A t \in N : g[t] \subseteq N
  BY DEF Known
<1>2. /\ w.visiting \subseteq N /\ w.todo \subseteq N /\ w.visited \subseteq N
  BY <1>1 DEF Walk
<1>3. \A T \in SUBSET N : IsFiniteSet(T) /\ Cardinality(T) \in Nat /\ Cardinality(T) <= Cardinality(N)
  BY <1>1, FS_Subset, FS_CardinalityType
<1>4. PICK n \in Nat : n = Cardinality(N)
  BY <1>1, FS_CardinalityType
<1>5. PICK a, b \in Nat : a = Cardinality(N \ w.visiting) /\ b = Cardinality(w.todo)
  <2>1. N \ w.visiting \in SUBSET N /\ w.todo \in SUBSET N
    BY <1>2
  <2>2. QED
    BY <1>3, <2>1
<1>6. Weight(g, w) = (n + 1) * a + b
  BY <1>1, <1>4, <1>5 DEF Weight
<1>7. (n + 1) * a \in Nat
  OBVIOUS
<1>8. ASSUME w.todo # {}
      PROVE  /\ Node(w) \in w.todo /\ Node(w) \in DOMAIN g
             /\ \A seen \in SUBSET DOMAIN g :
                  Beside(w, seen) \in Walk(g) /\ Weight(g, Beside(w, seen)) < Weight(g, w)
             /\ Node(w) \notin w.visiting =>
                  Below(g, w) \in Walk(g) /\ Weight(g, Below(g, w)) < Weight(g, w)
  <2>1. PICK t : t = Node(w)
    OBVIOUS
  <2>2. t \in w.todo /\ t \in N
    BY <1>2, <1>8, <2>1 DEF Node
  <2>3. ASSUME NEW seen \in SUBSET N
        PROVE  Beside(w, seen) \in Walk(g) /\ Weight(g, Beside(w, seen)) < Weight(g, w)
    <3>1. PICK u : u = Beside(w, seen)
      OBVIOUS
    <3>2. u = [visiting |-> w.visiting, todo |-> w.todo \ {t}, visited |-> seen]
      BY <2>1, <3>1 DEF Beside
    <3>3. u.visiting = w.visiting /\ u.todo = w.todo \ {t}
      BY <3>2
    <3>4. u \in Walk(g)
      BY <1>1, <1>2, <3>2 DEF Walk
    <3>5. IsFiniteSet(w.todo)
      BY <1>2, <1>3
    <3>6. Cardinality(w.todo \ {t}) = b - 1
      BY <1>5, <2>2, <3>5, FS_RemoveElement
    <3>7. Weight(g, u) = (n + 1) * a + (b - 1)
      BY <1>1, <1>4, <1>5, <3>3, <3>6 DEF Weight
    <3>8. Weight(g, u) < Weight(g, w)
      BY <1>6, <1>7, <3>7
    <3>9. QED
      BY <3>1, <3>4, <3>8
  <2>4. ASSUME t \notin w.visiting
        PROVE  Below(g, w) \in Walk(g) /\ Weight(g, Below(g, w)) < Weight(g, w)
    <3>1. PICK u : u = Below(g, w)
      OBVIOUS
    <3>2. u = [visiting |-> w.visiting \cup {t}, todo |-> g[t], visited |-> w.visited]
      BY <2>1, <3>1 DEF Below
    <3>3. u.visiting = w.visiting \cup {t} /\ u.todo = g[t]
      BY <3>2
    <3>4. u \in Walk(g)
      BY <1>1, <1>2, <2>2, <3>2 DEF Walk
    <3>5. PICK P : P = N \ w.visiting
      OBVIOUS
    <3>6. IsFiniteSet(P) /\ t \in P
      <4>1. P \in SUBSET N
        BY <3>5
      <4>2. QED
        BY <1>3, <2>2, <2>4, <3>5, <4>1
    <3>7. N \ (w.visiting \cup {t}) = P \ {t}
      BY <3>5
    <3>8. Cardinality(P \ {t}) = a - 1 /\ Cardinality(P \ {t}) \in Nat
      <4>1. Cardinality(P \ {t}) = a - 1
        BY <1>5, <3>5, <3>6, FS_RemoveElement
      <4>2. P \ {t} \in SUBSET N
        BY <3>5
      <4>3. QED
        BY <1>3, <4>1, <4>2
    <3>9. PICK c \in Nat : c = a - 1 /\ a = c + 1
      BY <3>8
    <3>10. PICK d \in 0 .. n : d = Cardinality(g[t])
      <4>1. g[t] \in SUBSET N
        BY <1>1, <2>2
      <4>2. QED
        BY <1>3, <1>4, <4>1
    <3>11. Weight(g, u) = (n + 1) * c + d
      BY <1>1, <1>4, <3>3, <3>7, <3>8, <3>9, <3>10 DEF Weight
    <3>12. Weight(g, u) < Weight(g, w)
      BY <1>6, <3>9, <3>11, Outweighs
    <3>13. QED
      BY <3>1, <3>4, <3>12
  <2>5. QED
    BY <1>1, <2>1, <2>2, <2>3, <2>4
<1>9. QED
  BY <1>6, <1>7, <1>8

\* The answer to a walk is an outcome, and rests on those to lighter walks.
LEMMA AnswersRestOnLighter ==
    ASSUME NEW g, Known(g), NEW w \in Walk(g), NEW v \in [Walk(g) -> Outcome(g)]
    PROVE  /\ Answered(g, v, w) \in Outcome(g)
           /\ \A h :
                (\A u \in Walk(g) : Weight(g, u) < Weight(g, w) => v[u] = h[u])
                  => Answered(g, v, w) = Answered(g, h, w)
<1>1. \A u \in Walk(g) : v[u] \in Outcome(g) /\ v[u].visited \in SUBSET DOMAIN g
  BY DEF Outcome
<1>2. w.visited \in SUBSET DOMAIN g
  BY DEF Walk
<1>3. CASE w.todo = {}
  <2>1. \A h : Answered(g, h, w) = [cycle |-> FALSE, visited |-> w.visited]
    BY <1>3 DEF Answered
  <2>2. [cycle |-> FALSE, visited |-> w.visited] \in Outcome(g)
    BY <1>2 DEF Outcome
  <2>3. QED
    BY <2>1, <2>2
<1>4. CASE w.todo # {} /\ Node(w) \in w.visiting
  <2>1. \A h : Answered(g, h, w) = [cycle |-> TRUE, visited |-> w.visited]
    BY <1>4 DEF Answered
  <2>2. [cycle |-> TRUE, visited |-> w.visited] \in Outcome(g)
    BY <1>2 DEF Outcome
  <2>3. QED
    BY <2>1, <2>2
<1>5. CASE w.todo # {} /\ Node(w) \notin w.visiting /\ Node(w) \in w.visited
  <2>1. \A h : Answered(g, h, w) = h[Beside(w, w.visited)]
    BY <1>5 DEF Answered
  <2>2. Beside(w, w.visited) \in Walk(g) /\ Weight(g, Beside(w, w.visited)) < Weight(g, w)
    BY <1>2, <1>5, WalksGetLighter
  <2>3. QED
    BY <1>1, <2>1, <2>2
<1>6. CASE w.todo # {} /\ Node(w) \notin w.visiting /\ Node(w) \notin w.visited
  <2>1. PICK b : b = Below(g, w)
    OBVIOUS
  <2>2. b \in Walk(g) /\ Weight(g, b) < Weight(g, w) /\ Node(w) \in DOMAIN g
    BY <1>6, <2>1, WalksGetLighter
  <2>3. PICK o \in Outcome(g) : o = v[b]
    BY <1>1, <2>2
  <2>4. PICK u : u = Beside(w, o.visited \cup {Node(w)})
    OBVIOUS
  <2>5. u \in Walk(g) /\ Weight(g, u) < Weight(g, w)
    <3>1. o.visited \cup {Node(w)} \in SUBSET DOMAIN g
      BY <1>1, <2>2, <2>3
    <3>2. QED
      BY <1>6, <2>4, <3>1, WalksGetLighter
  <2>6. ASSUME NEW h, h[b] = o
        PROVE  Answered(g, h, w) = IF o.cycle THEN o ELSE h[u]
    BY <1>6, <2>1, <2>4, <2>6 DEF Answered
  <2>7. Answered(g, v, w) = IF o.cycle THEN o ELSE v[u]
    BY <2>3, <2>6
  <2>8. Answered(g, v, w) \in Outcome(g)
    BY <1>1, <2>5, <2>7
  <2>9. ASSUME NEW h,
               \A x \in Walk(g) : Weight(g, x) < Weight(g, w) => v[x] = h[x]
        PROVE  Answered(g, v, w) = Answered(g, h, w)
    <3>1. h[b] = o /\ h[u] = v[u]
      BY <2>2, <2>3, <2>5, <2>9
    <3>2. QED
      BY <2>6, <2>7, <3>1
  <2>10. QED
    BY <2>8, <2>9
<1>7. QED
  BY <1>3, <1>4, <1>5, <1>6

\* The walk answers as it is written.
LEMMA VisitIsDefined ==
    ASSUME NEW g, Known(g)
    PROVE  /\ Visit(g) \in [Walk(g) -> Outcome(g)]
           /\ \A w \in Walk(g) : Visit(g)[w] = Answered(g, Visit(g), w)
<1> DEFINE Solves(v) == v = [w \in Walk(g) |->
             IF w.todo = {} THEN [cycle |-> FALSE, visited |-> w.visited]
             ELSE IF Node(w) \in w.visiting THEN [cycle |-> TRUE, visited |-> w.visited]
             ELSE IF Node(w) \in w.visited THEN v[Beside(w, w.visited)]
             ELSE IF v[Below(g, w)].cycle THEN v[Below(g, w)]
             ELSE v[Beside(w, v[Below(g, w)].visited \cup {Node(w)})]]
<1>1. PICK W, R : W = Walk(g) /\ R = Outcome(g)
  OBVIOUS
<1>2. PICK m : m = [w \in W |-> Weight(g, w)]
  OBVIOUS
<1>3. PICK G : G = [v \in [W -> R] |-> [w \in W |-> Answered(g, v, w)]]
  OBVIOUS
<1>4. R # {}
  <2>1. [cycle |-> FALSE, visited |-> {}] \in R
    BY <1>1 DEF Outcome
  <2>2. QED
    BY <2>1
<1>5. ByMeasure(W, R, m, G)
  <2>1. m \in [W -> Nat] /\ \A w \in W : m[w] = Weight(g, w)
    BY <1>1, <1>2, WalksGetLighter
  <2>2. \A v \in [W -> R], w \in W : G[v][w] = Answered(g, v, w)
    BY <1>3
  <2>3. G \in [[W -> R] -> [W -> R]]
    BY <1>1, <1>3, AnswersRestOnLighter
  <2>4. ASSUME NEW v \in [W -> R], NEW h \in [W -> R], NEW w \in W,
               \A q \in W : m[q] < m[w] => v[q] = h[q]
        PROVE  G[v][w] = G[h][w]
    <3>1. \A u \in W : Weight(g, u) < Weight(g, w) => v[u] = h[u]
      BY <2>1, <2>4
    <3>2. Answered(g, v, w) = Answered(g, h, w)
      BY <1>1, <3>1, AnswersRestOnLighter
    <3>3. QED
      BY <2>2, <3>2
  <2>5. QED
    BY <2>1, <2>3, <2>4 DEF ByMeasure
<1>6. PICK f \in [W -> R] : f = G[f]
  BY <1>4, <1>5, RecursionByMeasure
<1>7. f = [w \in W |-> Answered(g, f, w)]
  <2>1. G[f] = [w \in W |-> Answered(g, f, w)]
    BY <1>3
  <2>2. QED
    BY <1>6, <2>1, Zenon
<1>8. \E v : Solves(v)
  <2>1. Solves(f)
    BY <1>1, <1>7, Zenon DEF Answered
  <2> HIDE DEF Solves
  <2>2. QED
    BY <2>1
<1>9. Visit(g) = CHOOSE v : Solves(v)
  BY Zenon DEF Visit, Node, Below, Beside
<1>10. PICK v : Solves(v) /\ v = Visit(g)
  <2> HIDE DEF Solves
  <2>1. QED
    BY <1>8, <1>9
<1>11. v = [w \in W |-> Answered(g, v, w)]
  BY <1>1, <1>10, Zenon DEF Answered
<1>12. \A w \in W : v[w] = Answered(g, v, w)
  BY <1>11
<1>13. PICK r \in R : TRUE
  BY <1>4
<1>14. PICK typed : typed = [w \in W |-> IF v[w] \in R THEN v[w] ELSE r]
  OBVIOUS
<1>15. typed \in [W -> R] /\ \A w \in W : v[w] \in R => typed[w] = v[w]
  BY <1>14
<1> DEFINE S == {k \in Nat : \A w \in W : Weight(g, w) < k => v[w] \in R}
<1>16. \A w \in W : Weight(g, w) \in Nat
  BY <1>1, WalksGetLighter
<1>17. 0 \in S
  BY <1>16
<1>18. ASSUME NEW k \in Nat, k \in S
       PROVE  k + 1 \in S
  <2> SUFFICES ASSUME NEW w \in W, Weight(g, w) < k + 1
               PROVE  v[w] \in R
    OBVIOUS
  <2>1. \A u \in W : Weight(g, u) < Weight(g, w) => typed[u] = v[u]
    <3>1. \A u \in W : Weight(g, u) < Weight(g, w) => Weight(g, u) < k
      BY <1>16
    <3>2. QED
      BY <1>15, <1>18, <3>1
  <2>2. Answered(g, typed, w) = Answered(g, v, w) /\ Answered(g, typed, w) \in R
    BY <1>1, <1>15, <2>1, AnswersRestOnLighter
  <2>3. QED
    BY <1>12, <2>2
<1>19. \A w \in W : v[w] \in R
  <2> HIDE DEF S
  <2>1. Nat \subseteq S
    BY <1>17, <1>18, AllNumbers
  <2>2. \A w \in W : Weight(g, w) + 1 \in Nat /\ Weight(g, w) < Weight(g, w) + 1
    BY <1>16
  <2>3. QED
    BY <2>1, <2>2 DEF S
<1>20. v \in [W -> R]
  BY <1>11, <1>19
<1>21. QED
  BY <1>1, <1>10, <1>12, <1>20

\* What has been visited depends only on what has been visited, and no task of it
\* on itself.
Settled(g, S) == Closed(g, S) /\ \A t \in S : ~Reaches(g, t, t)

\* A cycle that is answered is one if the tasks on the way depend on those to do, and
\* where none is answered all are visited and settled.
Truthful(g, w, answer) ==
    /\ answer.cycle /\ (\A x \in w.visiting, y \in w.todo : Reaches(g, x, y))
         => \E t \in DOMAIN g : Reaches(g, t, t)
    /\ ~answer.cycle /\ Settled(g, w.visited)
         => w.visited \cup w.todo \subseteq answer.visited /\ Settled(g, answer.visited)

\* A task depends on its dependencies, and on theirs.
LEMMA ReachesFurther ==
    ASSUME NEW g, NEW x, NEW y \in DOMAIN g, NEW z \in g[y]
    PROVE  Reaches(g, y, z) /\ (Reaches(g, x, y) => Reaches(g, x, z))
  BY DEF Reaches, Closed

\* When the dependencies of a task are settled, so is the task.
LEMMA SettledGrows ==
    ASSUME NEW g, Known(g), NEW S \in SUBSET DOMAIN g, Settled(g, S), NEW t \in DOMAIN g,
           g[t] \subseteq S
    PROVE  Settled(g, S \cup {t})
<1>1. Closed(g, S) /\ Closed(g, S \cup {t})
  BY DEF Settled, Closed
<1>2. t \notin S => ~Reaches(g, t, t)
  BY <1>1 DEF Reaches
<1>3. QED
  BY <1>1, <1>2 DEF Settled

\* The walk is truthful, if the lighter walks are.
LEMMA WalkIsTruthful ==
    ASSUME NEW g, Known(g), NEW w \in Walk(g), NEW v \in [Walk(g) -> Outcome(g)],
           v[w] = Answered(g, v, w),
           \A u \in Walk(g) : Weight(g, u) < Weight(g, w) => Truthful(g, u, v[u])
    PROVE  Truthful(g, w, v[w])
<1>1. \A u \in Walk(g) : v[u].visited \in SUBSET DOMAIN g
  BY DEF Outcome
<1>2. w.visiting \in SUBSET DOMAIN g /\ w.todo \in SUBSET DOMAIN g /\ w.visited \in SUBSET DOMAIN g
  BY DEF Walk
<1>3. PICK a : a = v[w]
  OBVIOUS
<1>4. CASE w.todo = {}
  <2>1. a = [cycle |-> FALSE, visited |-> w.visited]
    BY <1>3, <1>4 DEF Answered
  <2>2. ~a.cycle /\ a.visited = w.visited
    BY <2>1
  <2>3. QED
    BY <1>3, <1>4, <2>2 DEF Truthful
<1>5. CASE w.todo # {} /\ Node(w) \in w.visiting
  <2>1. a = [cycle |-> TRUE, visited |-> w.visited]
    BY <1>3, <1>5 DEF Answered
  <2>2. a.cycle = TRUE /\ Node(w) \in w.todo
    BY <1>5, <2>1, WalksGetLighter
  <2>3. QED
    BY <1>2, <1>3, <1>5, <2>2 DEF Truthful
<1>6. CASE w.todo # {} /\ Node(w) \notin w.visiting /\ Node(w) \in w.visited
  <2>1. PICK u : u = Beside(w, w.visited)
    OBVIOUS
  <2>2. u \in Walk(g) /\ Truthful(g, u, v[u])
    BY <1>2, <1>6, <2>1, WalksGetLighter
  <2>3. a = v[u]
    BY <1>3, <1>6, <2>1 DEF Answered
  <2>4. u.visiting = w.visiting /\ u.todo = w.todo \ {Node(w)} /\ u.visited = w.visited
    BY <2>1 DEF Beside
  <2>5. QED
    BY <1>3, <1>6, <2>2, <2>3, <2>4 DEF Truthful
<1>7. CASE w.todo # {} /\ Node(w) \notin w.visiting /\ Node(w) \notin w.visited
  <2>1. PICK t, b : t = Node(w) /\ b = Below(g, w)
    OBVIOUS
  <2>2. b \in Walk(g) /\ Truthful(g, b, v[b]) /\ t \in DOMAIN g /\ t \in w.todo
    BY <1>7, <2>1, WalksGetLighter
  <2>3. b.visiting = w.visiting \cup {t} /\ b.todo = g[t] /\ b.visited = w.visited
    BY <2>1 DEF Below
  <2>4. PICK o : o = v[b]
    OBVIOUS
  <2>5. o.visited \in SUBSET DOMAIN g
    BY <1>1, <2>2, <2>4
  <2>6. (\A x \in w.visiting, y \in w.todo : Reaches(g, x, y))
          => \A x \in b.visiting, y \in b.todo : Reaches(g, x, y)
    BY <2>2, <2>3, ReachesFurther
  <2>7. CASE o.cycle
    <3>1. a = o
      BY <1>3, <1>7, <2>1, <2>4, <2>7 DEF Answered
    <3>2. QED
      BY <1>3, <2>2, <2>4, <2>6, <2>7, <3>1 DEF Truthful
  <2>8. CASE ~o.cycle
    <3>1. PICK seen : seen = o.visited \cup {t}
      OBVIOUS
    <3>2. PICK u : u = Beside(w, seen)
      OBVIOUS
    <3>3. seen \in SUBSET DOMAIN g
      BY <2>2, <2>5, <3>1
    <3>4. u \in Walk(g) /\ Truthful(g, u, v[u])
      BY <1>7, <3>2, <3>3, WalksGetLighter
    <3>5. a = v[u]
      BY <1>3, <1>7, <2>1, <2>4, <2>8, <3>1, <3>2 DEF Answered
    <3>6. u.visiting = w.visiting /\ u.todo = w.todo \ {t} /\ u.visited = seen
      BY <2>1, <3>2 DEF Beside
    <3>7. Settled(g, w.visited) => w.visited \subseteq seen /\ t \in seen /\ Settled(g, seen)
      <4>1. ASSUME Settled(g, w.visited)
            PROVE  w.visited \cup g[t] \subseteq o.visited /\ Settled(g, o.visited)
        BY <2>2, <2>3, <2>4, <2>8, <4>1 DEF Truthful
      <4>2. QED
        BY <2>2, <2>5, <3>1, <4>1, SettledGrows
    <3>8. QED
      BY <1>3, <3>4, <3>5, <3>6, <3>7 DEF Truthful
  <2>9. QED
    BY <2>7, <2>8
<1>8. QED
  BY <1>4, <1>5, <1>6, <1>7

\* A graph is cyclic if and only if a task depends on itself in the end.
LEMMA CyclicMeansCycle ==
    ASSUME NEW g, Known(g)
    PROVE  Cyclic(g) <=> \E t \in DOMAIN g : Reaches(g, t, t)
<1>1. PICK v : v = Visit(g)
  OBVIOUS
<1>2. v \in [Walk(g) -> Outcome(g)] /\ \A w \in Walk(g) : v[w] = Answered(g, v, w)
  BY <1>1, VisitIsDefined
<1> DEFINE S == {k \in Nat : \A w \in Walk(g) : Weight(g, w) < k => Truthful(g, w, v[w])}
<1>3. \A w \in Walk(g) : Weight(g, w) \in Nat
  BY WalksGetLighter
<1>4. 0 \in S
  BY <1>3
<1>5. ASSUME NEW k \in Nat, k \in S
      PROVE  k + 1 \in S
  <2> SUFFICES ASSUME NEW w \in Walk(g), Weight(g, w) < k + 1
               PROVE  Truthful(g, w, v[w])
    OBVIOUS
  <2>1. \A u \in Walk(g) : Weight(g, u) < Weight(g, w) => Weight(g, u) < k
    BY <1>3
  <2>2. \A u \in Walk(g) : Weight(g, u) < Weight(g, w) => Truthful(g, u, v[u])
    BY <1>5, <2>1
  <2>3. QED
    BY <1>2, <2>2, WalkIsTruthful
<1>6. \A w \in Walk(g) : Truthful(g, w, v[w])
  <2> HIDE DEF S
  <2>1. Nat \subseteq S
    BY <1>4, <1>5, AllNumbers
  <2>2. \A w \in Walk(g) : Weight(g, w) + 1 \in Nat /\ Weight(g, w) < Weight(g, w) + 1
    BY <1>3
  <2>3. QED
    BY <2>1, <2>2 DEF S
<1>7. PICK all : all = [visiting |-> {}, todo |-> DOMAIN g, visited |-> {}]
  OBVIOUS
<1>8. all \in Walk(g) /\ all.visiting = {} /\ all.todo = DOMAIN g /\ all.visited = {}
  BY <1>7 DEF Walk
<1>9. PICK a : a = v[all]
  OBVIOUS
<1>10. a.visited \in SUBSET DOMAIN g /\ a.cycle \in BOOLEAN /\ Truthful(g, all, a)
  BY <1>2, <1>6, <1>8, <1>9 DEF Outcome
<1>11. Settled(g, {})
  BY DEF Settled, Closed
<1>12. Cyclic(g) = a.cycle
  BY <1>1, <1>7, <1>9, Zenon DEF Cyclic
<1>13. a.cycle => \E t \in DOMAIN g : Reaches(g, t, t)
  BY <1>8, <1>10 DEF Truthful
<1>14. ~a.cycle => \A t \in DOMAIN g : ~Reaches(g, t, t)
  BY <1>8, <1>10, <1>11 DEF Truthful, Settled
<1>15. QED
  BY <1>10, <1>12, <1>13, <1>14

-----------------------------------------------------------------------------
(* The gates                                                               *)

\* The decisions of the intake have a status, and the graph has finitely many tasks.
GateInv ==
    /\ intake \in [status : {"blocked_on_user", "ready_for_spec"},
                   decisions : [Decisions -> [status : {"open", "deferred", "answered"},
                                              answer : BOOLEAN]],
                   staleText : BOOLEAN]
    /\ IsFiniteSet(DOMAIN graph)

\* Every file that is written keeps it so.
LEMMA GateStep ==
    ASSUME GateInv, GateNext \/ UNCHANGED gateVars
    PROVE  GateInv'
<1>1. CASE EditIntake
  <2>1. graph' = graph
    BY <1>1 DEF EditIntake
  <2>2. CASE \E d \in Decisions, s \in {"open", "deferred", "answered"}, a \in BOOLEAN :
               intake' = [intake EXCEPT !.decisions[d] = [status |-> s, answer |-> a]]
    BY <2>1, <2>2 DEF GateInv
  <2>3. CASE \E s \in {"blocked_on_user", "ready_for_spec"} : intake' = [intake EXCEPT !.status = s]
    BY <2>1, <2>3 DEF GateInv
  <2>4. CASE \E stale \in BOOLEAN : intake' = [intake EXCEPT !.staleText = stale]
    BY <2>1, <2>4 DEF GateInv
  <2>5. QED
    BY <1>1, <2>2, <2>3, <2>4 DEF EditIntake
<1>2. CASE WriteGraph
  <2>1. intake' = intake /\ graph' \in {NoGraph} \cup TaskGraphs
    BY <1>2 DEF WriteGraph
  <2>2. IsFiniteSet(DOMAIN NoGraph)
    <3>1. DOMAIN NoGraph = {}
      BY DEF NoGraph
    <3>2. QED
      BY <3>1, FS_EmptySet
  <2>3. IsFiniteSet(DOMAIN graph')
    BY <2>1, <2>2, GatesAssumption
  <2>4. QED
    BY <2>1, <2>3 DEF GateInv
<1>3. CASE WriteSpec \/ EditSpec \/ WriteReview \/ WriteAudit \/ UNCHANGED gateVars
  <2>1. intake' = intake /\ graph' = graph
    BY <1>3 DEF WriteSpec, EditSpec, WriteReview, WriteAudit, gateVars
  <2>2. QED
    BY <2>1 DEF GateInv
<1>4. QED
  BY <1>1, <1>2, <1>3 DEF GateNext

\* The graph that is accepted has only its own tasks and no cycle.
LEMMA AcceptedGraphs ==
    ASSUME GateInv
    PROVE  ValidGraph(graph) <=> /\ \A t \in DOMAIN graph : graph[t] \subseteq DOMAIN graph
                                 /\ \A t \in DOMAIN graph : ~Reaches(graph, t, t)
<1>1. CASE \A t \in DOMAIN graph : graph[t] \subseteq DOMAIN graph
  <2>1. Known(graph)
    BY <1>1 DEF GateInv, Known
  <2>2. Cyclic(graph) <=> \E t \in DOMAIN graph : Reaches(graph, t, t)
    BY <2>1, CyclicMeansCycle
  <2>3. QED
    BY <1>1, <2>2 DEF ValidGraph
<1>2. CASE ~(\A t \in DOMAIN graph : graph[t] \subseteq DOMAIN graph)
  BY <1>2 DEF ValidGraph
<1>3. QED
  BY <1>1, <1>2

\* What may be handed off is settled.
LEMMA ReadyIsSettled ==
    ASSUME GateInv
    PROVE  HandoffIsSettled
<1> SUFFICES ASSUME HandoffReady
             PROVE  /\ \A d \in Decisions : intake.decisions[d].status = "answered"
                    /\ \A q \in Questions : spec.answers[q] \notin {"missing", "promoted"}
                    /\ \A t \in DOMAIN graph : ~Reaches(graph, t, t)
  BY DEF HandoffIsSettled
<1>1. ValidSpec /\ spec.open = {} /\ ValidGraph(graph)
  BY DEF HandoffReady, ValidRoot, ValidTaskGraph
<1>2. Unresolved = {} /\ PromotedIn({"promoted"}) = {}
  BY <1>1 DEF ValidSpec
<1>3. \A d \in Decisions : intake.decisions[d].status = "answered"
  <2>1. \A d \in Decisions : intake.decisions[d].status \in {"open", "deferred", "answered"}
    BY DEF GateInv
  <2>2. QED
    BY <1>2, <2>1 DEF Unresolved
<1>4. \A q \in Questions : spec.answers[q] # "missing"
  BY <1>1 DEF ValidSpec, ValidDispositions
<1>5. \A q \in Questions : spec.answers[q] # "promoted"
  BY <1>2 DEF PromotedIn
<1>6. QED
  BY <1>1, <1>3, <1>4, <1>5, AcceptedGraphs

\* What validate_artifacts calls ready for hand-off rests on nothing open, and it refuses
\* a task graph exactly when it names an unknown task or has a cycle.
THEOREM GatesLetNothingThrough == GateSpec => []GatesHold
<1>1. GateInit => GateInv
  <2>1. DOMAIN NoGraph = {}
    BY DEF NoGraph
  <2>2. IsFiniteSet(DOMAIN NoGraph)
    BY <2>1, FS_EmptySet
  <2>3. QED
    BY <2>2 DEF GateInit, GateInv
<1>2. GateInv /\ [GateNext]_gateVars => GateInv'
  BY GateStep
<1>3. GateInv => GatesHold
  BY ReadyIsSettled, AcceptedGraphs DEF GatesHold, CyclesAreFound
<1>4. QED
  BY <1>1, <1>2, <1>3, PTL DEF GateSpec
=============================================================================
