----------------------------- MODULE SemanticDiff -----------------------------
(***************************************************************************)
(* The task graph of an iteration, as p2a_iteration diff-tasks derives it  *)
(* from what the approved spec changes or promote-tasks takes it from a    *)
(* draft somebody wrote, and as p2a_tasks moves its tasks.                 *)
(*                                                                         *)
(* The spec is seen through its changes: each field is the same as in the  *)
(* baseline or differs, and the words of the difference put it into one    *)
(* of the semantic areas.                                                  *)
(***************************************************************************)
EXTENDS Naturals, Sequences, FiniteSets, SequencesExt, FiniteSetsExt

CONSTANTS Fields,      \* fields of the spec whose area is up to their words
          Affected,    \* those of them that answers to user questions affect
          AreaOrder,   \* the areas between requirements and verification, in order
          Authored,    \* the drafts that may be promoted: see AuthoredAssumption
          MaxEdits, MaxDerivations, MaxMoves

VARIABLES spec,     \* the area of the change of each field, or "same"
          graph,    \* the canonical tasks, <<>> when there is no graph
          promoted, \* whether the graph is a draft that was promoted
          worked,   \* the ids of tasks that have been moved at all
          edits, derivations, moves

diffVars == <<spec, graph, promoted, worked, edits, derivations, moves>>

\* In the order the tasks are listed; a change that scores nowhere is misc.
Areas == <<"requirements">> \o AreaOrder \o <<"verification", "misc">>

\* Two more fields have an area of their own: the tests of the implementation,
\* and what became of the questions to the user.
Refs == Fields \cup {"verification", "questions"}

ASSUME DiffAssumption ==
    /\ IsFiniteSet(Fields) /\ Fields \cap {"verification", "questions"} = {}
    /\ AreaOrder \in Seq(Range(AreaOrder)) /\ {"same", "other"} \cap Range(Areas) = {}
    /\ \A m, n \in DOMAIN Areas : Areas[m] = Areas[n] => m = n

AreasFor(ref) ==
    CASE ref = "verification" -> {"verification"}
      [] ref = "questions"    -> {"requirements"}
      [] OTHER                -> Range(Areas)

\* The words of a task are the areas the first word of whose label is in its title;
\* somebody may write any area, and any title.
Task == [id : Nat \ {0}, area : Range(Areas) \cup {"other"}, words : SUBSET Range(Areas),
         refs : SUBSET Refs, deps : SUBSET Nat,
         status : {"todo", "in_progress", "done", "blocked"}]

\* Holds what task i of g waits for, and what those of it wait for.
ClosedBefore(g, i, S) ==
    \A j \in DOMAIN g :
        (g[j].id \in g[i].deps \/ \E k \in S : g[j].id \in g[k].deps) => j \in S

\* The tasks i waits for, at any remove: what detectCycles walks through.
Before(g, i) == {j \in DOMAIN g : \A S \in SUBSET DOMAIN g : ClosedBefore(g, i, S) => j \in S}

\* The tasks have distinct ids and none waits for itself.
Sound(g) ==
    /\ \A i, j \in DOMAIN g : g[i].id = g[j].id => i = j
    /\ \A i \in DOMAIN g : i \notin Before(g, i)

\* A draft that does not validate is not promoted.
ASSUME AuthoredAssumption == \A g \in Authored :
    /\ g \in Seq(Task) /\ g # <<>> /\ Sound(g)
    /\ \A i \in DOMAIN g : g[i].deps \subseteq {g[j].id : j \in DOMAIN g}

DiffTypeOK ==
    /\ DOMAIN spec = Refs /\ \A r \in Refs : spec[r] \in AreasFor(r) \cup {"same"}
    /\ graph \in Seq(Task) /\ promoted \in BOOLEAN

DiffInit ==
    /\ spec = [r \in Refs |-> "same"]
    /\ graph = <<>> /\ promoted = FALSE /\ worked = {}
    /\ edits = 0 /\ derivations = 0 /\ moves = 0

-----------------------------------------------------------------------------
(* The groups of changes                                                   *)

Changed == {r \in Refs : spec[r] # "same"}

\* Answers that a change affects are reviewed with the requirements.
OwnRefs(area) ==
    {r \in Changed : spec[r] = area}
      \cup IF area = "requirements" /\ Changed \cap Affected # {} THEN {"questions"} ELSE {}

\* There is always something to verify, if only that nothing has changed.
RefsIn(area) ==
    IF area = "verification" /\ OwnRefs(area) = {} THEN {"verification"} ELSE OwnRefs(area)

\* A group of verification that is only added comes last, behind misc.
Listed == Areas \o <<"verification">>

\* Mutant of Groups: a change that fits no area is passed over.
GroupsWithoutMisc ==
    {n \in DOMAIN Areas : OwnRefs(Areas[n]) # {} /\ Areas[n] # "misc"}
      \cup IF OwnRefs("verification") = {} THEN {Len(Listed)} ELSE {}

\* The places in the list that have something to do.
Groups ==
    {n \in DOMAIN Areas : OwnRefs(Areas[n]) # {}}
      \cup IF OwnRefs("verification") = {} THEN {Len(Listed)} ELSE {}

-----------------------------------------------------------------------------
(* The tasks                                                               *)

\* How well an old task fits a group; done work is not taken up again.
Fit(area, task) ==
    IF task.status = "done" THEN 0
    ELSE 4 * Cardinality(RefsIn(area) \cap task.refs)
           + (IF task.area = area THEN 6 ELSE 0) + (IF area \in task.words THEN 1 ELSE 0)

\* Those that fit and that no earlier group has taken.
Reusable(area, old, used) == {i \in DOMAIN old : old[i].id \notin used /\ Fit(area, old[i]) > 0}

\* The first of those that fit best.
BestOf(area, old, used) ==
    CHOOSE i \in Reusable(area, old, used) : \A j \in Reusable(area, old, used) :
        \/ Fit(area, old[i]) > Fit(area, old[j])
        \/ Fit(area, old[i]) = Fit(area, old[j]) /\ i <= j

\* Mutant of FirstNewId: the tasks are counted.
CountedId(old) == Len(old) + 1

FirstNewId(old) == Max({0} \cup {old[i].id : i \in DOMAIN old}) + 1

\* One slot for each group: an old task under its id and status, or a new one.
Slot(acc, area, old) ==
    LET t == old[BestOf(area, old, acc.used)]
    IN IF Reusable(area, old, acc.used) # {}
         THEN [used  |-> acc.used \cup {t.id}, next |-> acc.next,
               slots |-> Append(acc.slots, [id |-> t.id, area |-> area, status |-> t.status])]
         ELSE [used  |-> acc.used, next |-> acc.next + 1,
               slots |-> Append(acc.slots, [id |-> acc.next, area |-> area, status |-> "todo"])]

Slots(old) ==
    LET after[n \in 0 .. Len(Listed)] ==
            IF n = 0 THEN [used |-> {}, next |-> FirstNewId(old), slots |-> <<>>]
            ELSE IF n \in Groups THEN Slot(after[n - 1], Listed[n], old) ELSE after[n - 1]
    IN after[Len(Listed)].slots

\* Requirements come first and verification last.
IdsIn(areas, slots) == {slots[j].id : j \in {k \in DOMAIN slots : slots[k].area \in areas}}

Dependencies(slot, slots) ==
    CASE slot.area = "requirements" -> {}
      [] slot.area = "verification" ->
             IdsIn(Range(Areas) \ {"verification"}, slots) \ {slot.id}
      [] OTHER -> IdsIn({"requirements"}, slots) \ {slot.id}

\* The task of a group is titled with its label; that of verification is not.
TitleWords(area) == IF area = "verification" THEN {} ELSE {area}

Tasks(old) ==
    LET slots == Slots(old)
    IN [i \in DOMAIN slots |->
          [id |-> slots[i].id, area |-> slots[i].area, status |-> slots[i].status,
           words |-> TitleWords(slots[i].area), refs |-> RefsIn(slots[i].area),
           deps |-> Dependencies(slots[i], slots)]]

-----------------------------------------------------------------------------
(* The commands                                                            *)

\* A graph is put in place of the one there may be.
Replace(g, authored) ==
    /\ IF graph = <<>> THEN UNCHANGED derivations
                       ELSE derivations < MaxDerivations /\ derivations' = derivations + 1
    /\ graph' = g /\ promoted' = authored
    /\ UNCHANGED <<spec, worked, edits, moves>>

\* Over a graph that exists only with --force, which keeps what can be reused.
DeriveTasks == Replace(Tasks(graph), FALSE)

\* A draft is promoted whatever graph there is.
PromoteDraft(draft) == Replace(draft, TRUE)

\* The spec is revised, and approved again.
EditSpec(ref, words) ==
    /\ edits < MaxEdits
    /\ spec[ref] # words
    /\ spec' = [spec EXCEPT ![ref] = words]
    /\ edits' = edits + 1
    /\ UNCHANGED <<graph, promoted, worked, derivations, moves>>

StatusOf(id) == graph[SelectInSeq(graph, LAMBDA t : t.id = id)].status

Move(i, from, to) ==
    /\ moves < MaxMoves /\ graph[i].status \in from
    /\ graph' = [graph EXCEPT ![i].status = to]
    /\ worked' = worked \cup {graph[i].id}
    /\ moves' = moves + 1
    /\ UNCHANGED <<spec, promoted, edits, derivations>>

StartTask(i) ==
    /\ \A d \in graph[i].deps : StatusOf(d) = "done"
    /\ Move(i, {"todo"}, "in_progress")

FinishTask(i) == Move(i, {"in_progress"}, "done")
BlockTask(i)  == Move(i, {"todo", "in_progress", "done"}, "blocked")
ReopenTask(i) == Move(i, {"in_progress", "done", "blocked"}, "todo")

DiffNext ==
    \/ DeriveTasks \/ \E draft \in Authored : PromoteDraft(draft)
    \/ \E ref \in Refs : \E words \in AreasFor(ref) \cup {"same"} : EditSpec(ref, words)
    \/ \E i \in DOMAIN graph :
           StartTask(i) \/ FinishTask(i) \/ BlockTask(i) \/ ReopenTask(i)

DiffSpec == DiffInit /\ [][DiffNext]_diffVars

-----------------------------------------------------------------------------
(* What a derived graph must be, however often it is derived               *)

\* Whatever was reused, the tasks have distinct ids, none waits for itself, and in
\* a graph that was derived verification waits for all the others.
GraphIsSound ==
    /\ Sound(graph)
    /\ ~promoted => \A i, j \in DOMAIN graph :
         graph[i].area = "verification" /\ i # j => j \in Before(graph, i)

\* A step that derives the graph.
Derived == moves' = moves /\ edits' = edits /\ ~promoted'

\* Right after it is derived the graph plans every change once, and plans no
\* field that is as it was but the tests and the answers to look at again.
ChangesArePlannedOnce ==
    [][Derived =>
         /\ \A r \in Changed : Cardinality({i \in DOMAIN graph' : r \in graph'[i].refs}) = 1
         /\ \A i \in DOMAIN graph' :
              graph'[i].refs \subseteq Changed \cup {"verification", "questions"}]_diffVars

\* The graph is sound, and right after it is derived plans every change once.
EveryChangeIsPlanned == []GraphIsSound /\ ChangesArePlannedOnce

\* A derived graph gives the number of an old task only to work that is of its
\* area, touches a field it touched or, where somebody wrote the old task, is named
\* in its title; as far along as that task was, and never the number of a task that
\* was done.
NumbersKeepTheirWork ==
    [][Derived =>
         \A i \in DOMAIN graph, j \in DOMAIN graph' :
           graph[i].id = graph'[j].id =>
             /\ \/ graph[i].area = graph'[j].area \/ graph[i].refs \cap graph'[j].refs # {}
                \/ promoted /\ graph'[j].area \in graph[i].words
             /\ graph[i].status = graph'[j].status /\ graph[i].status # "done"]_diffVars

\* "If any task is `in_progress`, `done`, or `blocked`, or any run history exists
\* even after reopening a task, do not replace the graph": once a task has been
\* worked on, its graph keeps its tasks.
WorkIsNotReplaced ==
    [][worked # {} =>
          {graph[i].id : i \in DOMAIN graph} = {graph'[i].id : i \in DOMAIN graph'}]_diffVars
=============================================================================
