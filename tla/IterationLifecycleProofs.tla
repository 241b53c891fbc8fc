------------------------ MODULE IterationLifecycleProofs -----------------------
(***************************************************************************)
(* What holds of the iterations of a project for every number of them and  *)
(* of commands that die: the active pointer leaves only what is closed,    *)
(* what is behind it is never written again, init moves all of the         *)
(* greenfield gates or none, and a chain of iterations composes without a  *)
(* conflict.  And what holds of the proposals for every number of runs,    *)
(* approvers and approvals that die: no approval without its task, no      *)
(* candidate without its evidence, no decision overwritten.  And that the  *)
(* derived tasks plan every change once and keep their numbers.            *)
(***************************************************************************)
EXTENDS IterationLifecycle, SemanticDiff, Proposals, GraphTraceProofs, FiniteSetTheorems,
        SequenceTheorems, TLAPS

StatusFiles == [active : Ids, gateB : BOOLEAN, gateC : BOOLEAN]

HasPointer(c) == "active" \in DOMAIN c /\ c.active \in Ids

Files ==
    /\ current = NoFile \/ HasPointer(current)
    /\ status = NoFile \/ status \in StatusFiles
    /\ iter = [i \in Ids |-> iter[i]]
    /\ \E S : todo \in Seq(S)

\* A write of this iteration, or one that points to it.
WriteOf(w, i) ==
    /\ w.file \in {"current", "iteration", "status", "gate", "readme"}
    /\ w.file = "current" => HasPointer(w.value) /\ w.value.active = i
    /\ w.file = "iteration" => w.id = i
    /\ w.file = "status" => w.value \in StatusFiles
    /\ w.file = "readme" => i = 1

WritesOf(i) == \A k \in 1 .. Len(todo) : WriteOf(todo[k], i)

ClosedDone(i) == iter[i].meta = "archived" /\ i \in ClosedIds(current) /\ AllDone(i)

\* A command works on the active iteration, or on the first one there is, or it
\* opens a later one while the active one is closed.
Aimed ==
    \/ Idle
    \/ Active \in Ids /\ WritesOf(Active)
    \/ Active = 0 /\ WritesOf(1)
    \/ /\ Active \in Ids /\ status # NoFile /\ ClosedDone(Active)
       /\ \E i \in Ids : i > Active /\ WritesOf(i)

IInv == /\ Files /\ Aimed
        /\ status = NoFile => Active \in {0, 1}

-----------------------------------------------------------------------------
(* init                                                                    *)

\* The writes of init, and how many gates are moved when n of them are left.
InitWrites == <<"iteration", "gate", "gate", "gate", "gate", "iteration", "current", "status",
                "readme">>
MovedWith(n) == IF n >= 8 THEN 0 ELSE IF n <= 4 THEN Gates ELSE 8 - n

\* Nothing is moved, and no command but init takes the project.
NothingMoved == Idle /\ moved = 0 /\ ~Resolvable /\ (Active = 0 => status = NoFile)

\* init has made the writes of its list that are not left to do.
Moving ==
    /\ Len(todo) \in 1 .. 9 /\ moved = MovedWith(Len(todo))
    /\ \A k \in 1 .. Len(todo) :
         /\ todo[k].file = InitWrites[9 - Len(todo) + k]
         /\ todo[k].file = "current" => todo[k].value = FirstCurrent
    /\ current = IF Len(todo) <= 2 THEN FirstCurrent ELSE NoFile
    /\ Len(todo) > 1 => status = NoFile
    /\ Len(todo) = 1 => status # NoFile

\* Every gate is moved, and none is left to move.
AllMoved ==
    /\ status # NoFile /\ moved = Gates
    /\ \A k \in 1 .. Len(todo) : todo[k].file \notin {"gate", "readme"}

GatesTogether == deaths = 0 => NothingMoved \/ Moving \/ AllMoved

InitInv == IInv /\ GatesTogether /\ deaths \in Nat

-----------------------------------------------------------------------------
(* The writes                                                              *)

\* A non-empty sequence is its head and what follows.
LEMMA HeadAndTail ==
    ASSUME NEW S, NEW s \in Seq(S), s # <<>>
    PROVE  /\ Len(s) \in Nat \ {0} /\ Head(s) = s[1]
           /\ Tail(s) \in Seq(S) /\ Len(Tail(s)) = Len(s) - 1
           /\ \A k \in 1 .. Len(Tail(s)) : Tail(s)[k] = s[k + 1]
OBVIOUS

\* The writes of the commands name the iteration they are for.
LEMMA KindsOfWrites ==
    /\ \A i, v : WriteOf(ToIteration(i, v), i)
    /\ \A c : HasPointer(c) => WriteOf(ToCurrent(c), c.active) /\ WriteOf(ToStatus(c), c.active)
    /\ \A i : WriteOf([file |-> "gate"], i)
    /\ WriteOf(Readme, 1)
<1>1. \A i, v : WriteOf(ToIteration(i, v), i)
  BY DEF WriteOf, ToIteration
<1>2. ASSUME NEW c, HasPointer(c)
      PROVE  WriteOf(ToCurrent(c), c.active) /\ WriteOf(ToStatus(c), c.active)
  <2>1. WriteOf(ToCurrent(c), c.active)
    BY <1>2 DEF WriteOf, ToCurrent
  <2>2. [active |-> c.active, gateB |-> c.active \in c.audits, gateC |-> FALSE] \in StatusFiles
    BY <1>2 DEF HasPointer, StatusFiles
  <2>3. WriteOf(ToStatus(c), c.active)
    BY <2>2 DEF WriteOf, ToStatus
  <2> QED
    BY <2>1, <2>3
<1>3. \A i : WriteOf([file |-> "gate"], i)
  BY DEF WriteOf
<1>4. WriteOf(Readme, 1)
  BY DEF WriteOf, Readme
<1>5. QED
  BY <1>1, <1>2, <1>3, <1>4

\* A command that is given writes files of one iteration.
LEMMA CommandGiven ==
    ASSUME IInv, NEW S, NEW writes \in Seq(S), todo' = writes,
           UNCHANGED <<current, status, iter>>,
           NEW i \in Ids, \A k \in 1 .. Len(writes) : WriteOf(writes[k], i),
           \/ i = Active
           \/ Active = 0 /\ i = 1
           \/ Active \in Ids /\ status # NoFile /\ ClosedDone(Active) /\ i > Active
    PROVE  IInv'
<1>1. Files'
  BY DEF IInv, Files
<1>2. WritesOf(i)'
  BY DEF WritesOf
<1>3. Aimed'
  BY <1>2 DEF Aimed, ClosedDone, ClosedIds, AllDone, Active
<1>4. QED
  BY <1>1, <1>3 DEF IInv, Active

\* The invariant holds at the start.
LEMMA InitSound ==
    ASSUME Init
    PROVE  IInv
<1>1. todo = <<>> /\ todo \in Seq({})
  BY DEF Init
<1>2. 1 \in Ids
  BY Bounds DEF Ids
<1>3. \/ current = NoFile /\ status = NoFile
      \/ HasPointer(current) /\ current.active = 1 /\ status \in StatusFiles
  <2>1. CASE current = NoFile /\ status = NoFile
    BY <2>1
  <2>2. CASE /\ current = [active |-> 1, composed |-> <<>>, ref |-> NoRef, view |-> {},
                           decisions |-> FALSE, closed |-> {}, last |-> 0,
                           pending |-> [id |-> 1, base |-> NoRef], audits |-> {}]
             /\ status = [active |-> 1, gateB |-> FALSE, gateC |-> FALSE]
    <3>1. current.active = 1 /\ "active" \in DOMAIN current
      BY <2>2
    <3>2. status \in StatusFiles
      BY <1>2, <2>2 DEF StatusFiles
    <3> QED
      BY <1>2, <3>1, <3>2 DEF HasPointer
  <2> QED
    BY <2>1, <2>2 DEF Init
<1>4. iter = [i \in Ids |-> iter[i]]
  BY DEF Init
<1>5. Active \in {0, 1}
  BY <1>3 DEF Active, NoFile
<1>6. QED
  BY <1>1, <1>3, <1>4, <1>5 DEF IInv, Files, Aimed, Idle

\* The next pending write keeps the invariant.
LEMMA WriteStep ==
    ASSUME IInv, Write
    PROVE  IInv'
<1> DEFINE w == Head(todo)
<1>1. PICK S : todo \in Seq(S)
  BY DEF IInv, Files
<1>2. todo # <<>> /\ todo' = Tail(todo)
  BY DEF Write, Idle
<1>3. /\ Len(todo) \in Nat \ {0} /\ w = todo[1]
      /\ todo' \in Seq(S) /\ Len(todo') = Len(todo) - 1
      /\ \A k \in 1 .. Len(todo') : todo'[k] = todo[k + 1]
  BY <1>1, <1>2, HeadAndTail
<1>4. ASSUME NEW i, WritesOf(i)
      PROVE  WriteOf(w, i) /\ WritesOf(i)'
  BY <1>3, <1>4 DEF WritesOf
<1> HIDE DEF w
<1>5. /\ current' = IF w.file = "current" THEN w.value ELSE current
      /\ status' = IF w.file = "status" THEN w.value ELSE status
      /\ iter' = IF w.file = "iteration" THEN [iter EXCEPT ![w.id] = Updated(@, w.value)] ELSE iter
  BY DEF Write, w
<1>6. PICK i \in Ids : /\ WritesOf(i)
                       /\ \/ i = Active
                          \/ Active = 0 /\ i = 1
                          \/ /\ Active \in Ids /\ status # NoFile /\ ClosedDone(Active)
                             /\ i > Active
  <2>1. 1 \in Ids
    BY Bounds DEF Ids
  <2> QED
    BY <1>2, <2>1 DEF IInv, Aimed, Idle
<1>7. WriteOf(w, i) /\ WritesOf(i)'
  BY <1>4, <1>6
<1>8. current' = NoFile \/ HasPointer(current')
  BY <1>5, <1>7 DEF IInv, Files, WriteOf
<1>9. status' = NoFile \/ status' \in StatusFiles
  BY <1>5, <1>7 DEF IInv, Files, WriteOf
<1>10. iter' = [j \in Ids |-> iter'[j]] /\ \A j \in Ids \ {i} : iter'[j] = iter[j]
  BY <1>5, <1>7 DEF IInv, Files, WriteOf
<1>11. Files'
  BY <1>3, <1>8, <1>9, <1>10 DEF Files
<1>12. \A st \in StatusFiles : st # NoFile
  <2> SUFFICES ASSUME NEW st \in StatusFiles
               PROVE  st # NoFile
    OBVIOUS
  <2>1. st.active \in Ids /\ NoFile.active = 0
    BY DEF StatusFiles, NoFile
  <2> QED
    BY <2>1 DEF Ids
<1>13. status' = NoFile => status = NoFile
  BY <1>5, <1>7, <1>12 DEF WriteOf
<1>14. Active' = Active \/ Active' = i
  BY <1>5, <1>7 DEF WriteOf, Active
<1>15. CASE w.file = "current"
  <2>1. Active' = i
    BY <1>5, <1>7, <1>15 DEF WriteOf, Active
  <2>2. Aimed'
    BY <1>7, <2>1 DEF Aimed
  <2>3. status' = NoFile => i \in {0, 1}
    BY <1>6, <1>13 DEF IInv
  <2> QED
    BY <1>11, <2>1, <2>2, <2>3 DEF IInv
<1>16. CASE w.file # "current"
  <2>1. current' = current /\ Active' = Active
    BY <1>5, <1>16 DEF Active
  <2>2. Active \in Ids /\ status # NoFile /\ ClosedDone(Active) /\ i > Active
          => (ClosedDone(Active) /\ status # NoFile)'
    <3>1. i > Active /\ Active \in Ids => iter'[Active] = iter[Active]
      BY <1>10 DEF Ids
    <3> QED
      BY <1>13, <2>1, <3>1 DEF ClosedDone, ClosedIds, AllDone
  <2>3. Aimed'
    BY <1>6, <1>7, <2>1, <2>2 DEF Aimed
  <2> QED
    BY <1>11, <1>13, <2>1, <2>3 DEF IInv
<1>17. QED
  BY <1>15, <1>16

-----------------------------------------------------------------------------
(* The commands                                                            *)

\* Iterations are not zero, and a status file is not a missing one.
LEMMA Literals ==
    /\ \A i \in Ids : i # 0
    /\ \A st \in StatusFiles : st.active \in Ids /\ st # NoFile
    /\ \A c : HasPointer(c) => c # NoFile
<1>1. \A i \in Ids : i # 0
  BY DEF Ids
<1>2. NoFile.active = 0
  BY DEF NoFile
<1>3. QED
  BY <1>1, <1>2 DEF StatusFiles, HasPointer

\* A command that needs a resolvable state has an active iteration to work on.
LEMMA ResolvableFacts ==
    ASSUME IInv, Resolvable
    PROVE  HasPointer(current) /\ Active \in Ids /\ status \in StatusFiles /\ status # NoFile
<1>1. Active # 0 /\ status.active # 0
  BY DEF Resolvable
<1>2. NoFile.active = 0
  BY DEF NoFile
<1>3. HasPointer(current) /\ status \in StatusFiles
  BY <1>1, <1>2 DEF IInv, Files, Active
<1>4. QED
  BY <1>3, Literals DEF HasPointer, Active

\* init keeps it: all its writes are for the first iteration.
LEMMA InitProjectStep ==
    ASSUME IInv, InitProject
    PROVE  IInv'
<1> DEFINE a == <<ToIteration(1, Skeleton)>>
           b == [g \in 1 .. Gates |-> [file |-> "gate"]]
           c == <<ToIteration(1, Greenfield), ToCurrent(FirstCurrent), ToStatus(FirstCurrent),
                  Readme>>
           S == {ToIteration(1, Skeleton), [file |-> "gate"], ToIteration(1, Greenfield),
                 ToCurrent(FirstCurrent), ToStatus(FirstCurrent), Readme}
<1>1. 1 \in Ids
  BY Bounds DEF Ids
<1>2. HasPointer(FirstCurrent) /\ FirstCurrent.active = 1
  BY <1>1 DEF HasPointer, FirstCurrent
<1>3. \A w \in S : WriteOf(w, 1)
  BY <1>2, KindsOfWrites
<1> HIDE DEF S
<1>4. a \in Seq(S) /\ c \in Seq(S)
  BY DEF S
<1>5. b \in Seq(S)
  BY DEF S, Gates
<1> HIDE DEF a, b, c
<1>6. a \o b \o c \in Seq(S)
  BY <1>4, <1>5
<1>7. todo' = a \o b \o c /\ Active = 0 /\ UNCHANGED <<current, status, iter>>
  BY DEF InitProject, Command, a, b, c
<1> DEFINE writes == a \o b \o c
<1>8. writes \in Seq(S)
  BY <1>6
<1> HIDE DEF writes
<1>9. \A k \in 1 .. Len(writes) : WriteOf(writes[k], 1)
  <2> SUFFICES ASSUME NEW k \in 1 .. Len(writes)
               PROVE  WriteOf(writes[k], 1)
    OBVIOUS
  <2>1. writes[k] \in S
    BY <1>8
  <2> QED
    BY <1>3, <2>1
<1>10. todo' = writes
  BY <1>7 DEF writes
<1>11. QED
  BY <1>1, <1>7, <1>8, <1>9, <1>10, CommandGiven

\* Two to five writes, all of the active iteration.
LEMMA ActiveCommand ==
    ASSUME IInv, Resolvable, NEW writes, Command(writes),
           NEW S, writes \in Seq(S), \A w \in S : WriteOf(w, Active)
    PROVE  IInv'
<1>1. todo' = writes /\ UNCHANGED <<current, status, iter>>
  BY DEF Command
<1>2. \A k \in 1 .. Len(writes) : WriteOf(writes[k], Active)
  <2> SUFFICES ASSUME NEW k \in 1 .. Len(writes)
               PROVE  WriteOf(writes[k], Active)
    OBVIOUS
  <2>1. writes[k] \in S
    OBVIOUS
  <2> QED
    BY <2>1
<1>3. PICK i \in Ids : i = Active
  BY ResolvableFacts
<1>4. QED
  BY <1>1, <1>2, <1>3, CommandGiven

\* The files a command writes point where current-spec.json points.
LEMMA PointerKept ==
    ASSUME HasPointer(current), NEW c, DOMAIN c = DOMAIN current, c.active = Active
    PROVE  WriteOf(ToCurrent(c), Active) /\ WriteOf(ToStatus(c), Active)
BY KindsOfWrites DEF HasPointer, Active

\* open keeps it: it aims at the next iteration, behind a closed one.
LEMMA OpenStep ==
    ASSUME IInv, NEW i \in Ids, Open(i)
    PROVE  IInv'
<1>1. Resolvable /\ AllDone(Active) /\ ArchivedBaseline(Active)
  BY DEF Open, Ready
<1>2. HasPointer(current) /\ Active \in Ids /\ status # NoFile
  BY <1>1, ResolvableFacts
<1>3. ClosedDone(Active)
  BY <1>1 DEF ClosedDone, ArchivedBaseline
<1>4. i > Active
  <2>1. iter[Active].exists
    BY <1>1 DEF Resolvable
  <2> QED
    BY <1>2, <2>1 DEF Open, Ids
<1> DEFINE cur == [current EXCEPT !.active = i, !.pending = [id |-> i, base |-> current.ref]]
           w1 == ToIteration(i, Skeleton)
           w2 == ToIteration(i, [meta |-> "active_planning", base |-> current.ref])
           w3 == ToCurrent(cur)
           w4 == ToStatus(cur)
<1>5. HasPointer(cur) /\ cur.active = i
  BY <1>2 DEF HasPointer
<1> HIDE DEF cur
<1>6. WriteOf(w1, i) /\ WriteOf(w2, i) /\ WriteOf(w3, i) /\ WriteOf(w4, i)
  BY <1>5, KindsOfWrites
<1>7. todo' = <<w1, w2, w3, w4>> /\ UNCHANGED <<current, status, iter>>
  BY DEF Open, Command, cur
<1> HIDE DEF w1, w2, w3, w4
<1>8. <<w1, w2, w3, w4>> \in Seq({w1, w2, w3, w4})
  OBVIOUS
<1>9. \A k \in 1 .. Len(<<w1, w2, w3, w4>>) : WriteOf(<<w1, w2, w3, w4>>[k], i)
  BY <1>6
<1>10. QED
  BY <1>2, <1>3, <1>4, <1>7, <1>8, <1>9, CommandGiven

\* draft keeps it.
LEMMA DraftStep ==
    ASSUME IInv, Draft
    PROVE  IInv'
<1>1. Resolvable
  BY DEF Draft
<1>2. HasPointer(current)
  BY <1>1, ResolvableFacts
<1>3. PICK written : Command(<<ToIteration(Active, [intake |-> TRUE]),
                           ToIteration(Active, [spec |-> written]),
                           ToIteration(Active, [meta |-> "gate_b_draft"]),
                           ToCurrent(current), ToStatus(current)>>)
  BY DEF Draft
<1> DEFINE w1 == ToIteration(Active, [intake |-> TRUE])
           w2 == ToIteration(Active, [spec |-> written])
           w3 == ToIteration(Active, [meta |-> "gate_b_draft"])
           w4 == ToCurrent(current)
           w5 == ToStatus(current)
<1>4. \A w \in {w1, w2, w3, w4, w5} : WriteOf(w, Active)
  BY <1>2, KindsOfWrites, PointerKept DEF Active
<1>5. Command(<<w1, w2, w3, w4, w5>>)
  BY <1>3
<1> HIDE DEF w1, w2, w3, w4, w5
<1>6. <<w1, w2, w3, w4, w5>> \in Seq({w1, w2, w3, w4, w5})
  OBVIOUS
<1>7. QED
  BY <1>1, <1>4, <1>5, <1>6, ActiveCommand

\* promote keeps it: it writes to the active iteration.
LEMMA PromoteSpecStep ==
    ASSUME IInv, PromoteSpec
    PROVE  IInv'
<1> DEFINE first == current.ref = NoRef
           cur == [current EXCEPT !.audits = @ \cup {Active},
                                  !.composed = IF first THEN Append(@, Active) ELSE @,
                                  !.ref = IF first THEN Active ELSE @]
           w1 == ToCurrent(cur)
           w2 == ToIteration(Active, [meta |-> "gate_b_approved"])
           w3 == ToStatus(cur)
<1>1. Resolvable /\ Command(<<w1, w2, w3>>)
  BY DEF PromoteSpec
<1>2. HasPointer(current)
  BY <1>1, ResolvableFacts
<1>3. DOMAIN cur = DOMAIN current /\ cur.active = Active
  BY <1>2 DEF HasPointer, Active
<1> HIDE DEF cur
<1>4. \A w \in {w1, w2, w3} : WriteOf(w, Active)
  BY <1>2, <1>3, KindsOfWrites, PointerKept
<1> HIDE DEF w1, w2, w3
<1>5. <<w1, w2, w3>> \in Seq({w1, w2, w3})
  OBVIOUS
<1>6. QED
  BY <1>1, <1>4, <1>5, ActiveCommand

\* diff-tasks, promote-tasks and maintenance tasks keep it.
LEMMA GraphCommandsStep ==
    ASSUME IInv, PromoteTasks \/ DiffTasks \/ AddMaintenanceTask
    PROVE  IInv'
<1> DEFINE w1 == ToIteration(Active, [graph |-> [tasks |-> "open", rev |-> iter[Active].graph.rev + 1]])
           w2 == ToIteration(Active, [draft |-> FALSE])
           w3 == ToStatus(current)
<1>1. /\ Resolvable
      /\ Command(<<w1, w2, w3>>) \/ Command(<<w1>>) \/ Command(<<w3>>)
  BY DEF PromoteTasks, DiffTasks, AddMaintenanceTask
<1>2. HasPointer(current)
  BY <1>1, ResolvableFacts
<1>3. \A w \in {w1, w2, w3} : WriteOf(w, Active)
  BY <1>2, KindsOfWrites, PointerKept DEF Active
<1> HIDE DEF w1, w2, w3
<1>4. /\ <<w1, w2, w3>> \in Seq({w1, w2, w3})
      /\ <<w1>> \in Seq({w1, w2, w3}) /\ <<w3>> \in Seq({w1, w2, w3})
  OBVIOUS
<1>5. QED
  BY <1>1, <1>3, <1>4, ActiveCommand

\* close keeps it: it writes to the active iteration.
LEMMA CloseStep ==
    ASSUME IInv, Close
    PROVE  IInv'
<1> DEFINE cur == ClosedCurrent(Active)
           w1 == ToIteration(Active, [meta |-> "archived"])
           w2 == ToCurrent(cur)
           w3 == ToStatus(cur)
<1>1. Resolvable /\ Command(<<w1, w2, w3>>)
  BY DEF Close, Ready
<1>2. HasPointer(current)
  BY <1>1, ResolvableFacts
<1>3. DOMAIN cur = DOMAIN current /\ cur.active = Active
  BY <1>2 DEF HasPointer, Active, ClosedCurrent
<1> HIDE DEF cur
<1>4. \A w \in {w1, w2, w3} : WriteOf(w, Active)
  BY <1>2, <1>3, KindsOfWrites, PointerKept
<1> HIDE DEF w1, w2, w3
<1>5. <<w1, w2, w3>> \in Seq({w1, w2, w3})
  OBVIOUS
<1>6. QED
  BY <1>1, <1>4, <1>5, ActiveCommand

\* compose keeps it.
LEMMA ComposeStepSound ==
    ASSUME IInv, NEW allowConflicts \in BOOLEAN, Compose(allowConflicts)
    PROVE  IInv'
<1> DEFINE c == Composition(Sources)
           cur == [current EXCEPT !.composed = Sources, !.ref = TheView, !.view = c.view,
                                  !.decisions = c.conflicts,
                                  !.pending = IF @.id \in Range(Sources) THEN NoPending ELSE @]
           w1 == ToCurrent(cur)
           w2 == ToStatus(cur)
<1>1. Resolvable /\ Command(<<w1, w2>>)
  BY DEF Compose
<1>2. HasPointer(current)
  BY <1>1, ResolvableFacts
<1>3. DOMAIN cur = DOMAIN current /\ cur.active = Active
  BY <1>2 DEF HasPointer, Active
<1> HIDE DEF cur
<1>4. \A w \in {w1, w2} : WriteOf(w, Active)
  BY <1>2, <1>3, PointerKept
<1> HIDE DEF w1, w2
<1>5. <<w1, w2>> \in Seq({w1, w2})
  OBVIOUS
<1>6. QED
  BY <1>1, <1>4, <1>5, ActiveCommand

\* Whoever is killed or fails leaves no writes behind.
LEMMA NothingLeft ==
    ASSUME IInv, todo' = <<>>, UNCHANGED <<current, status>>, iter' = [i \in Ids |-> iter'[i]]
    PROVE  IInv'
<1>1. todo' \in Seq({})
  OBVIOUS
<1>2. QED
  BY <1>1 DEF IInv, Files, Aimed, Idle, Active

\* A command that dies leaves no writes pending.
LEMMA DieStep ==
    ASSUME IInv, Die
    PROVE  IInv'
<1>1. iter' = [i \in Ids |-> iter'[i]]
  BY DEF Die, IInv, Files
<1>2. QED
  BY <1>1, NothingLeft DEF Die

\* So does one whose file operation fails, once it has undone its moves.
LEMMA FailStep ==
    ASSUME IInv, Fail
    PROVE  IInv'
<1>1. iter' = [i \in Ids |-> iter'[i]]
  BY DEF Fail, IInv, Files
<1>2. QED
  BY <1>1, NothingLeft DEF Fail

\* The author's edits keep it.
LEMMA AuthorStep ==
    ASSUME IInv, NEW i \in Ids, NEW v, Author(i, v)
    PROVE  IInv' /\ \A j \in Ids \ {Active} : iter'[j] = iter[j]
<1>1. /\ Idle /\ i = Active /\ iter' = [iter EXCEPT ![i] = Updated(@, v)]
      /\ UNCHANGED <<current, status, todo>>
  BY DEF Author
<1>2. iter' = [j \in Ids |-> iter'[j]] /\ \A j \in Ids \ {i} : iter'[j] = iter[j]
  BY <1>1 DEF IInv, Files
<1>3. IInv'
  BY <1>1, <1>2 DEF IInv, Files, Aimed, Idle, Active
<1>4. QED
  BY <1>1, <1>2, <1>3

\* Approving and doing tasks keep it.
LEMMA ApproveTasksStep ==
    ASSUME IInv, ApproveTasks
    PROVE  IInv'
<1>1. Resolvable /\ Idle /\ status' = [status EXCEPT !.gateC = TRUE]
      /\ UNCHANGED <<current, iter, todo>>
  BY DEF ApproveTasks
<1>2. status \in StatusFiles
  BY <1>1, ResolvableFacts
<1>3. status' \in StatusFiles
  BY <1>1, <1>2 DEF StatusFiles
<1>4. status' # NoFile
  BY <1>3, Literals
<1>5. QED
  BY <1>1, <1>3, <1>4 DEF IInv, Files, Aimed, Idle, Active

\* Every step keeps the invariant.
LEMMA StepSound ==
    ASSUME IInv, Next
    PROVE  IInv'
<1>1. CASE Work
  BY <1>1, AuthorStep DEF Work
<1>2. CASE Write \/ Die \/ Fail \/ InitProject
  BY <1>2, WriteStep, DieStep, FailStep, InitProjectStep
<1>3. CASE Draft \/ PromoteSpec \/ PromoteTasks \/ DiffTasks \/ AddMaintenanceTask \/ Close
  BY <1>3, DraftStep, PromoteSpecStep, GraphCommandsStep, CloseStep
<1>4. QED
  BY <1>1, <1>2, <1>3, OpenStep, ComposeStepSound, ApproveTasksStep DEF Next

\* The pending writes of every reachable state are aimed at one iteration: the
\* active one, the first, or one that is being opened behind a closed one.
THEOREM WritesAreAimed == Spec => []IInv
<1>1. ASSUME IInv, UNCHANGED vars
      PROVE  IInv'
  BY <1>1 DEF IInv, vars, Files, Aimed, Idle, Active, WritesOf, ClosedDone, ClosedIds, AllDone
<1>2. QED
  BY InitSound, StepSound, <1>1, PTL DEF Spec

-----------------------------------------------------------------------------
(* History                                                                 *)

\* A file operation fails only in init, which works on the first iteration.
LEMMA FailIsOfInit ==
    ASSUME IInv, Fail
    PROVE  Active \in {0, 1}
<1>1. todo # <<>> /\ Last(todo) = Readme
  BY DEF Fail, Initialising, Idle
<1>2. PICK S : todo \in Seq(S)
  BY DEF IInv, Files
<1>3. Len(todo) \in 1 .. Len(todo) /\ todo[Len(todo)] = Readme
  BY <1>1, <1>2 DEF Last
<1>4. PICK i \in Ids \cup {1} :
          WritesOf(i) /\ (i = Active \/ Active = 0 \/ (Active \in Ids /\ i > Active))
  BY <1>1 DEF IInv, Aimed, Idle
<1>5. i = 1
  BY <1>3, <1>4 DEF WritesOf, WriteOf, Readme
<1>6. QED
  BY <1>4, <1>5 DEF Ids

\* The writes of a step go to the active iteration or to a later one.
LEMMA PastIsKept ==
    ASSUME IInv, Next, NEW j \in Ids, j < Active
    PROVE  iter'[j] = iter[j]
<1>0. Active \in Ids
  <2>1. current # NoFile
    BY DEF NoFile, Active, Ids
  <2> QED
    BY <2>1 DEF IInv, Files, HasPointer, Active
<1>1. CASE Write
  <2> DEFINE w == Head(todo)
  <2>1. PICK S : todo \in Seq(S)
    BY DEF IInv, Files
  <2>2. todo # <<>>
    BY <1>1 DEF Write, Idle
  <2>3. w = todo[1] /\ 1 \in 1 .. Len(todo)
    BY <2>1, <2>2, HeadAndTail
  <2>4. PICK i \in Ids : WritesOf(i) /\ (i = Active \/ i > Active)
    BY <1>0, <2>2 DEF IInv, Aimed, Idle, Ids
  <2>5. WriteOf(w, i)
    BY <2>3, <2>4 DEF WritesOf
  <2> HIDE DEF w
  <2>6. iter' = IF w.file = "iteration" THEN [iter EXCEPT ![w.id] = Updated(@, w.value)] ELSE iter
    BY <1>1 DEF Write, w
  <2>7. i # j
    BY <1>0, <2>4 DEF Ids
  <2> QED
    BY <2>5, <2>6, <2>7 DEF WriteOf, IInv, Files
<1>2. CASE Fail
  <2>1. Active = 1
    BY <1>0, <1>2, FailIsOfInit DEF Ids
  <2> QED
    BY <2>1 DEF Ids
<1>3. CASE Work
  <2>1. j # Active
    BY <1>0 DEF Ids
  <2> QED
    BY <1>3, <2>1, AuthorStep DEF Work
<1>4. QED
  BY <1>1, <1>2, <1>3 DEF Next, Die, InitProject, Open, Draft, PromoteSpec, PromoteTasks,
     DiffTasks, AddMaintenanceTask, Close, Compose, ApproveTasks, Command

\* The pointer moves on only in a write of a command that opens the next one.
LEMMA PointerMoves ==
    ASSUME IInv, Next, Active' # Active, Active # 0
    PROVE  ClosedDone(Active)
<1>1. Write
  <2>1. current' # current
    BY DEF Active
  <2> QED
    BY <2>1 DEF Next, Die, Fail, InitProject, Open, Draft, PromoteSpec, PromoteTasks,
       DiffTasks, AddMaintenanceTask, Close, Compose, Work, Author, ApproveTasks, Command
<1> DEFINE w == Head(todo)
<1>2. PICK S : todo \in Seq(S)
  BY DEF IInv, Files
<1>3. todo # <<>>
  BY <1>1 DEF Write, Idle
<1>4. w = todo[1] /\ 1 \in 1 .. Len(todo)
  BY <1>2, <1>3, HeadAndTail
<1> HIDE DEF w
<1>5. current' = IF w.file = "current" THEN w.value ELSE current
  BY <1>1 DEF Write, w
<1>6. ~WritesOf(Active)
  BY <1>4, <1>5 DEF WritesOf, WriteOf, Active
<1>7. QED
  BY <1>3, <1>6 DEF IInv, Aimed, Idle

\* The active pointer leaves an iteration only when its close is complete, and
\* what is behind it is never written again: for every number of iterations, of
\* commands that die and of file operations that fail.
THEOREM HistoryStaysFinal == Spec => HistoryIsFinal
<1> DEFINE Leaves == Active' # Active /\ Active # 0 =>
                       /\ iter[Active].meta = "archived" /\ Active \in ClosedIds(current)
                       /\ AllDone(Active)
           Freezes == \A i \in Ids : i < Active /\ i \in ClosedIds(current) => iter'[i] = iter[i]
<1>1. IInv /\ [Next]_vars => [Leaves]_vars /\ [Freezes]_vars
  BY PointerMoves, PastIsKept DEF ClosedDone
<1>2. QED
  BY WritesAreAimed, <1>1, PTL DEF Spec, HistoryIsFinal, NextStartsFromClosed, PastIsFrozen

-----------------------------------------------------------------------------
(* All of the greenfield gates or none                                     *)

\* What init has moved is told by what it has left to write.
LEMMA InitWritesInTurn ==
    ASSUME NEW n \in 1 .. 9
    PROVE  LET f == InitWrites[9 - n + 1]
           IN /\ f = "readme" <=> n = 1
              /\ f = "status" <=> n = 2
              /\ f = "current" <=> n = 3
              /\ MovedWith(n - 1) = IF f = "gate" THEN MovedWith(n) + 1 ELSE MovedWith(n)
<1>1. CASE n \in 8 .. 9
  BY <1>1 DEF InitWrites, MovedWith, Gates
<1>2. CASE n \in 5 .. 7
  BY <1>2 DEF InitWrites, MovedWith, Gates
<1>3. CASE n \in 1 .. 4
  BY <1>3 DEF InitWrites, MovedWith, Gates
<1>4. QED
  BY <1>1, <1>2, <1>3

\* What is written keeps the count of the gates.
LEMMA WriteMovesInTurn ==
    ASSUME IInv, GatesTogether, Write
    PROVE  GatesTogether'
<1> DEFINE w == Head(todo)
<1>1. PICK S : todo \in Seq(S)
  BY DEF IInv, Files
<1>2. todo # <<>> /\ todo' = Tail(todo)
  BY DEF Write, Idle
<1>3. /\ Len(todo) \in Nat \ {0} /\ w = todo[1]
      /\ todo' \in Seq(S) /\ Len(todo') = Len(todo) - 1
      /\ \A k \in 1 .. Len(todo') : todo'[k] = todo[k + 1]
  BY <1>1, <1>2, HeadAndTail
<1> HIDE DEF w
<1>4. /\ status' = IF w.file = "status" THEN w.value ELSE status
      /\ current' = IF w.file = "current" THEN w.value ELSE current
      /\ moved' = IF w.file = "gate" THEN moved + 1 ELSE moved
      /\ deaths' = deaths
  BY DEF Write, w
<1>5. w.file = "status" => w.value # NoFile
  <2>1. \E i : WritesOf(i)
    BY <1>2 DEF IInv, Aimed, Idle
  <2> QED
    BY <1>3, <2>1, Literals DEF WritesOf, WriteOf
<1>6. CASE AllMoved
  <2>1. /\ w.file \notin {"gate", "readme"}
        /\ \A k \in 1 .. Len(todo') : todo'[k].file \notin {"gate", "readme"}
    BY <1>3, <1>6 DEF AllMoved
  <2>2. status' # NoFile /\ moved' = Gates
    BY <1>4, <1>5, <1>6, <2>1 DEF AllMoved
  <2> QED
    BY <2>1, <2>2 DEF GatesTogether, AllMoved
<1>7. CASE Moving
  <2>0. PICK n \in 1 .. 9 : n = Len(todo)
    BY <1>7 DEF Moving
  <2>1. /\ w.file = InitWrites[9 - n + 1]
        /\ w.file = "current" => w.value = FirstCurrent
    <3>1. 1 \in 1 .. Len(todo)
      BY <2>0
    <3> QED
      BY <1>3, <1>7, <2>0, <3>1 DEF Moving
  <2>2. /\ w.file = "readme" <=> n = 1
        /\ w.file = "status" <=> n = 2
        /\ w.file = "current" <=> n = 3
        /\ MovedWith(n - 1) = IF w.file = "gate" THEN MovedWith(n) + 1 ELSE MovedWith(n)
    BY <2>1, InitWritesInTurn
  <2>3. moved' = MovedWith(n - 1)
    BY <1>4, <1>7, <2>0, <2>2 DEF Moving
  <2>4. current' = IF n - 1 <= 2 THEN FirstCurrent ELSE NoFile
    <3>1. current = IF n <= 2 THEN FirstCurrent ELSE NoFile
      BY <1>7, <2>0 DEF Moving
    <3> QED
      BY <1>4, <2>1, <2>2, <3>1
  <2>5. /\ n - 1 > 1 => status' = NoFile
        /\ n - 1 \in {0, 1} => status' # NoFile
    <3>1. (n > 1 => status = NoFile) /\ (n = 1 => status # NoFile)
      BY <1>7, <2>0 DEF Moving
    <3> QED
      BY <1>4, <1>5, <2>2, <3>1
  <2>6. CASE n = 1
    <3>1. status' # NoFile /\ moved' = Gates /\ Len(todo') = 0
      BY <1>3, <2>0, <2>3, <2>5, <2>6 DEF MovedWith
    <3> QED
      BY <3>1 DEF GatesTogether, AllMoved
  <2>7. CASE n # 1
    <3>1. Len(todo') = n - 1 /\ n - 1 \in 1 .. 9
      <4>1. Len(todo') = n - 1
        BY <1>3, <2>0
      <4>2. n - 1 \in 1 .. 9
        BY <2>7
      <4> QED
        BY <4>1, <4>2
    <3>2. \A k \in 1 .. n - 1 : /\ todo'[k].file = InitWrites[9 - (n - 1) + k]
                                /\ todo'[k].file = "current" => todo'[k].value = FirstCurrent
      <4> SUFFICES ASSUME NEW k \in 1 .. n - 1
                   PROVE  /\ todo'[k].file = InitWrites[9 - (n - 1) + k]
                          /\ todo'[k].file = "current" => todo'[k].value = FirstCurrent
        OBVIOUS
      <4>1. k + 1 \in 1 .. n /\ todo'[k] = todo[k + 1] /\ 9 - n + (k + 1) = 9 - (n - 1) + k
        BY <1>3, <2>0
      <4> QED
        BY <1>7, <2>0, <4>1 DEF Moving
    <3> QED
      BY <2>3, <2>4, <2>5, <3>1, <3>2 DEF GatesTogether, Moving
  <2> QED
    BY <2>6, <2>7
<1>8. QED
  BY <1>2, <1>4, <1>6, <1>7 DEF GatesTogether, NothingMoved, Idle

\* The writes of init: one, four gates, and four more.
LEMMA ThreeParts ==
    ASSUME NEW S, NEW a \in Seq(S), NEW b \in Seq(S), NEW c \in Seq(S),
           Len(a) = 1, Len(b) = 4, Len(c) = 4
    PROVE  /\ Len(a \o b \o c) = 9
           /\ \A k \in 1 .. 9 : (a \o b \o c)[k] = IF k = 1 THEN a[1]
                                                   ELSE IF k <= 5 THEN b[k - 1] ELSE c[k - 5]
<1>1. /\ a \o b \in Seq(S) /\ Len(a \o b) = 5
      /\ \A k \in 1 .. 5 : (a \o b)[k] = IF k = 1 THEN a[1] ELSE b[k - 1]
  <2>1. /\ a \o b \in Seq(S) /\ Len(a \o b) = Len(a) + Len(b)
        /\ \A k \in 1 .. Len(a) + Len(b) : (a \o b)[k] = IF k <= Len(a) THEN a[k] ELSE b[k - Len(a)]
    BY ConcatProperties, Zenon
  <2> QED
    BY <2>1
<1>2. PICK ab \in Seq(S) : ab = a \o b /\ Len(ab) = 5
  BY <1>1
<1>3. /\ Len(ab \o c) = 9
      /\ \A k \in 1 .. 9 : (ab \o c)[k] = IF k <= 5 THEN ab[k] ELSE c[k - 5]
  <2>1. /\ Len(ab \o c) = Len(ab) + Len(c)
        /\ \A k \in 1 .. Len(ab) + Len(c) :
             (ab \o c)[k] = IF k <= Len(ab) THEN ab[k] ELSE c[k - Len(ab)]
    BY ConcatProperties, Zenon
  <2> QED
    BY <1>2, <2>1
<1>4. QED
  BY <1>1, <1>2, <1>3

\* The writes init is given with.
LEMMA WritesOfInit ==
    ASSUME InitProject
    PROVE  /\ Len(todo') = 9
           /\ \A k \in 1 .. 9 :
                todo'[k] = IF k = 1 THEN ToIteration(1, Skeleton)
                           ELSE IF k <= 5 THEN [file |-> "gate"]
                           ELSE IF k = 6 THEN ToIteration(1, Greenfield)
                           ELSE IF k = 7 THEN ToCurrent(FirstCurrent)
                           ELSE IF k = 8 THEN ToStatus(FirstCurrent) ELSE Readme
<1> DEFINE gate == [file |-> "gate"]
           first == ToIteration(1, Skeleton)
           sixth == ToIteration(1, Greenfield)
           seventh == ToCurrent(FirstCurrent)
           eighth == ToStatus(FirstCurrent)
           S == {first, gate, sixth, seventh, eighth, Readme}
           a == <<first>>
           b == [n \in 1 .. Gates |-> gate]
           c == <<sixth, seventh, eighth, Readme>>
<1>1. todo' = a \o b \o c
  BY DEF InitProject, Command
<1> HIDE DEF gate, first, sixth, seventh, eighth
<1>2. a \in Seq(S) /\ Len(a) = 1 /\ a[1] = first
  OBVIOUS
<1>3. b \in Seq(S) /\ Len(b) = 4 /\ \A k \in 1 .. 4 : b[k] = gate
  BY DEF Gates
<1>4. /\ c \in Seq(S) /\ Len(c) = 4
      /\ c[1] = sixth /\ c[2] = seventh /\ c[3] = eighth /\ c[4] = Readme
  OBVIOUS
<1> HIDE DEF a, b, c, S
<1>5. /\ Len(a \o b \o c) = 9
      /\ \A k \in 1 .. 9 : (a \o b \o c)[k] = IF k = 1 THEN a[1]
                                              ELSE IF k <= 5 THEN b[k - 1] ELSE c[k - 5]
  <2>1. a \in Seq(S) /\ b \in Seq(S) /\ c \in Seq(S)
    BY <1>2, <1>3, <1>4
  <2>2. Len(a) = 1 /\ Len(b) = 4 /\ Len(c) = 4
    BY <1>2, <1>3, <1>4
  <2> QED
    BY <2>1, <2>2, ThreeParts
<1>6. ASSUME NEW k \in 1 .. 9
      PROVE  todo'[k] = IF k = 1 THEN first ELSE IF k <= 5 THEN gate
                        ELSE IF k = 6 THEN sixth ELSE IF k = 7 THEN seventh
                        ELSE IF k = 8 THEN eighth ELSE Readme
  <2>1. todo'[k] = IF k = 1 THEN a[1] ELSE IF k <= 5 THEN b[k - 1] ELSE c[k - 5]
    BY <1>1, <1>5
  <2>2. CASE k = 1
    BY <1>2, <2>1, <2>2
  <2>3. CASE k \in 2 .. 5
    <3>1. k - 1 \in 1 .. 4 /\ k # 1 /\ k <= 5
      BY <2>3
    <3> QED
      BY <1>3, <2>1, <3>1
  <2>4. CASE k = 6 \/ k = 7
    BY <1>4, <2>1, <2>4
  <2>5. CASE k = 8 \/ k = 9
    BY <1>4, <2>1, <2>5
  <2> QED
    BY <2>2, <2>3, <2>4, <2>5
<1>7. QED
  BY <1>1, <1>5, <1>6 DEF gate, first, sixth, seventh, eighth

\* init starts with every gate at the root.
LEMMA InitProjectTogether ==
    ASSUME IInv, GatesTogether, InitProject
    PROVE  GatesTogether'
<1>1. Idle /\ moved = 0 /\ Active = 0 /\ UNCHANGED <<current, status, moved, deaths>>
  BY DEF InitProject, Command
<1>2. current = NoFile
  BY <1>1 DEF IInv, Files, HasPointer, Active, Ids
<1>3. deaths = 0 => status = NoFile
  BY <1>1 DEF GatesTogether, NothingMoved, Moving, AllMoved, Gates, Idle
<1>4. /\ Len(todo') = 9
      /\ \A k \in 1 .. 9 : /\ todo'[k].file = InitWrites[k]
                           /\ todo'[k].file = "current" => todo'[k].value = FirstCurrent
  <2> SUFFICES ASSUME NEW k \in 1 .. 9
               PROVE  /\ todo'[k].file = InitWrites[k]
                      /\ todo'[k].file = "current" => todo'[k].value = FirstCurrent
    BY WritesOfInit
  <2>1. CASE k = 1 \/ k = 6
    BY <2>1, WritesOfInit DEF ToIteration, InitWrites
  <2>2. CASE k \in 2 .. 5
    BY <2>2, WritesOfInit DEF InitWrites
  <2>3. CASE k = 7
    BY <2>3, WritesOfInit DEF ToCurrent, InitWrites
  <2>4. CASE k = 8 \/ k = 9
    BY <2>4, WritesOfInit DEF ToStatus, Readme, InitWrites
  <2> QED
    BY <2>1, <2>2, <2>3, <2>4
<1>5. moved' = MovedWith(9)
  BY <1>1 DEF MovedWith
<1>6. \A k \in 1 .. Len(todo') : /\ todo'[k].file = InitWrites[9 - Len(todo') + k]
                                /\ todo'[k].file = "current" => todo'[k].value = FirstCurrent
  BY <1>4
<1>7. QED
  BY <1>1, <1>2, <1>3, <1>4, <1>5, <1>6 DEF GatesTogether, Moving

\* A file operation that fails leaves the gates at the root, and no command takes
\* what is written of the pointers.
LEMMA FailTogether ==
    ASSUME IInv, GatesTogether, Fail
    PROVE  GatesTogether'
<1>1. /\ todo # <<>> /\ Last(todo) = Readme
      /\ todo' = <<>> /\ moved' = 0
      /\ iter' = [iter EXCEPT ![1] = IF @.exists THEN Skeleton ELSE @]
      /\ UNCHANGED <<current, status, deaths>>
  BY DEF Fail, Initialising, Idle
<1>2. PICK S : todo \in Seq(S)
  BY DEF IInv, Files
<1>3. Len(todo) \in 1 .. Len(todo) /\ todo[Len(todo)] = Readme
  BY <1>1, <1>2 DEF Last
<1>4. deaths = 0 => Moving
  BY <1>1, <1>3 DEF GatesTogether, NothingMoved, AllMoved, Idle, Readme
<1>5. /\ iter'[1].exists => iter'[1].spec = NoSpec
      /\ 1 \in Ids
  <2>1. 1 \in Ids
    BY Bounds DEF Ids
  <2>2. iter'[1] = IF iter[1].exists THEN Skeleton ELSE iter[1]
    BY <1>1, <2>1 DEF IInv, Files
  <2> QED
    BY <2>1, <2>2 DEF Skeleton
<1>6. CASE current = NoFile
  <2>1. Active' = 0 /\ Active = 0
    BY <1>1, <1>6 DEF Active, NoFile
  <2>2. Moving => status = NoFile
    <3>1. FirstCurrent # NoFile
      BY DEF FirstCurrent, NoFile
    <3> QED
      BY <1>3, <1>6, <3>1 DEF Moving
  <2> QED
    BY <1>1, <1>4, <2>1, <2>2 DEF GatesTogether, NothingMoved, Resolvable, Idle
<1>7. CASE current = FirstCurrent
  <2>1. Active' = 1 /\ current'.ref = 1
    BY <1>1, <1>7 DEF Active, FirstCurrent
  <2>2. ~Resolvable'
    BY <1>5, <2>1 DEF Resolvable
  <2> QED
    BY <1>1, <2>1, <2>2 DEF GatesTogether, NothingMoved, Idle
<1>8. QED
  BY <1>1, <1>4, <1>6, <1>7 DEF GatesTogether, Moving

\* Every other command finds status.md, and moves no gate.
LEMMA OtherCommandsTogether ==
    ASSUME IInv, GatesTogether, Idle, Resolvable, NEW writes, Command(writes),
           \A k \in 1 .. Len(writes) : writes[k].file \notin {"gate", "readme"}
    PROVE  GatesTogether'
<1>1. todo' = writes /\ UNCHANGED <<status, moved, deaths>>
  BY DEF Command
<1>2. status # NoFile
  BY ResolvableFacts
<1>3. QED
  BY <1>1, <1>2 DEF GatesTogether, NothingMoved, Moving, AllMoved, Idle

\* The other commands write no gates.
LEMMA CommandsTogether ==
    ASSUME IInv, GatesTogether,
           \/ \E i \in Ids : Open(i)
           \/ Draft \/ PromoteSpec \/ PromoteTasks \/ DiffTasks \/ AddMaintenanceTask \/ Close
           \/ \E allowConflicts \in BOOLEAN : Compose(allowConflicts)
    PROVE  GatesTogether'
<1> DEFINE ToGate(w) == w.file \in {"gate", "readme"}
           Quiet(s) == \A k \in 1 .. Len(s) : s[k].file \notin {"gate", "readme"}
<1>1. Idle /\ Resolvable
  BY DEF Open, Ready, Draft, PromoteSpec, PromoteTasks, DiffTasks, AddMaintenanceTask, Close, Compose
<1>2. \A i, v : ~ToGate(ToIteration(i, v))
  BY DEF ToIteration
<1>3. \A c : ~ToGate(ToCurrent(c)) /\ ~ToGate(ToStatus(c))
  BY DEF ToCurrent, ToStatus
<1>4. /\ \A a : ~ToGate(a) => Quiet(<<a>>)
      /\ \A a, b : ~ToGate(a) /\ ~ToGate(b) => Quiet(<<a, b>>)
      /\ \A a, b, c : ~ToGate(a) /\ ~ToGate(b) /\ ~ToGate(c) => Quiet(<<a, b, c>>)
      /\ \A a, b, c, d : ~ToGate(a) /\ ~ToGate(b) /\ ~ToGate(c) /\ ~ToGate(d)
                        => Quiet(<<a, b, c, d>>)
      /\ \A a, b, c, d, e : ~ToGate(a) /\ ~ToGate(b) /\ ~ToGate(c) /\ ~ToGate(d) /\ ~ToGate(e)
                           => Quiet(<<a, b, c, d, e>>)
  OBVIOUS
<1> HIDE DEF Quiet, ToGate
<1>5. \E writes : Quiet(writes) /\ Command(writes)
  <2>1. CASE \E i \in Ids : Open(i)
    <3>1. PICK i, cur : Command(<<ToIteration(i, Skeleton),
                                  ToIteration(i, [meta |-> "active_planning", base |-> current.ref]),
                                  ToCurrent(cur), ToStatus(cur)>>)
      BY <2>1 DEF Open
    <3>2. \A v, w, cur_ : Quiet(<<ToIteration(i, v), ToIteration(i, w), ToCurrent(cur_), ToStatus(cur_)>>)
      BY <1>2, <1>3, <1>4
    <3> QED
      BY <3>1, <3>2
  <2>2. CASE Draft
    <3>1. PICK written : Command(<<ToIteration(Active, [intake |-> TRUE]),
                                ToIteration(Active, [spec |-> written]),
                                ToIteration(Active, [meta |-> "gate_b_draft"]),
                                ToCurrent(current), ToStatus(current)>>)
      BY <2>2 DEF Draft
    <3> QED
      BY <1>2, <1>3, <1>4, <3>1
  <2>3. CASE PromoteSpec
    <3>1. \E cur, approved : Command(<<ToCurrent(cur), ToIteration(Active, approved), ToStatus(cur)>>)
      BY <2>3 DEF PromoteSpec
    <3> QED
      BY <1>2, <1>3, <1>4, <3>1
  <2>4. CASE PromoteTasks \/ DiffTasks \/ AddMaintenanceTask
    <3>1. PromoteTasks =>
              \E g : Command(<<ToIteration(Active, g), ToIteration(Active, [draft |-> FALSE]),
                               ToStatus(current)>>)
      BY DEF PromoteTasks
    <3>2. DiffTasks => \E g : Command(<<ToIteration(Active, g)>>)
      BY DEF DiffTasks
    <3>3. AddMaintenanceTask => Command(<<ToStatus(current)>>)
      BY DEF AddMaintenanceTask
    <3>4. \A g, d : /\ Quiet(<<ToIteration(Active, g), ToIteration(Active, d), ToStatus(current)>>)
                    /\ Quiet(<<ToIteration(Active, g)>>) /\ Quiet(<<ToStatus(current)>>)
      BY <1>2, <1>3, <1>4
    <3> QED
      BY <2>4, <3>1, <3>2, <3>3, <3>4
  <2>5. CASE Close
    <3>1. \E cur, closed : Command(<<ToIteration(Active, closed), ToCurrent(cur), ToStatus(cur)>>)
      BY <2>5 DEF Close
    <3> QED
      BY <1>2, <1>3, <1>4, <3>1
  <2>6. CASE \E allowConflicts \in BOOLEAN : Compose(allowConflicts)
    <3>1. \E cur : Command(<<ToCurrent(cur), ToStatus(cur)>>)
      BY <2>6 DEF Compose
    <3> QED
      BY <1>3, <1>4, <3>1
  <2> QED
    BY <2>1, <2>2, <2>3, <2>4, <2>5, <2>6
<1>6. QED
  BY <1>1, <1>5, OtherCommandsTogether DEF Quiet, ToGate

\* People move no gates.
LEMMA PeopleTogether ==
    ASSUME IInv, GatesTogether, Work \/ ApproveTasks
    PROVE  GatesTogether'
<1>1. Idle /\ Resolvable /\ UNCHANGED <<moved, todo, deaths>>
  BY DEF Work, Author, ApproveTasks
<1>2. status # NoFile /\ status \in StatusFiles
  BY <1>1, ResolvableFacts
<1>3. status' = status \/ status' = [status EXCEPT !.gateC = TRUE]
  BY DEF Work, Author, ApproveTasks
<1>4. status' \in StatusFiles
  BY <1>2, <1>3 DEF StatusFiles
<1>5. QED
  BY <1>1, <1>2, <1>4, Literals DEF GatesTogether, NothingMoved, Moving, AllMoved, Idle

\* Every step keeps the gates together, but for a death.
LEMMA StepTogether ==
    ASSUME InitInv, Next
    PROVE  InitInv'
<1>1. CASE Write
  BY <1>1, WriteStep, WriteMovesInTurn DEF InitInv, Write
<1>2. CASE Die
  BY <1>2, DieStep DEF InitInv, Die, GatesTogether
<1>3. CASE Fail
  BY <1>3, FailStep, FailTogether DEF InitInv, Fail
<1>4. CASE InitProject
  BY <1>4, InitProjectStep, InitProjectTogether DEF InitInv, InitProject, Command
<1>5. CASE \/ \E i \in Ids : Open(i)
           \/ Draft \/ PromoteSpec \/ PromoteTasks \/ DiffTasks \/ AddMaintenanceTask \/ Close
           \/ \E allowConflicts \in BOOLEAN : Compose(allowConflicts)
  <2>1. deaths' = deaths
    BY <1>5 DEF Open, Draft, PromoteSpec, PromoteTasks, DiffTasks, AddMaintenanceTask,
       Close, Compose, Command
  <2> QED
    BY <1>5, <2>1, CommandsTogether, StepSound DEF InitInv
<1>6. CASE Work \/ ApproveTasks
  <2>1. deaths' = deaths
    BY <1>6 DEF Work, Author, ApproveTasks
  <2> QED
    BY <1>6, <2>1, PeopleTogether, StepSound DEF InitInv
<1>7. QED
  BY <1>1, <1>2, <1>3, <1>4, <1>5, <1>6 DEF Next

\* Whichever file operation of init fails, the last one too, and unless init is
\* killed: between two commands the greenfield gates are all in the first iteration
\* and the pointers name it, or they are all at the root and no command takes the
\* project for one with iterations.
THEOREM FailedInitIsNotUsed == Spec => []NoHalfInitIsUsed
<1>1. Init => InitInv
  <2> SUFFICES ASSUME Init
               PROVE  InitInv
    OBVIOUS
  <2>1. todo = <<>> /\ deaths = 0
    BY DEF Init
  <2>2. \/ status = NoFile /\ moved = 0 /\ Active = 0
        \/ status # NoFile /\ moved = Gates
    <3>1. [active |-> 1, gateB |-> FALSE, gateC |-> FALSE] \in StatusFiles
      BY Bounds DEF StatusFiles, Ids
    <3> QED
      BY <3>1, Literals DEF Init, Active, NoFile
  <2> QED
    BY <2>1, <2>2, InitSound
    DEF InitInv, GatesTogether, NothingMoved, AllMoved, Resolvable, Idle
<1>2. InitInv /\ UNCHANGED vars => InitInv'
  BY DEF InitInv, IInv, GatesTogether, NothingMoved, Moving, AllMoved, Resolvable, vars, Files,
     Aimed, Idle, Active, WritesOf, ClosedDone, ClosedIds, AllDone
<1>3. InitInv => NoHalfInitIsUsed
  BY DEF InitInv, GatesTogether, NothingMoved, Moving, AllMoved, NoHalfInitIsUsed, Idle
<1>4. QED
  BY <1>1, <1>2, <1>3, StepTogether, PTL DEF Spec

-----------------------------------------------------------------------------
(* Chains of iterations compose                                            *)

IterationFields == {"exists", "meta", "base", "intake", "spec", "draft", "graph", "review"}

CurrentFields == {"active", "composed", "ref", "view", "decisions", "closed", "last", "pending",
                  "audits"}

Elements(s) == {s[k] : k \in 1 .. Len(s)}

Ascending(s) == \A k, l \in 1 .. Len(s) : k < l => s[k] < s[l]

\* What current-spec.json says by itself: nothing is composed before the first
\* promotion, and what is composed is in the order it was opened in.
Ordered(v) ==
    /\ DOMAIN v = CurrentFields
    /\ v.active \in Ids /\ v.ref \in {NoRef, 1, TheView}
    /\ v.ref = NoRef => v.active = 1 /\ v.composed = <<>> /\ v.audits = {}
    /\ v.composed \in Seq(1 .. v.active) /\ Ascending(v.composed)
    /\ IsFiniteSet(v.closed)
    /\ v.active # 1 => 1 \in ClosedIds(v)

\* What compose would add to it comes after all that it has.
AddsBehind(v) ==
    \A i \in Ids, j \in Elements(v.composed) :
        Source(i) /\ i \notin Elements(v.composed) => j < i

\* Only the first spec is ever a baseline by its own name, and no other was
\* written between it and an iteration drafted on it.
FirstBaselines ==
    \A i \in Ids :
        /\ iter[i].base \in {NoRef, 1, TheView}
        /\ ~iter[i].exists => iter[i].base = NoRef
        /\ iter[i].base = 1 =>
               /\ i > 1 /\ (Active > 1 => i <= Active)
               /\ \A j \in Ids : 1 < j /\ j < i => iter[j].spec = NoSpec

Chained ==
    /\ \A i \in Ids : DOMAIN iter[i] = IterationFields
    /\ current # NoFile => Ordered(current) /\ AddsBehind(current)
    /\ \A i \in Ids : i > 1 /\ i > Active => iter[i].spec = NoSpec
    /\ FirstBaselines
    /\ Active > 1 => Source(1)
    /\ status # NoFile /\ status.gateB => current # NoFile /\ current.ref # NoRef

\* An iteration that is written with these is no source of compose.
NoSource(v) ==
    \/ "spec" \in DOMAIN v /\ ~v.spec.approved
    \/ "graph" \in DOMAIN v /\ v.graph.tasks # "done"
    \/ DOMAIN v \subseteq {"meta", "base", "intake", "draft"}

\* The iteration a command works on.
Aim == IF Active = 0 THEN 1 ELSE Active

IterationWrite(w) ==
    /\ w.id = Aim
    /\ DOMAIN w.value \subseteq IterationFields
    /\ "base" \in DOMAIN w.value => w.value.base = NoRef
    /\ "exists" \in DOMAIN w.value => w.value.exists
    /\ NoSource(w.value)

CurrentWrite(v) ==
    /\ Ordered(v) /\ AddsBehind(v)
    /\ v.active = Aim
    /\ Active # 0 /\ current.ref # NoRef => v.ref # NoRef

\* The writes of a command that works on one iteration: what they put in the
\* sources of compose they take out, and they point to it once at most.
WorkWrites(s) ==
    /\ \A k \in 1 .. Len(s) :
           /\ s[k].file = "iteration" => IterationWrite(s[k])
           /\ s[k].file = "current" => CurrentWrite(s[k].value)
           /\ s[k].file = "status" /\ s[k].value.gateB =>
                  \/ Active # 0 /\ current.ref # NoRef
                  \/ \E l \in 1 .. k - 1 : s[l].file = "current" /\ s[l].value.ref # NoRef
    /\ \A k, l \in 1 .. Len(s) : s[k].file = "current" /\ s[l].file = "current" => k = l

OpenedBy(i) == [current EXCEPT !.active = i, !.pending = [id |-> i, base |-> current.ref]]

OpenWrites(i) ==
    <<ToIteration(i, Skeleton),
      ToIteration(i, [meta |-> "active_planning", base |-> current.ref]),
      ToCurrent(OpenedBy(i)), ToStatus(OpenedBy(i))>>

\* Those of one that opens an iteration behind the last, up to the pointer.
OpeningOf(i) ==
    /\ Active # 0 /\ i > Active
    /\ \/ todo = OpenWrites(i)
       \/ todo = Tail(OpenWrites(i)) /\ iter[i].exists
       \/ todo = Tail(Tail(OpenWrites(i)))
    /\ Source(Active) /\ Active \in ClosedIds(current)
    /\ current.ref # NoRef /\ (current.ref = 1 => Active = 1)
    /\ \A j \in Ids : j > i => iter[j].base = NoRef

Chain == Chained /\ (WorkWrites(todo) \/ \E i \in Ids : OpeningOf(i))

\* What is in a sequence of a recursive function, and after one more.
LEMMA OneMoreKept ==
    ASSUME NEW V \in SUBSET Nat, NEW p \in Seq(V), NEW b \in V
    PROVE  /\ Append(p, b) \in Seq(V) /\ Len(p) \in Nat /\ Len(Append(p, b)) = Len(p) + 1
           /\ \A k \in 1 .. Len(p) : Append(p, b)[k] = p[k]
           /\ Append(p, b)[Len(p) + 1] = b
           /\ Elements(Append(p, b)) = Elements(p) \cup {b}
<1>1. PICK q : q = Append(p, b)
  OBVIOUS
<1>2. PICK n \in Nat : n = Len(p)
  OBVIOUS
<1>3. /\ q \in Seq(V) /\ Len(q) = n + 1 /\ q[n + 1] = b
      /\ \A k \in 1 .. n : q[k] = p[k]
  BY <1>1, <1>2
<1>4. Elements(q) = Elements(p) \cup {b}
  BY <1>2, <1>3 DEF Elements
<1>5. QED
  BY <1>1, <1>2, <1>3, <1>4

Steps(D, G) == \E F \in [Nat -> D] : F[0] = << >> /\ \A k \in Nat : F[k + 1] = G[k + 1][F[k]]

\* A sequence that is built step by step has a value at every number.
LEMMA BuiltStepByStep ==
    ASSUME NEW D, << >> \in D, NEW G \in [Nat -> [D -> D]]
    PROVE  Steps(D, G)
<1>1. PICK start \in D : start = << >>
  OBVIOUS
<1>2. \E F \in [Nat -> D] : F[0] = start /\ \A k \in Nat : F[k + 1] = G[k + 1][F[k]]
  BY Counted, SMTT(60)
<1>3. QED
  BY <1>1, <1>2 DEF Steps

\* In the order of a sequence, what is in a set: all of it, and still in order.
LEMMA AmongKeepsOrder ==
    ASSUME NEW V \in SUBSET Nat, NEW s \in Seq(V), NEW T
    PROVE  /\ Among(s, T) \in Seq(V) /\ Elements(Among(s, T)) = Elements(s) \cap T
           /\ Ascending(s) => Ascending(Among(s, T))
<1> DEFINE length == Len(s)
           step(k, q) == IF s[k] \in T THEN Append(q, s[k]) ELSE q
           Solves(f) == f = [k \in 0 .. length |-> IF k = 0 THEN << >> ELSE step(k, f[k - 1])]
           Good(k, q) == /\ q \in Seq(V) /\ Elements(q) = T \cap {s[i] : i \in 1 .. k}
                         /\ Ascending(s) => Ascending(q)
<1>0. length \in Nat /\ \A k \in 1 .. length : s[k] \in V
  OBVIOUS
<1>1. PICK n \in Nat : n = length
  BY <1>0
<1>2. \E f : Solves(f)
  <2> DEFINE D == Seq(V)
             G == [k \in Nat |-> [q \in D |-> IF k \in 1 .. n THEN step(k, q) ELSE q]]
  <2>1. << >> \in D
    BY EmptySeq
  <2>2. ASSUME NEW k \in Nat, NEW q \in D
        PROVE  (IF k \in 1 .. n THEN step(k, q) ELSE q) \in D
    <3>1. k \in 1 .. n => step(k, q) \in D
      BY <1>0, <1>1, OneMoreKept
    <3>2. QED
      BY <3>1
  <2>3. G \in [Nat -> [D -> D]] /\ \A k \in 1 .. n : \A q \in D : G[k][q] = step(k, q)
    <3> HIDE DEF D, step
    <3>1. QED
      BY <2>2
  <2>4. PICK F \in [Nat -> D] : F[0] = << >> /\ \A k \in Nat : F[k + 1] = G[k + 1][F[k]]
    <3> HIDE DEF D, G
    <3>1. Steps(D, G)
      BY <2>1, <2>3, BuiltStepByStep
    <3>2. QED
      BY <3>1 DEF Steps
  <2>5. \A k \in 0 .. n : F[k] = IF k = 0 THEN << >> ELSE step(k, F[k - 1])
    <3> SUFFICES ASSUME NEW k \in 1 .. n
                 PROVE  F[k] = step(k, F[k - 1])
      <4> HIDE DEF step, G
      <4>1. QED
        BY <2>4
    <3>1. PICK j \in Nat : j = k - 1 /\ k = j + 1
      OBVIOUS
    <3>2. F[j + 1] = G[j + 1][F[j]] /\ F[j] \in D
      BY <2>4
    <3>3. F[j + 1] = step(j + 1, F[j])
      <4> HIDE DEF G, step, D
      <4>1. QED
        BY <2>3, <3>1, <3>2
    <3>4. QED
      BY <3>1, <3>3
  <2> DEFINE f == [k \in 0 .. n |-> F[k]]
  <2>6. \A k \in 0 .. n : f[k] = IF k = 0 THEN << >> ELSE step(k, f[k - 1])
    <3> HIDE DEF step
    <3>1. \A k \in 0 .. n : f[k] = F[k] /\ (k # 0 => k - 1 \in 0 .. n)
      OBVIOUS
    <3> HIDE DEF f
    <3>2. QED
      BY <2>5, <3>1
  <2>7. Solves(f)
    <3> HIDE DEF step
    <3>1. f = [k \in 0 .. n |-> IF k = 0 THEN << >> ELSE step(k, f[k - 1])]
      BY <2>6
    <3>2. QED
      BY <1>1, <3>1
  <2>8. QED
    BY <2>7
<1>3. PICK f : Solves(f) /\ Among(s, T) = f[n]
  <2>1. Among(s, T) = (CHOOSE f : Solves(f))[n]
    BY <1>1 DEF Among
  <2>2. Solves(CHOOSE f : Solves(f))
    <3> HIDE DEF Solves
    <3>1. QED
      BY <1>2
  <2> HIDE DEF Solves
  <2>3. QED
    BY <2>1, <2>2
<1>4. \A k \in 0 .. n : f[k] = IF k = 0 THEN << >> ELSE step(k, f[k - 1])
  <2> HIDE DEF step
  <2>1. QED
    BY <1>1, <1>3
<1>5. Nat \subseteq {k \in Nat : k \in 0 .. n => Good(k, f[k])}
  <2> DEFINE S == {k \in Nat : k \in 0 .. n => Good(k, f[k])}
  <2>1. 0 \in S
    <3>1. f[0] = << >>
      BY <1>4
    <3>2. << >> \in Seq(V) /\ Elements(<< >>) = {} /\ Ascending(<< >>)
      BY EmptySeq DEF Elements, Ascending
    <3>3. T \cap {s[i] : i \in 1 .. 0} = {}
      OBVIOUS
    <3>4. Good(0, f[0])
      BY <3>1, <3>2, <3>3
    <3> HIDE DEF Good
    <3>5. QED
      BY <3>4
  <2>2. ASSUME NEW k \in Nat, k \in S
        PROVE  k + 1 \in S
    <3> SUFFICES ASSUME k + 1 \in 0 .. n
                 PROVE  Good(k + 1, f[k + 1])
      OBVIOUS
    <3>1. Good(k, f[k]) /\ k \in 0 .. n /\ k + 1 # 0 /\ k + 1 \in 1 .. n /\ (k + 1) - 1 = k
      BY <2>2
    <3>2. f[k + 1] = step(k + 1, f[k])
      <4> HIDE DEF step
      <4>1. QED
        BY <1>4, <3>1
    <3>3. {s[i] : i \in 1 .. k + 1} = {s[i] : i \in 1 .. k} \cup {s[k + 1]}
      OBVIOUS
    <3>4. PICK q : q = f[k]
      OBVIOUS
    <3>5. PICK b \in V : b = s[k + 1]
      BY <1>0, <1>1, <3>1
    <3>6. q \in Seq(V) /\ Elements(q) = T \cap {s[i] : i \in 1 .. k} /\ (Ascending(s) => Ascending(q))
      BY <3>1, <3>4
    <3>7. CASE b \in T
      <4>1. f[k + 1] = Append(q, b)
        BY <3>2, <3>4, <3>5, <3>7
      <4>2. Append(q, b) \in Seq(V) /\ Elements(Append(q, b)) = Elements(q) \cup {b}
        BY <3>5, <3>6, OneMoreKept
      <4>3. ASSUME Ascending(s)
            PROVE  Ascending(Append(q, b))
        <5>1. PICK m \in Nat : m = Len(q)
          BY <3>6
        <5>2. PICK r : r = Append(q, b)
          OBVIOUS
        <5>3. Len(r) = m + 1 /\ r[m + 1] = b /\ \A i \in 1 .. m : r[i] = q[i]
          BY <3>5, <3>6, <5>1, <5>2, OneMoreKept
        <5>4. ASSUME NEW i \in 1 .. m
              PROVE  q[i] < b
          <6>1. q[i] \in Elements(q)
            BY <5>1 DEF Elements
          <6>2. PICK j \in 1 .. k : q[i] = s[j]
            BY <3>6, <6>1
          <6>3. j \in 1 .. n /\ j < k + 1 /\ k + 1 \in 1 .. n
            BY <3>1
          <6>4. s[j] < s[k + 1]
            BY <1>1, <4>3, <6>3 DEF Ascending
          <6>5. QED
            BY <3>5, <6>2, <6>4
        <5>5. \A i, j \in 1 .. m : i < j => q[i] < q[j]
          BY <3>6, <4>3, <5>1 DEF Ascending
        <5>6. \A i, j \in 1 .. m + 1 : i < j => r[i] < r[j]
          <6> SUFFICES ASSUME NEW i \in 1 .. m + 1, NEW j \in 1 .. m + 1, i < j
                       PROVE  r[i] < r[j]
            OBVIOUS
          <6>1. i \in 1 .. m /\ (j \in 1 .. m \/ j = m + 1)
            OBVIOUS
          <6>2. QED
            BY <5>3, <5>4, <5>5, <6>1
        <5>7. QED
          BY <5>2, <5>3, <5>6 DEF Ascending
      <4>4. Good(k + 1, Append(q, b))
        BY <3>3, <3>5, <3>6, <3>7, <4>2, <4>3
      <4> HIDE DEF Good
      <4>5. QED
        BY <4>1, <4>4
    <3>8. CASE b \notin T
      <4>1. f[k + 1] = q
        BY <3>2, <3>4, <3>5, <3>8
      <4>2. Good(k + 1, q)
        BY <3>3, <3>5, <3>6, <3>8
      <4> HIDE DEF Good
      <4>3. QED
        BY <4>1, <4>2
    <3>9. QED
      BY <3>7, <3>8
  <2>3. QED
    <3> HIDE DEF S
    <3>1. Nat \subseteq S
      BY <2>1, <2>2, AllNumbers
    <3>2. QED
      BY <3>1 DEF S
<1>6. Good(n, f[n])
  <2> HIDE DEF Good
  <2>1. QED
    BY <1>5
<1>7. {s[i] : i \in 1 .. n} = Elements(s)
  BY <1>1 DEF Elements
<1>8. QED
  BY <1>3, <1>6, <1>7


\* A sequence after one whose numbers are all smaller.
LEMMA OneAfterTheOther ==
    ASSUME NEW V \in SUBSET Nat, NEW p \in Seq(V), NEW q \in Seq(V), Ascending(p), Ascending(q),
           \A a \in Elements(p), b \in Elements(q) : a < b
    PROVE  /\ p \o q \in Seq(V) /\ Ascending(p \o q)
           /\ Elements(p \o q) = Elements(p) \cup Elements(q)
<1>1. PICK m \in Nat, n \in Nat : m = Len(p) /\ n = Len(q)
  OBVIOUS
<1>2. PICK r : r = p \o q
  OBVIOUS
<1>3. /\ r \in Seq(V) /\ Len(r) = m + n
      /\ \A k \in 1 .. m + n : r[k] = IF k <= m THEN p[k] ELSE q[k - m]
  BY <1>1, <1>2, ConcatProperties
<1>4. ASSUME NEW i \in 1 .. m + n, NEW j \in 1 .. m + n, i < j
      PROVE  r[i] < r[j]
  <2>1. CASE j <= m
    <3>1. i \in 1 .. m /\ j \in 1 .. m
      BY <1>4, <2>1
    <3>2. QED
      BY <1>1, <1>3, <1>4, <3>1 DEF Ascending
  <2>2. CASE i <= m /\ ~ (j <= m)
    <3>1. i \in 1 .. m /\ j - m \in 1 .. n
      BY <2>2
    <3>2. r[i] = p[i] /\ r[j] = q[j - m]
      BY <1>3, <2>2
    <3>3. p[i] \in Elements(p) /\ q[j - m] \in Elements(q)
      BY <1>1, <3>1 DEF Elements
    <3>4. QED
      BY <3>2, <3>3
  <2>3. CASE ~ (i <= m)
    <3>1. i - m \in 1 .. n /\ j - m \in 1 .. n /\ i - m < j - m /\ ~ (j <= m)
      BY <1>4, <2>3
    <3>2. q[i - m] < q[j - m]
      BY <1>1, <3>1 DEF Ascending
    <3>3. QED
      BY <1>3, <2>3, <3>1, <3>2
  <2>4. QED
    BY <2>1, <2>2, <2>3
<1>5. Elements(r) = Elements(p) \cup Elements(q)
  <2>1. ASSUME NEW x \in Elements(r)
        PROVE  x \in Elements(p) \cup Elements(q)
    <3>1. PICK k \in 1 .. m + n : x = r[k]
      BY <1>3 DEF Elements
    <3>2. CASE k <= m
      <4>1. k \in 1 .. m /\ x = p[k]
        BY <1>3, <3>1, <3>2
      <4>2. QED
        BY <1>1, <4>1 DEF Elements
    <3>3. CASE ~ (k <= m)
      <4>1. k - m \in 1 .. n /\ x = q[k - m]
        BY <1>3, <3>1, <3>3
      <4>2. QED
        BY <1>1, <4>1 DEF Elements
    <3>4. QED
      BY <3>2, <3>3
  <2>2. ASSUME NEW x \in Elements(p)
        PROVE  x \in Elements(r)
    <3>1. PICK k \in 1 .. m : x = p[k]
      BY <1>1 DEF Elements
    <3>2. k \in 1 .. m + n /\ k <= m
      OBVIOUS
    <3>3. QED
      BY <1>3, <3>1, <3>2 DEF Elements
  <2>3. ASSUME NEW x \in Elements(q)
        PROVE  x \in Elements(r)
    <3>1. PICK k \in 1 .. n : x = q[k]
      BY <1>1 DEF Elements
    <3>2. k + m \in 1 .. m + n /\ ~ (k + m <= m) /\ (k + m) - m = k
      OBVIOUS
    <3>3. r[k + m] = x
      BY <1>3, <3>1, <3>2
    <3>4. QED
      BY <1>3, <3>2, <3>3 DEF Elements
  <2>4. QED
    BY <2>1, <2>2, <2>3
<1>6. Ascending(r)
  BY <1>3, <1>4 DEF Ascending
<1>7. QED
  BY <1>2, <1>3, <1>5, <1>6

\* Compose takes the sources in the order they were opened in.
LEMMA SourcesAscend ==
    ASSUME Chained, current # NoFile
    PROVE  /\ Sources \in Seq(Ids) /\ Ascending(Sources)
           /\ Elements(Sources) = {i \in Ids : Source(i)}
<1>0. Ordered(current) /\ AddsBehind(current) /\ MaxIteration \in Nat
  BY Bounds DEF Chained
<1>1. PICK known : known = current.composed
  OBVIOUS
<1>2. PICK found : found = {i \in Ids : Source(i)}
  OBVIOUS
<1>3. PICK a \in Ids : a = current.active
  BY <1>0 DEF Ordered
<1>4. known \in Seq(1 .. a) /\ Ascending(known) /\ 1 .. a \subseteq Ids /\ Ids \subseteq Nat
  BY <1>0, <1>1, <1>3 DEF Ordered, Ids
<1>5. known \in Seq(Ids)
  <2>1. Len(known) \in Nat /\ known = [k \in 1 .. Len(known) |-> known[k]]
        /\ \A k \in 1 .. Len(known) : known[k] \in Ids
    BY <1>4
  <2>2. QED
    BY <2>1, IsASeq
<1>6. Range(known) = Elements(known)
  <2>1. DOMAIN known = 1 .. Len(known)
    BY <1>5
  <2>2. QED
    BY <2>1 DEF Range, Elements
<1>7. PICK all : all = [i \in Ids |-> i]
  OBVIOUS
<1>8. all \in Seq(Ids) /\ Len(all) = MaxIteration /\ \A k \in 1 .. MaxIteration : all[k] = k
  BY <1>0, <1>7 DEF Ids
<1>9. Ascending(all) /\ Elements(all) = Ids
  BY <1>0, <1>8 DEF Ascending, Elements, Ids
<1>10. PICK p, q : p = Among(known, found) /\ q = Among(all, found \ Elements(known))
  OBVIOUS
<1>11. p \in Seq(Ids) /\ Ascending(p) /\ Elements(p) = Elements(known) \cap found
  <2>1. Ids \in SUBSET Nat
    BY <1>4
  <2>2. QED
    BY <1>4, <1>5, <1>10, <2>1, AmongKeepsOrder
<1>12. q \in Seq(Ids) /\ Ascending(q) /\ Elements(q) = Ids \cap (found \ Elements(known))
  <2>1. Ids \in SUBSET Nat
    BY <1>4
  <2>2. PICK T : T = found \ Elements(known)
    OBVIOUS
  <2>3. q = Among(all, T)
    BY <1>10, <2>2
  <2>4. q \in Seq(Ids) /\ Ascending(q) /\ Elements(q) = Elements(all) \cap T
    BY <1>8, <1>9, <2>1, <2>3, AmongKeepsOrder
  <2>5. QED
    BY <1>9, <2>2, <2>4
<1>13. \A x \in Elements(p), y \in Elements(q) : x < y
  <2> SUFFICES ASSUME NEW x \in Elements(p), NEW y \in Elements(q)
               PROVE  x < y
    OBVIOUS
  <2>1. x \in Elements(known) /\ y \in Ids /\ Source(y) /\ y \notin Elements(known)
    BY <1>2, <1>11, <1>12
  <2>2. QED
    BY <1>0, <1>1, <2>1 DEF AddsBehind
<1>14. Elements(p) \cup Elements(q) = found
  BY <1>2, <1>11, <1>12
<1>15. Sources = p \o q
  BY <1>1, <1>2, <1>6, <1>7, <1>10 DEF Sources
<1>16. p \o q \in Seq(Ids) /\ Ascending(p \o q) /\ Elements(p \o q) = found
  <2>1. Ids \in SUBSET Nat
    BY <1>4
  <2>2. QED
    BY <1>11, <1>12, <1>13, <1>14, <2>1, OneAfterTheOther
<1>17. QED
  BY <1>2, <1>15, <1>16

\* The greatest number of a set that has one.
LEMMA GreatestIsMax ==
    ASSUME NEW S \in SUBSET Nat, NEW n \in S, \A m \in S : m <= n
    PROVE  Max(S) = n
<1>1. \A x \in S : (\A y \in S : x >= y) => x = n
  BY SMT
<1>2. \A y \in S : n >= y
  OBVIOUS
<1>3. QED
  BY <1>1, <1>2 DEF Max

\* No source of compose was drafted on another spec than the one applied before it:
\* one that names the first spec follows the first, for nothing between them ever
\* had a spec, and the others name the composed view or nothing.
LEMMA NoneIsStale ==
    ASSUME Chained, current # NoFile
    PROVE  ~Composition(Sources).conflicts
<1>1. PICK s \in Seq(Ids) : s = Sources
  BY SourcesAscend
<1>2. PICK n \in Nat : n = Len(s)
  OBVIOUS
<1>3. /\ \A k \in 1 .. n : s[k] \in Ids /\ Source(s[k])
      /\ \A i \in Ids : Source(i) => \E k \in 1 .. n : s[k] = i
      /\ \A k, l \in 1 .. n : k < l => s[k] < s[l]
  <2>1. Ascending(s) /\ Elements(s) = {i \in Ids : Source(i)}
    BY <1>1, SourcesAscend
  <2>2. \A k \in 1 .. n : s[k] \in Elements(s)
    BY <1>2 DEF Elements
  <2>3. \A i \in Elements(s) : \E k \in 1 .. n : s[k] = i
    BY <1>2 DEF Elements
  <2>4. \A k, l \in 1 .. n : k < l => s[k] < s[l]
    BY <1>2, <2>1 DEF Ascending
  <2>5. QED
    BY <2>1, <2>2, <2>3, <2>4
<1>4. ASSUME NEW k \in 1 .. n
      PROVE  Replaces(s, k)
  <2> SUFFICES ASSUME k # 1, iter[s[k]].base \notin {NoRef, TheView}
               PROVE  iter[s[k]].base = s[k - 1]
    BY DEF Replaces, StaleBaseline
  <2>1. PICK i \in Ids : i = s[k] /\ Source(i)
    BY <1>3
  <2>2. iter[i].base = 1 /\ i > 1 /\ (Active > 1 => i <= Active)
        /\ \A j \in Ids : 1 < j /\ j < i => iter[j].spec = NoSpec
    BY <2>1 DEF Chained, FirstBaselines
  <2>3. iter[i].spec # NoSpec
    BY <2>1 DEF Source, SpecApproved
  <2>4. ~(i > Active)
    BY <2>2, <2>3 DEF Chained
  <2>5. Active \in Nat
    BY DEF Chained, Ordered, Active, Ids
  <2>6. Active > 1
    BY <2>2, <2>4, <2>5 DEF Ids
  <2>7. Source(1) /\ 1 \in Ids
    BY <2>6, Bounds DEF Chained, Ids
  <2>8. PICK l \in 1 .. n : s[l] = 1
    BY <1>3, <2>7
  <2>9. l < k
    <3>1. ~(k < l) /\ k # l
      BY <1>3, <2>1, <2>2, <2>8 DEF Ids
    <3>2. QED
      BY <1>2, <3>1
  <2>10. CASE l = k - 1
    BY <2>1, <2>2, <2>8, <2>10
  <2>11. CASE l # k - 1
    <3>1. k - 1 \in 1 .. n /\ l < k - 1 /\ k - 1 < k
      BY <1>2, <2>9, <2>11
    <3>2. PICK j \in Ids : j = s[k - 1] /\ Source(j)
      BY <1>3, <3>1
    <3>3. 1 < j /\ j < i
      BY <1>3, <2>1, <2>8, <3>1, <3>2
    <3>4. iter[j].spec # NoSpec
      BY <3>2 DEF Source, SpecApproved
    <3>5. QED
      BY <2>2, <3>3, <3>4
  <2>12. QED
    BY <2>10, <2>11
<1>5. ASSUME NEW k \in 1 .. n
      PROVE  Effective(s, k) = iter[s[k]].spec.changes
  <2> DEFINE R == {j \in 1 .. k : Replaces(s, j)}
  <2>1. R \in SUBSET Nat /\ k \in R /\ \A m \in R : m <= k
    BY <1>4
  <2> HIDE DEF R
  <2>2. Max(R) = k
    BY <2>1, GreatestIsMax
  <2>3. QED
    BY <2>2 DEF Effective, R
<1>6. Composition(s).conflicts = \E k \in 1 .. Len(s) : iter[s[k]].spec.changes # Effective(s, k)
  BY DEF Composition
<1>7. QED
  BY <1>1, <1>2, <1>5, <1>6

-----------------------------------------------------------------------------
(* What a write of an iteration leaves                                     *)

\* What is written over an iteration, and what stays.
Overwritten(j, v) ==
    /\ \A i \in Ids : i # j => iter'[i] = iter[i]
    /\ \A i \in Ids : DOMAIN iter'[i] = IterationFields
    /\ \A f \in IterationFields : iter'[j][f] = IF f \in DOMAIN v THEN v[f] ELSE iter[j][f]

\* Only the fields that are written change, and only of that iteration.
LEMMA OnlyTheseFields ==
    ASSUME Files, \A i \in Ids : DOMAIN iter[i] = IterationFields, NEW j \in Ids, NEW v,
           DOMAIN v \subseteq IterationFields, iter' = [iter EXCEPT ![j] = Updated(@, v)]
    PROVE  Overwritten(j, v)
<1>1. iter = [i \in Ids |-> iter[i]]
  BY DEF Files
<1>2. (\A i \in Ids : i # j => iter'[i] = iter[i]) /\ iter'[j] = Updated(iter[j], v)
  BY <1>1
<1>3. /\ DOMAIN Updated(iter[j], v) = IterationFields
      /\ \A f \in IterationFields : Updated(iter[j], v)[f] = IF f \in DOMAIN v THEN v[f] ELSE iter[j][f]
  BY DEF Updated
<1>4. QED
  BY <1>2, <1>3 DEF Overwritten

\* It makes no iteration a source of compose.
LEMMA NoNewSource ==
    ASSUME Files, \A i \in Ids : DOMAIN iter[i] = IterationFields, NEW j \in Ids, NEW v,
           DOMAIN v \subseteq IterationFields, iter' = [iter EXCEPT ![j] = Updated(@, v)], NoSource(v),
           NEW i \in Ids, Source(i)'
    PROVE  Source(i)
<1>1. /\ i # j => iter'[i] = iter[i]
      /\ \A f \in IterationFields : iter'[j][f] = IF f \in DOMAIN v THEN v[f] ELSE iter[j][f]
  <2>1. Overwritten(j, v)
    BY OnlyTheseFields, Zenon
  <2> QED
    BY <2>1 DEF Overwritten
<1>2. CASE i # j
  BY <1>1, <1>2 DEF Source, SpecApproved, AllDone
<1>3. CASE i = j
  <2>1. "exists" \in IterationFields /\ "spec" \in IterationFields /\ "graph" \in IterationFields /\ "review" \in IterationFields
    BY DEF IterationFields
  <2>2. iter'[i].spec.approved /\ iter'[i].graph.tasks = "done"
    BY DEF Source, SpecApproved, AllDone
  <2>3. ~("spec" \in DOMAIN v /\ ~v.spec.approved)
    BY <1>1, <1>3, <2>1, <2>2
  <2>4. ~("graph" \in DOMAIN v /\ v.graph.tasks # "done")
    BY <1>1, <1>3, <2>1, <2>2
  <2>5. DOMAIN v \subseteq {"meta", "base", "intake", "draft"}
    BY <2>3, <2>4 DEF NoSource
  <2>6. /\ iter'[i].exists = iter[i].exists /\ iter'[i].spec = iter[i].spec
        /\ iter'[i].graph = iter[i].graph /\ iter'[i].review = iter[i].review
    BY <1>1, <1>3, <2>1, <2>5
  <2>7. QED
    BY <2>6 DEF Source, SpecApproved, AllDone
<1>4. QED
  BY <1>2, <1>3

\* The pointer is an iteration where there is one.
LEMMA PointerOrNone ==
    ASSUME IInv
    PROVE  /\ Active \in Nat /\ (Active = 0 <=> current = NoFile) /\ (Active # 0 => Active \in Ids)
           /\ 1 \in Ids /\ Ids \subseteq Nat \ {0}
<1>1. NoFile.active = 0 /\ 1 \in Ids /\ Ids \subseteq Nat \ {0}
  BY Bounds DEF NoFile, Ids
<1>2. CASE current = NoFile
  <2>1. Active = 0
    BY <1>1, <1>2 DEF Active
  <2>2. QED
    BY <1>1, <1>2, <2>1
<1>3. CASE current # NoFile
  <2>1. Active \in Ids
    BY <1>3 DEF IInv, Files, HasPointer, Active
  <2>2. QED
    BY <1>1, <1>3, <2>1
<1>4. QED
  BY <1>2, <1>3

\* The fields of an iteration a command may write, and with what.
FieldsOf(j, v) ==
    /\ DOMAIN v \subseteq IterationFields /\ NoSource(v)
    /\ "exists" \in DOMAIN v => v.exists
    /\ "spec" \in DOMAIN v => v.spec = NoSpec \/ j = 1 \/ j = Active
    /\ "base" \in DOMAIN v =>
           \/ v.base = NoRef
           \/ /\ v.base \in {1, TheView} /\ j > Active /\ j > 1 /\ (v.base = 1 => Active = 1)
              /\ iter[j].exists
    /\ Active > 1 => j # 1

\* A pending write of an iteration keeps the chain.
LEMMA IterationWritten ==
    ASSUME IInv, Chained, NEW j \in Ids, NEW v, FieldsOf(j, v),
           iter' = [iter EXCEPT ![j] = Updated(@, v)], UNCHANGED <<current, status>>
    PROVE  /\ Chained'
           /\ \A i \in Ids : Source(i)' => Source(i)
<1>0. Active' = Active /\ Active \in Nat /\ 1 \in Ids /\ Ids \subseteq Nat \ {0}
  BY PointerOrNone DEF Active
<1>1. Files /\ \A i \in Ids : DOMAIN iter[i] = IterationFields
  BY DEF IInv, Chained
<1>2. /\ \A i \in Ids : i # j => iter'[i] = iter[i]
      /\ \A i \in Ids : DOMAIN iter'[i] = IterationFields
      /\ \A f \in IterationFields : iter'[j][f] = IF f \in DOMAIN v THEN v[f] ELSE iter[j][f]
  <2>1. DOMAIN v \subseteq IterationFields
    BY DEF FieldsOf
  <2>2. Overwritten(j, v)
    BY <1>1, <2>1, OnlyTheseFields
  <2>3. QED
    BY <2>2 DEF Overwritten
<1>3. \A i \in Ids : Source(i)' => Source(i)
  BY <1>1, NoNewSource DEF FieldsOf
<1>4. /\ iter'[j].exists = IF "exists" \in DOMAIN v THEN v.exists ELSE iter[j].exists
      /\ iter'[j].spec = IF "spec" \in DOMAIN v THEN v.spec ELSE iter[j].spec
      /\ iter'[j].base = IF "base" \in DOMAIN v THEN v.base ELSE iter[j].base
  BY <1>2 DEF IterationFields
<1>5. current' # NoFile => Ordered(current)' /\ AddsBehind(current)'
  <2>1. current # NoFile => Ordered(current) /\ AddsBehind(current)
    BY DEF Chained
  <2>2. Ordered(current) => Ordered(current)'
    BY DEF Ordered, Ascending, ClosedIds
  <2>3. AddsBehind(current) => AddsBehind(current)'
    BY <1>3 DEF AddsBehind, Elements
  <2>4. QED
    BY <2>1, <2>2, <2>3
<1>6. \A i \in Ids : i > 1 /\ i > Active => iter'[i].spec = NoSpec
  <2> SUFFICES ASSUME NEW i \in Ids, i > 1, i > Active
               PROVE  iter'[i].spec = NoSpec
    OBVIOUS
  <2>1. iter[i].spec = NoSpec /\ i # 1 /\ i # Active
    BY <1>0 DEF Chained
  <2>2. QED
    BY <1>2, <1>4, <2>1 DEF FieldsOf
<1>7. FirstBaselines'
  <2> SUFFICES ASSUME NEW i \in Ids
               PROVE  /\ iter'[i].base \in {NoRef, 1, TheView}
                      /\ ~iter'[i].exists => iter'[i].base = NoRef
                      /\ iter'[i].base = 1 =>
                             /\ i > 1 /\ (Active > 1 => i <= Active)
                             /\ \A m \in Ids : 1 < m /\ m < i => iter'[m].spec = NoSpec
    BY <1>0 DEF FirstBaselines
  <2>1. /\ iter[i].base \in {NoRef, 1, TheView}
        /\ ~iter[i].exists => iter[i].base = NoRef
        /\ iter[i].base = 1 =>
               /\ i > 1 /\ (Active > 1 => i <= Active)
               /\ \A m \in Ids : 1 < m /\ m < i => iter[m].spec = NoSpec
    BY DEF Chained, FirstBaselines
  <2>2. CASE iter'[i].base = iter[i].base
    <3>1. ~iter'[i].exists => ~iter[i].exists
      BY <1>2, <1>4 DEF FieldsOf
    <3>2. ASSUME iter[i].base = 1, NEW m \in Ids, 1 < m, m < i
          PROVE  iter'[m].spec = NoSpec
      <4>1. iter[m].spec = NoSpec /\ m # 1
        BY <2>1, <3>2
      <4>2. m # Active
        <5>1. Active > 1 => i <= Active
          BY <2>1, <3>2
        <5>2. QED
          BY <1>0, <3>2, <5>1
      <4>3. QED
        BY <1>2, <1>4, <4>1, <4>2 DEF FieldsOf
    <3>3. QED
      BY <2>1, <2>2, <3>1, <3>2
  <2>3. CASE iter'[i].base # iter[i].base
    <3>1. i = j /\ "base" \in DOMAIN v /\ iter'[i].base = v.base
      BY <1>2, <1>4, <2>3
    <3>2. CASE v.base = NoRef
      <4>1. NoRef # 1
        BY DEF NoRef
      <4>2. QED
        BY <3>1, <3>2, <4>1
    <3>3. CASE v.base # NoRef
      <4>1. v.base \in {1, TheView} /\ j > Active /\ j > 1 /\ (v.base = 1 => Active = 1) /\ iter[j].exists
        BY <3>1, <3>3 DEF FieldsOf
      <4>2. iter'[i].exists
        BY <1>4, <3>1, <4>1 DEF FieldsOf
      <4>3. ASSUME v.base = 1, NEW m \in Ids, 1 < m, m < i
            PROVE  iter'[m].spec = NoSpec
        <5>1. m # j /\ m > Active /\ m > 1
          BY <1>0, <3>1, <4>1, <4>3
        <5>2. QED
          BY <1>2, <5>1 DEF Chained
      <4>4. QED
        BY <1>0, <3>1, <4>1, <4>2, <4>3
    <3>4. QED
      BY <3>2, <3>3
  <2>4. QED
    BY <2>2, <2>3
<1>8. Active > 1 => Source(1)'
  <2> SUFFICES ASSUME Active > 1
               PROVE  Source(1)'
    OBVIOUS
  <2>1. iter'[1] = iter[1] /\ Source(1)
    BY <1>0, <1>2 DEF FieldsOf, Chained
  <2>2. QED
    BY <2>1 DEF Source, SpecApproved, AllDone
<1>9. status' # NoFile /\ status'.gateB => current' # NoFile /\ current'.ref # NoRef
  BY DEF Chained
<1>10. QED
  BY <1>0, <1>2, <1>3, <1>5, <1>6, <1>7, <1>8, <1>9 DEF Chained

\* What is written by hand in the active iteration keeps it too, though that may
\* make it a source: it comes after all that is composed.
LEMMA AuthorKeepsChain ==
    ASSUME IInv, Chained, NEW v, NEW i \in Ids, Author(i, v),
           DOMAIN v \subseteq {"spec", "draft", "graph", "review"}
    PROVE  Chained'
<1>0. /\ i = Active /\ iter' = [iter EXCEPT ![i] = Updated(@, v)]
      /\ UNCHANGED <<current, status>> /\ DOMAIN v \subseteq IterationFields
  BY DEF Author, IterationFields
<1>1. /\ Active' = Active /\ Active \in Ids /\ current # NoFile
      /\ 1 \in Ids /\ Ids \subseteq Nat \ {0} /\ Active \in Nat
  BY <1>0, PointerOrNone DEF Active
<1>2. /\ \A m \in Ids : m # i => iter'[m] = iter[m]
      /\ \A m \in Ids : DOMAIN iter'[m] = IterationFields
      /\ \A f \in IterationFields : iter'[i][f] = IF f \in DOMAIN v THEN v[f] ELSE iter[i][f]
  <2>1. Files /\ \A m \in Ids : DOMAIN iter[m] = IterationFields
    BY DEF IInv, Chained
  <2>2. Overwritten(i, v)
    BY <1>0, <2>1, OnlyTheseFields
  <2>3. QED
    BY <2>2 DEF Overwritten
<1>3. iter'[i].exists = iter[i].exists /\ iter'[i].base = iter[i].base
  BY <1>0, <1>2 DEF IterationFields
<1>4. \A m \in Ids : m # i /\ Source(m)' => Source(m)
  BY <1>2 DEF Source, SpecApproved, AllDone
<1>5. Ordered(current)' /\ AddsBehind(current)'
  <2>1. Ordered(current) /\ AddsBehind(current)
    BY <1>1 DEF Chained
  <2>2. Ordered(current)'
    BY <1>0, <2>1 DEF Ordered, Ascending, ClosedIds
  <2>3. ASSUME NEW m \in Ids, NEW c \in Elements(current.composed), Source(m)',
               m \notin Elements(current.composed)
        PROVE  c < m
    <3>1. CASE m # i
      BY <1>4, <2>1, <2>3, <3>1 DEF AddsBehind
    <3>2. CASE m = i
      <4>1. c \in 1 .. Active
        <5>1. PICK V, s : V = 1 .. Active /\ s = current.composed
          OBVIOUS
        <5>2. s \in Seq(V) /\ c \in Elements(s)
          BY <2>1, <5>1 DEF Ordered, Active
        <5>3. PICK k \in 1 .. Len(s) : c = s[k]
          BY <5>2 DEF Elements
        <5>4. c \in V
          BY <5>2, <5>3, ElementOfSeq
        <5>5. QED
          BY <5>1, <5>4
      <4>2. c # i
        BY <2>3, <3>2
      <4>3. QED
        BY <1>0, <1>1, <3>2, <4>1, <4>2
    <3>3. QED
      BY <3>1, <3>2
  <2>4. AddsBehind(current)'
    BY <1>0, <2>3 DEF AddsBehind, Elements
  <2>5. QED
    BY <2>2, <2>4
<1>6. \A m \in Ids : m > 1 /\ m > Active => iter'[m].spec = NoSpec
  BY <1>0, <1>1, <1>2 DEF Chained
<1>7. FirstBaselines'
  <2> SUFFICES ASSUME NEW k \in Ids
               PROVE  /\ iter'[k].base \in {NoRef, 1, TheView}
                      /\ ~iter'[k].exists => iter'[k].base = NoRef
                      /\ iter'[k].base = 1 =>
                             /\ k > 1 /\ (Active > 1 => k <= Active)
                             /\ \A m \in Ids : 1 < m /\ m < k => iter'[m].spec = NoSpec
    BY <1>1 DEF FirstBaselines
  <2>1. /\ iter[k].base \in {NoRef, 1, TheView}
        /\ ~iter[k].exists => iter[k].base = NoRef
        /\ iter[k].base = 1 =>
               /\ k > 1 /\ (Active > 1 => k <= Active)
               /\ \A m \in Ids : 1 < m /\ m < k => iter[m].spec = NoSpec
    BY DEF Chained, FirstBaselines
  <2>2. iter'[k].base = iter[k].base /\ iter'[k].exists = iter[k].exists
    BY <1>2, <1>3
  <2>3. ASSUME iter[k].base = 1, NEW m \in Ids, 1 < m, m < k
        PROVE  iter'[m].spec = NoSpec
    <3>1. Active > 1 => k <= Active
      BY <2>1, <2>3
    <3>2. m # i
      BY <1>0, <1>1, <2>3, <3>1
    <3>3. QED
      BY <1>2, <2>1, <2>3, <3>2
  <2>4. QED
    BY <2>1, <2>2, <2>3
<1>8. Active > 1 => Source(1)'
  <2> SUFFICES ASSUME Active > 1
               PROVE  Source(1)'
    OBVIOUS
  <2>1. iter'[1] = iter[1] /\ Source(1)
    BY <1>0, <1>1, <1>2 DEF Chained
  <2>2. QED
    BY <2>1 DEF Source, SpecApproved, AllDone
<1>9. status' # NoFile /\ status'.gateB => current' # NoFile /\ current'.ref # NoRef
  BY <1>0 DEF Chained
<1>10. QED
  BY <1>0, <1>1, <1>2, <1>5, <1>6, <1>7, <1>8, <1>9 DEF Chained

-----------------------------------------------------------------------------
(* The next write                                                          *)

\* A pending pointer, as it stands, keeps the chain when it is written.
LEMMA CurrentWritten ==
    ASSUME IInv, Chained, NEW v, CurrentWrite(v), current' = v, UNCHANGED <<iter, status>>
    PROVE  Chained' /\ Active' = v.active /\ Active' # 0 /\ (Active # 0 => Active' = Active)
<1>0. /\ Active \in Nat /\ (Active = 0 <=> current = NoFile) /\ 1 \in Ids
      /\ Ids \subseteq Nat \ {0}
  BY PointerOrNone
<1>1. /\ Ordered(v) /\ AddsBehind(v) /\ v.active = Aim
      /\ (Active # 0 /\ current.ref # NoRef => v.ref # NoRef)
  BY DEF CurrentWrite
<1>2. /\ Active' = v.active /\ Active' \in Nat \ {0} /\ (Active # 0 => Active' = Active)
      /\ (Active = 0 => Active' = 1)
  BY <1>0, <1>1 DEF Ordered, Active, Aim
<1>3. current' # NoFile
  BY <1>2 DEF Active, NoFile
<1>4. Ordered(current)' /\ AddsBehind(current)'
  <2>1. Ordered(current)'
    BY <1>1 DEF Ordered, Ascending, ClosedIds
  <2>2. AddsBehind(current)'
    BY <1>1 DEF AddsBehind, Elements, Source, SpecApproved, AllDone
  <2>3. QED
    BY <2>1, <2>2
<1>5. \A i \in Ids : i > 1 /\ i > Active' => iter'[i].spec = NoSpec
  BY <1>0, <1>2 DEF Chained
<1>6. FirstBaselines'
  <2>1. Active' > 1 => Active > 1 /\ Active' = Active
    BY <1>0, <1>2
  <2>2. FirstBaselines
    BY DEF Chained
  <2>3. QED
    BY <2>1, <2>2 DEF FirstBaselines
<1>7. Active' > 1 => Source(1)'
  <2>1. Active' > 1 => Active > 1
    BY <1>0, <1>2
  <2>2. QED
    BY <2>1 DEF Chained, Source, SpecApproved, AllDone
<1>8. status' # NoFile /\ status'.gateB => current'.ref # NoRef
  BY <1>0, <1>1 DEF Chained
<1>9. \A i \in Ids : DOMAIN iter'[i] = IterationFields
  BY DEF Chained
<1>10. QED
  BY <1>2, <1>3, <1>4, <1>5, <1>6, <1>7, <1>8, <1>9 DEF Chained

\* The writes that follow the first of a command that works on one iteration.
LEMMA WorkGoesOn ==
    ASSUME IInv, Chained, WorkWrites(todo), Write
    PROVE  Chained' /\ WorkWrites(todo)'
<1>0. /\ Active \in Nat /\ (Active = 0 <=> current = NoFile) /\ 1 \in Ids
      /\ Ids \subseteq Nat \ {0} /\ (Active # 0 => Active \in Ids)
  BY PointerOrNone
<1> DEFINE w == Head(todo)
<1>1. PICK S : todo \in Seq(S)
  BY DEF IInv, Files
<1>2. todo # <<>> /\ todo' = Tail(todo)
  BY DEF Write, Idle
<1>3. PICK n \in Nat \ {0} : n = Len(todo)
  BY <1>1, <1>2, HeadAndTail
<1>r. PICK rest : rest = todo'
  OBVIOUS
<1>4. /\ w = todo[1] /\ Len(rest) = n - 1 /\ todo' = rest
      /\ \A k \in 1 .. n - 1 : rest[k] = todo[k + 1] /\ k + 1 \in 1 .. n
  BY <1>1, <1>2, <1>3, <1>r, HeadAndTail
<1> HIDE DEF w
<1>5. /\ current' = IF w.file = "current" THEN w.value ELSE current
      /\ status' = IF w.file = "status" THEN w.value ELSE status
      /\ iter' = IF w.file = "iteration" THEN [iter EXCEPT ![w.id] = Updated(@, w.value)] ELSE iter
  BY DEF Write, w
<1>6. /\ w.file = "iteration" => IterationWrite(w)
      /\ w.file = "current" => CurrentWrite(w.value)
      /\ w.file = "status" /\ w.value.gateB => Active # 0 /\ current.ref # NoRef
  BY <1>3, <1>4 DEF WorkWrites
<1>7. \A k \in 1 .. n - 1 :
        /\ rest[k].file = "iteration" => IterationWrite(rest[k])
        /\ rest[k].file = "current" => CurrentWrite(rest[k].value) /\ w.file # "current"
        /\ rest[k].file = "status" /\ rest[k].value.gateB =>
               \/ Active # 0 /\ current.ref # NoRef
               \/ w.file = "current" /\ w.value.ref # NoRef
               \/ \E l \in 1 .. k - 1 : rest[l].file = "current" /\ rest[l].value.ref # NoRef
  <2> SUFFICES ASSUME NEW k \in 1 .. n - 1
               PROVE  /\ rest[k].file = "iteration" => IterationWrite(rest[k])
                      /\ rest[k].file = "current" => CurrentWrite(rest[k].value) /\ w.file # "current"
                      /\ rest[k].file = "status" /\ rest[k].value.gateB =>
                             \/ Active # 0 /\ current.ref # NoRef
                             \/ w.file = "current" /\ w.value.ref # NoRef
                             \/ \E l \in 1 .. k - 1 : rest[l].file = "current"
                                                     /\ rest[l].value.ref # NoRef
    OBVIOUS
  <2>1. rest[k] = todo[k + 1] /\ k + 1 \in 1 .. n /\ 1 \in 1 .. n /\ k + 1 # 1
    BY <1>4
  <2>2. /\ rest[k].file = "iteration" => IterationWrite(rest[k])
        /\ rest[k].file = "current" => CurrentWrite(rest[k].value) /\ w.file # "current"
    BY <1>3, <1>4, <2>1 DEF WorkWrites
  <2>3. ASSUME rest[k].file = "status", rest[k].value.gateB, ~(Active # 0 /\ current.ref # NoRef)
        PROVE  \/ w.file = "current" /\ w.value.ref # NoRef
               \/ \E l \in 1 .. k - 1 : rest[l].file = "current" /\ rest[l].value.ref # NoRef
    <3>1. PICK l \in 1 .. (k + 1) - 1 : todo[l].file = "current" /\ todo[l].value.ref # NoRef
      BY <1>3, <2>1, <2>3 DEF WorkWrites
    <3>2. CASE l = 1
      BY <1>4, <3>1, <3>2
    <3>3. CASE l # 1
      <4>1. l - 1 \in 1 .. n - 1 /\ l - 1 \in 1 .. k - 1 /\ (l - 1) + 1 = l
        BY <3>3
      <4>2. rest[l - 1] = todo[l]
        BY <1>4, <4>1
      <4>3. QED
        BY <3>1, <4>1, <4>2
    <3>4. QED
      BY <3>2, <3>3
  <2>4. QED
    BY <2>2, <2>3
<1>8. \A k, l \in 1 .. n - 1 : rest[k].file = "current" /\ rest[l].file = "current" => k = l
  <2> SUFFICES ASSUME NEW k \in 1 .. n - 1, NEW l \in 1 .. n - 1,
                      rest[k].file = "current", rest[l].file = "current"
               PROVE  k = l
    OBVIOUS
  <2>1. k + 1 \in 1 .. n /\ l + 1 \in 1 .. n /\ rest[k] = todo[k + 1] /\ rest[l] = todo[l + 1]
    BY <1>4
  <2>2. k + 1 = l + 1
    BY <1>3, <2>1 DEF WorkWrites
  <2>3. QED
    BY <2>2
\* The pointer moves only from nothing to the first iteration; what is pending stays
\* what it was, unless its sources were taken out.
<1>9. ASSUME Chained', Active' = Active, current' = current,
             \A i \in Ids : Source(i)' => Source(i)
      PROVE  WorkWrites(todo)'
  <2>1. w.file # "current" \/ (Active # 0 /\ current.ref # NoRef) \/ ~(w.value.ref # NoRef)
    <3>1. w.file = "current" => current = w.value /\ w.value.active \in Ids
      BY <1>5, <1>6, <1>9 DEF CurrentWrite, Ordered
    <3>2. w.file = "current" => Active # 0
      BY <1>0, <3>1 DEF Active
    <3>3. QED
      BY <3>1, <3>2
  <2>2. ASSUME NEW x, IterationWrite(x)
        PROVE  IterationWrite(x)'
    BY <1>9, <2>2 DEF IterationWrite, NoSource, Aim
  <2>3. ASSUME NEW x, CurrentWrite(x)
        PROVE  CurrentWrite(x)'
    BY <1>9, <2>3 DEF CurrentWrite, Aim, Ordered, Ascending, ClosedIds, AddsBehind, Elements
  <2>4. \A k \in 1 .. n - 1 :
          /\ rest[k].file = "iteration" => IterationWrite(rest[k])'
          /\ rest[k].file = "current" => CurrentWrite(rest[k].value)'
          /\ rest[k].file = "status" /\ rest[k].value.gateB =>
                 \/ Active' # 0 /\ current'.ref # NoRef
                 \/ \E l \in 1 .. k - 1 : rest[l].file = "current" /\ rest[l].value.ref # NoRef
    <3> SUFFICES ASSUME NEW k \in 1 .. n - 1
                 PROVE  /\ rest[k].file = "iteration" => IterationWrite(rest[k])'
                        /\ rest[k].file = "current" => CurrentWrite(rest[k].value)'
                        /\ rest[k].file = "status" /\ rest[k].value.gateB =>
                               \/ Active' # 0 /\ current'.ref # NoRef
                               \/ \E l \in 1 .. k - 1 : rest[l].file = "current"
                                                       /\ rest[l].value.ref # NoRef
      OBVIOUS
    <3>1. PICK x : x = rest[k]
      OBVIOUS
    <3>2. x.file = "iteration" => IterationWrite(x)'
      BY <1>7, <2>2, <3>1
    <3>3. x.file = "current" => CurrentWrite(x.value)'
      BY <1>7, <2>3, <3>1
    <3>4. x.file = "status" /\ x.value.gateB =>
              \/ Active' # 0 /\ current'.ref # NoRef
              \/ \E l \in 1 .. k - 1 : rest[l].file = "current" /\ rest[l].value.ref # NoRef
      BY <1>7, <1>9, <2>1, <3>1
    <3>5. QED
      BY <3>1, <3>2, <3>3, <3>4
  <2>5. QED
    BY <1>4, <1>8, <2>4 DEF WorkWrites
<1>10. CASE w.file = "iteration"
  <2>1. PICK j \in Ids : j = w.id
    BY <1>0, <1>6, <1>10 DEF IterationWrite, Aim
  <2>2. PICK v : v = w.value
    OBVIOUS
  <2>3. FieldsOf(j, v)
    <3>1. IterationWrite(w) /\ (j = Active \/ j = 1)
      BY <1>6, <1>10, <2>1 DEF IterationWrite, Aim
    <3>2. Active > 1 => j # 1
      BY <1>0, <1>6, <1>10, <2>1 DEF IterationWrite, Aim
    <3>3. QED
      BY <2>2, <3>1, <3>2 DEF FieldsOf, IterationWrite
  <2>4. iter' = [iter EXCEPT ![j] = Updated(@, v)] /\ UNCHANGED <<current, status>>
    BY <1>5, <1>10, <2>1, <2>2
  <2>5. Chained' /\ \A i \in Ids : Source(i)' => Source(i)
    BY <2>3, <2>4, IterationWritten
  <2>6. Active' = Active /\ current' = current
    BY <2>4 DEF Active
  <2>7. QED
    BY <1>9, <2>5, <2>6
<1>11. CASE w.file = "current"
  <2>1. PICK v : v = w.value /\ CurrentWrite(v)
    BY <1>6, <1>11
  <2>2. current' = v /\ UNCHANGED <<iter, status>>
    BY <1>5, <1>11, <2>1
  <2>3. Chained' /\ Active' = v.active /\ Active' # 0 /\ (Active # 0 => Active' = Active)
    BY <2>1, <2>2, CurrentWritten
  <2>4. ASSUME NEW x, IterationWrite(x)
        PROVE  IterationWrite(x)'
    <3>1. v.active = Aim
      BY <2>1 DEF CurrentWrite
    <3>2. x.id = Aim'
      BY <2>3, <2>4, <3>1 DEF IterationWrite, Aim
    <3>3. QED
      BY <2>4, <3>2 DEF IterationWrite, NoSource
  <2>5. Active # 0 /\ current.ref # NoRef => v.ref # NoRef
    BY <2>1 DEF CurrentWrite
  <2>6. \A k \in 1 .. n - 1 :
          /\ rest[k].file = "iteration" => IterationWrite(rest[k])'
          /\ rest[k].file # "current"
          /\ rest[k].file = "status" /\ rest[k].value.gateB => Active' # 0 /\ current'.ref # NoRef
    <3> SUFFICES ASSUME NEW k \in 1 .. n - 1
                 PROVE  /\ rest[k].file = "iteration" => IterationWrite(rest[k])'
                        /\ rest[k].file # "current"
                        /\ rest[k].file = "status" /\ rest[k].value.gateB =>
                               Active' # 0 /\ current'.ref # NoRef
      OBVIOUS
    <3>1. PICK x : x = rest[k]
      OBVIOUS
    <3>2. x.file # "current" /\ (x.file = "iteration" => IterationWrite(x)')
      BY <1>7, <1>11, <2>4, <3>1
    <3>3. \A l \in 1 .. k - 1 : rest[l].file # "current"
      BY <1>7, <1>11
    <3>4. x.file = "status" /\ x.value.gateB => current'.ref # NoRef
      BY <1>7, <2>1, <2>2, <2>5, <3>1, <3>3
    <3>5. QED
      BY <2>3, <3>1, <3>2, <3>4
  <2>7. QED
    BY <1>4, <2>3, <2>6 DEF WorkWrites
<1>12. CASE w.file \notin {"iteration", "current"}
  <2>1. current' = current /\ iter' = iter /\ Active' = Active
    BY <1>5, <1>12 DEF Active
  <2>2. \A i \in Ids : Source(i)' => Source(i)
    BY <2>1 DEF Source, SpecApproved, AllDone
  <2>3. status' # NoFile /\ status'.gateB => current' # NoFile /\ current'.ref # NoRef
    BY <1>0, <1>5, <1>6, <2>1 DEF Chained
  <2>4. Chained'
    <3>1. current # NoFile => Ordered(current)' /\ AddsBehind(current)'
      <4>1. current # NoFile => Ordered(current) /\ AddsBehind(current)
        BY DEF Chained
      <4>2. QED
        BY <2>1, <2>2, <4>1 DEF Ordered, Ascending, ClosedIds, AddsBehind, Elements
    <3>2. FirstBaselines'
      BY <2>1 DEF Chained, FirstBaselines
    <3>3. Active > 1 => Source(1)'
      BY <2>1 DEF Chained, Source, SpecApproved, AllDone
    <3>4. QED
      BY <2>1, <2>3, <3>1, <3>2, <3>3 DEF Chained
  <2>5. QED
    BY <1>9, <2>1, <2>2, <2>4
<1>13. QED
  BY <1>10, <1>11, <1>12

\* The fields of a directory that was just made.
LEMMA SkeletonFields ==
    /\ DOMAIN Skeleton = IterationFields /\ DOMAIN Greenfield = IterationFields /\ DOMAIN NoDir = IterationFields
    /\ Skeleton.exists /\ Skeleton.spec = NoSpec /\ Skeleton.base = NoRef
    /\ Skeleton.graph.tasks # "done"
    /\ Greenfield.exists /\ Greenfield.base = NoRef /\ Greenfield.graph.tasks # "done"
    /\ NoDir.spec = NoSpec /\ NoDir.base = NoRef /\ ~NoDir.exists
BY DEF Skeleton, Greenfield, NoDir, IterationFields, NoGraph

\* The writes of open, one after the other.
LEMMA OpenWritesInTurn ==
    ASSUME NEW i, NEW a, NEW b, NEW c, NEW d, OpenWrites(i) = <<a, b, c, d>>
    PROVE  /\ Head(OpenWrites(i)) = a /\ Tail(OpenWrites(i)) = <<b, c, d>>
           /\ Head(Tail(OpenWrites(i))) = b /\ Tail(Tail(OpenWrites(i))) = <<c, d>>
           /\ Head(Tail(Tail(OpenWrites(i)))) = c /\ Tail(Tail(Tail(OpenWrites(i)))) = <<d>>
<1>1. Head(OpenWrites(i)) = a /\ Tail(OpenWrites(i)) = <<b, c, d>>
  OBVIOUS
<1>2. Head(<<b, c, d>>) = b /\ Tail(<<b, c, d>>) = <<c, d>> /\ Head(<<c, d>>) = c /\ Tail(<<c, d>>) = <<d>>
  OBVIOUS
<1>3. QED
  BY <1>1, <1>2

\* Opening an iteration keeps the chain: its directory and its baseline come before
\* the pointer, which leaves a source behind.
LEMMA OpeningGoesOn ==
    ASSUME IInv, Chained, NEW i \in Ids, OpeningOf(i), Write
    PROVE  Chained' /\ (WorkWrites(todo)' \/ OpeningOf(i)')
<1>0. /\ Active \in Nat \ {0} /\ current # NoFile /\ 1 \in Ids /\ Ids \subseteq Nat \ {0}
      /\ Active \in Ids /\ i > Active /\ i # Active /\ i > 1
  BY PointerOrNone DEF OpeningOf
<1> DEFINE v2 == [meta |-> "active_planning", base |-> current.ref]
<1>1. PICK a, b, c, d : /\ a = ToIteration(i, Skeleton) /\ b = ToIteration(i, v2)
                        /\ c = ToCurrent(OpenedBy(i)) /\ d = ToStatus(OpenedBy(i))
  OBVIOUS
<1>2. OpenWrites(i) = <<a, b, c, d>>
  BY <1>1 DEF OpenWrites
<1>3. /\ Head(OpenWrites(i)) = a /\ Tail(OpenWrites(i)) = <<b, c, d>>
      /\ Head(Tail(OpenWrites(i))) = b /\ Tail(Tail(OpenWrites(i))) = <<c, d>>
      /\ Head(Tail(Tail(OpenWrites(i)))) = c /\ Tail(Tail(Tail(OpenWrites(i)))) = <<d>>
  BY <1>2, OpenWritesInTurn
<1>4. /\ a.file = "iteration" /\ a.id = i /\ a.value = Skeleton
      /\ b.file = "iteration" /\ b.id = i /\ b.value = v2
      /\ c.file = "current" /\ c.value = OpenedBy(i)
      /\ d.file = "status"
  BY <1>1 DEF ToIteration, ToCurrent, ToStatus
<1> HIDE DEF v2
<1>5. todo' = Tail(todo)
      /\ LET w == Head(todo)
         IN /\ current' = IF w.file = "current" THEN w.value ELSE current
            /\ status' = IF w.file = "status" THEN w.value ELSE status
            /\ iter' = IF w.file = "iteration" THEN [iter EXCEPT ![w.id] = Updated(@, w.value)] ELSE iter
  BY DEF Write
<1>6. Ordered(current) /\ AddsBehind(current)
  BY <1>0 DEF Chained
<1>7. /\ Source(Active) /\ Active \in ClosedIds(current)
      /\ current.ref # NoRef /\ (current.ref = 1 => Active = 1)
      /\ \A j \in Ids : j > i => iter[j].base = NoRef
  BY DEF OpeningOf
<1>8. ASSUME NEW v, FieldsOf(i, v), iter' = [iter EXCEPT ![i] = Updated(@, v)],
             UNCHANGED <<current, status>>
      PROVE  /\ Chained' /\ OpenWrites(i)' = OpenWrites(i) /\ Overwritten(i, v)
             /\ ((\/ todo' = Tail(OpenWrites(i)) /\ iter'[i].exists
                  \/ todo' = Tail(Tail(OpenWrites(i)))) => OpeningOf(i)')
  <2>1. Chained'
    BY <1>8, IterationWritten
  <2>2. OpenWrites(i)' = OpenWrites(i) /\ Active' = Active
    BY <1>8 DEF OpenWrites, OpenedBy, ToIteration, ToCurrent, ToStatus, Active
  <2>3. Overwritten(i, v)
    BY <1>8, OnlyTheseFields DEF FieldsOf, IInv, Chained
  <2>4. \A j \in Ids : j # i => iter'[j] = iter[j]
    BY <2>3 DEF Overwritten
  <2>5. Source(Active)'
    <3>1. iter'[Active] = iter[Active]
      BY <1>0, <2>4
    <3>2. QED
      BY <1>7, <2>2, <3>1 DEF Source, SpecApproved, AllDone
  <2>6. ASSUME NEW j \in Ids, j > i
        PROVE  iter'[j].base = NoRef
    <3>1. j # i
      BY <1>0, <2>6
    <3>2. iter'[j] = iter[j] /\ iter[j].base = NoRef
      BY <1>7, <2>4, <2>6, <3>1
    <3>3. QED
      BY <3>2
  <2>7. current' = current /\ ClosedIds(current)' = ClosedIds(current)
    BY <1>8 DEF ClosedIds
  <2>8. QED
    BY <1>0, <1>7, <2>1, <2>2, <2>3, <2>5, <2>6, <2>7 DEF OpeningOf
<1>9. CASE todo = OpenWrites(i)
  <2>1. /\ todo' = Tail(OpenWrites(i)) /\ iter' = [iter EXCEPT ![i] = Updated(@, Skeleton)]
        /\ UNCHANGED <<current, status>>
    BY <1>3, <1>4, <1>5, <1>9
  <2>2. FieldsOf(i, Skeleton)
    BY <1>0, SkeletonFields DEF FieldsOf, NoSource, IterationFields
  <2>3. iter'[i].exists
    <3>1. "exists" \in IterationFields /\ "exists" \in DOMAIN Skeleton
      BY DEF IterationFields, Skeleton
    <3>2. Overwritten(i, Skeleton)
      BY <1>8, <2>1, <2>2, Zenon
    <3>3. iter'[i].exists = Skeleton.exists
      BY <3>1, <3>2, Zenon DEF Overwritten
    <3>4. QED
      BY <3>3 DEF Skeleton
  <2>4. QED
    BY <1>8, <2>1, <2>2, <2>3
<1>10. CASE todo = Tail(OpenWrites(i)) /\ iter[i].exists
  <2>1. /\ todo' = Tail(Tail(OpenWrites(i))) /\ iter' = [iter EXCEPT ![i] = Updated(@, v2)]
        /\ UNCHANGED <<current, status>>
    BY <1>3, <1>4, <1>5, <1>10
  <2>2. FieldsOf(i, v2)
    <3>1. DOMAIN v2 = {"meta", "base"} /\ v2.base = current.ref
      BY DEF v2
    <3>2. current.ref \in {1, TheView}
      BY <1>6, <1>7 DEF Ordered
    <3>3. NoSource(v2) /\ DOMAIN v2 \subseteq IterationFields
      BY <3>1 DEF NoSource, IterationFields
    <3>4. QED
      BY <1>0, <1>7, <1>10, <3>1, <3>2, <3>3 DEF FieldsOf
  <2>3. QED
    BY <1>8, <2>1, <2>2
<1>11. CASE todo = Tail(Tail(OpenWrites(i)))
  <2>1. todo' = <<d>> /\ current' = OpenedBy(i) /\ UNCHANGED <<iter, status>>
    BY <1>3, <1>4, <1>5, <1>11
  <2>2. PICK v : v = OpenedBy(i)
    OBVIOUS
  <2>3. DOMAIN v = CurrentFields
    BY <1>6, <2>2 DEF Ordered, OpenedBy
  <2>4. v.active = i /\ v.composed = current.composed /\ v.ref = current.ref /\ v.closed = current.closed
    BY <1>6, <2>2 DEF Ordered, OpenedBy, CurrentFields
  <2>5. Ordered(v) /\ AddsBehind(v)
    <3>1. current.composed \in Seq(1 .. i)
      <4>1. PICK s, n : s = current.composed /\ n = Active
        OBVIOUS
      <4>2. s \in Seq(1 .. n) /\ n \in Nat /\ i \in Nat /\ n < i
        BY <1>0, <1>6, <4>1 DEF Ordered, Active
      <4>3. Len(s) \in Nat /\ s = [k \in 1 .. Len(s) |-> s[k]] /\ \A k \in 1 .. Len(s) : s[k] \in 1 .. n
        BY <4>2
      <4>4. PICK V : V = 1 .. i
        OBVIOUS
      <4>5. \A k \in 1 .. Len(s) : s[k] \in V
        BY <4>2, <4>3, <4>4
      <4>6. s \in Seq(V)
        BY <4>3, <4>5, IsASeq
      <4>7. QED
        BY <4>1, <4>4, <4>6
    <3>2. Ascending(v.composed) /\ IsFiniteSet(v.closed)
      BY <1>6, <2>4 DEF Ordered
    <3>3. 1 \in ClosedIds(v)
      <4>1. 1 \in ClosedIds(current)
        BY <1>6, <1>7 DEF Ordered, Active
      <4>2. QED
        BY <2>4, <4>1 DEF ClosedIds
    <3>4. AddsBehind(v)
      BY <1>6, <2>4 DEF AddsBehind
    <3>6. v.ref \in {NoRef, 1, TheView} /\ v.ref # NoRef /\ v.active \in Ids /\ v.composed \in Seq(1 .. v.active)
      BY <1>6, <1>7, <2>4, <3>1 DEF Ordered
    <3>7. QED
      BY <2>3, <3>2, <3>3, <3>4, <3>6 DEF Ordered
  <2>6. current' = v /\ Active' = i /\ current' # NoFile
    <3>1. current' = v /\ Active' = i
      BY <2>1, <2>2, <2>4 DEF Active
    <3>2. QED
      BY <1>0, <3>1 DEF Active, NoFile
  <2>7. Ordered(current)' /\ AddsBehind(current)'
    <3>1. Ordered(current)'
      BY <2>5, <2>6 DEF Ordered, Ascending, ClosedIds
    <3>2. AddsBehind(current)'
      BY <2>1, <2>5, <2>6 DEF AddsBehind, Elements, Source, SpecApproved, AllDone
    <3>3. QED
      BY <3>1, <3>2
  <2>8. \A j \in Ids : j > 1 /\ j > i => iter[j].spec = NoSpec
    BY <1>0 DEF Chained
  <2>9. FirstBaselines'
    <3> SUFFICES ASSUME NEW j \in Ids
                 PROVE  /\ iter[j].base \in {NoRef, 1, TheView}
                        /\ ~iter[j].exists => iter[j].base = NoRef
                        /\ iter[j].base = 1 =>
                               /\ j > 1 /\ (i > 1 => j <= i)
                               /\ \A m \in Ids : 1 < m /\ m < j => iter[m].spec = NoSpec
      BY <2>1, <2>6 DEF FirstBaselines
    <3>1. /\ iter[j].base \in {NoRef, 1, TheView}
          /\ ~iter[j].exists => iter[j].base = NoRef
          /\ iter[j].base = 1 =>
                 /\ j > 1 /\ \A m \in Ids : 1 < m /\ m < j => iter[m].spec = NoSpec
      BY DEF Chained, FirstBaselines
    <3>2. iter[j].base = 1 => j <= i
      <4>1. NoRef # 1
        BY DEF NoRef
      <4>2. QED
        BY <1>0, <1>7, <4>1
    <3>3. QED
      BY <3>1, <3>2
  <2>10. Source(1)'
    <3>1. Source(1)
      BY <1>0, <1>7 DEF Chained
    <3>2. QED
      BY <2>1, <3>1 DEF Source, SpecApproved, AllDone
  <2>11. Chained'
    <3>1. current'.ref # NoRef
      BY <1>7, <2>4, <2>6
    <3>2. \A j \in Ids : DOMAIN iter'[j] = IterationFields
      BY <2>1 DEF Chained
    <3>3. QED
      BY <2>1, <2>6, <2>7, <2>8, <2>9, <2>10, <3>1, <3>2 DEF Chained
  <2>12. WorkWrites(todo)'
    <3>1. PICK s : s = <<d>>
      OBVIOUS
    <3>2. Len(s) = 1 /\ s[1].file = "status" /\ \A k \in 1 .. Len(s) : k = 1
      BY <1>4, <3>1
    <3>3. current'.ref # NoRef /\ Active' # 0
      BY <1>0, <1>7, <2>4, <2>6
    <3>4. WorkWrites(s)'
      BY <3>2, <3>3 DEF WorkWrites
    <3>5. QED
      BY <2>1, <3>1, <3>4 DEF WorkWrites
  <2>13. QED
    BY <2>11, <2>12
<1>12. QED
  BY <1>9, <1>10, <1>11 DEF OpeningOf

-----------------------------------------------------------------------------
(* The commands                                                            *)

\* A command of these writes leaves the files as they are, for now.
LEMMA WorkBegins ==
    ASSUME Chained, NEW writes, WorkWrites(writes), todo' = writes,
           UNCHANGED <<current, status, iter>>
    PROVE  Chain'
<1>1. Chained'
  BY DEF Chained, FirstBaselines, Ordered, Ascending, ClosedIds, AddsBehind, Elements, Source,
         SpecApproved, AllDone, Active
<1>2. WorkWrites(writes)'
  BY DEF WorkWrites, IterationWrite, CurrentWrite, NoSource, Aim, Ordered, Ascending, ClosedIds,
         AddsBehind, Elements, Source, SpecApproved, AllDone, Active
<1>3. WorkWrites(todo)'
  BY <1>2 DEF WorkWrites
<1>4. QED
  BY <1>1, <1>3 DEF Chain

\* Where a command may work, the pointer is sound.
LEMMA ResolvableChain ==
    ASSUME IInv, Chained, Resolvable
    PROVE  /\ Active \in Ids /\ Active # 0 /\ Aim = Active /\ current # NoFile /\ Active \in Nat
           /\ Ordered(current) /\ AddsBehind(current) /\ current.active = Active
           /\ CurrentWrite(current)
           /\ ToStatus(current).value.gateB => current.ref # NoRef
<1>1. Active \in Ids /\ Active # 0 /\ current # NoFile /\ Active \in Nat
  BY ResolvableFacts, PointerOrNone
<1>2. Ordered(current) /\ AddsBehind(current) /\ current.active = Active /\ Aim = Active
  BY <1>1 DEF Chained, Active, Aim
<1>3. CurrentWrite(current)
  BY <1>2 DEF CurrentWrite
<1>4. ToStatus(current).value.gateB = (current.active \in current.audits)
  BY DEF ToStatus
<1>5. current.ref = NoRef => current.audits = {}
  BY <1>2 DEF Ordered
<1>6. QED
  BY <1>1, <1>2, <1>3, <1>4, <1>5

\* The kinds of writes a command works with.
LEMMA KindsOfWork ==
    /\ \A i, v : ToIteration(i, v).file = "iteration" /\ ToIteration(i, v).id = i
                 /\ ToIteration(i, v).value = v
    /\ \A c : ToCurrent(c).file = "current" /\ ToCurrent(c).value = c
    /\ \A c : ToStatus(c).file = "status"
BY DEF ToIteration, ToCurrent, ToStatus

\* The fields the commands write make no source.
LEMMA FieldsOfWork ==
    ASSUME NEW i, i = Aim
    PROVE  /\ \A x : IterationWrite(ToIteration(i, [intake |-> x]))
           /\ \A x : IterationWrite(ToIteration(i, [meta |-> x]))
           /\ \A x : IterationWrite(ToIteration(i, [draft |-> x]))
           /\ \A x : ~x.approved => IterationWrite(ToIteration(i, [spec |-> x]))
           /\ \A x : x.tasks = "open" => IterationWrite(ToIteration(i, [graph |-> x]))
           /\ i = 1 => IterationWrite(ToIteration(i, Skeleton)) /\ IterationWrite(ToIteration(i, Greenfield))
<1>1. \A x : IterationWrite(ToIteration(i, [intake |-> x]))
  BY KindsOfWork DEF IterationWrite, NoSource, IterationFields
<1>2. \A x : IterationWrite(ToIteration(i, [meta |-> x]))
  BY KindsOfWork DEF IterationWrite, NoSource, IterationFields
<1>3. \A x : IterationWrite(ToIteration(i, [draft |-> x]))
  BY KindsOfWork DEF IterationWrite, NoSource, IterationFields
<1>4. \A x : ~x.approved => IterationWrite(ToIteration(i, [spec |-> x]))
  BY KindsOfWork DEF IterationWrite, NoSource, IterationFields
<1>5. \A x : x.tasks = "open" => IterationWrite(ToIteration(i, [graph |-> x]))
  BY KindsOfWork DEF IterationWrite, NoSource, IterationFields
<1>6. IterationWrite(ToIteration(i, Skeleton)) /\ IterationWrite(ToIteration(i, Greenfield))
  BY KindsOfWork, SkeletonFields DEF IterationWrite, NoSource, IterationFields
<1>7. QED
  BY <1>1, <1>2, <1>3, <1>4, <1>5, <1>6

\* draft works on the active iteration.
LEMMA DraftWorks ==
    ASSUME IInv, Chained, Draft
    PROVE  Chain'
<1>1. Resolvable /\ UNCHANGED <<current, status, iter>>
  BY DEF Draft, Command
<1>2. /\ Aim = Active /\ Active # 0 /\ CurrentWrite(current)
      /\ ToStatus(current).value.gateB => current.ref # NoRef
  BY <1>1, ResolvableChain
<1>3. PICK written : ~written.approved
                  /\ todo' = <<ToIteration(Active, [intake |-> TRUE]),
                               ToIteration(Active, [spec |-> written]),
                               ToIteration(Active, [meta |-> "gate_b_draft"]),
                               ToCurrent(current), ToStatus(current)>>
  BY DEF Draft, Command
<1>4. PICK a, b, c, d, e : /\ a = ToIteration(Active, [intake |-> TRUE])
                           /\ b = ToIteration(Active, [spec |-> written])
                           /\ c = ToIteration(Active, [meta |-> "gate_b_draft"])
                           /\ d = ToCurrent(current) /\ e = ToStatus(current)
  OBVIOUS
<1>5. /\ \A w \in {a, b, c} : w.file = "iteration" /\ IterationWrite(w)
      /\ d.file = "current" /\ CurrentWrite(d.value)
      /\ e.file = "status" /\ (e.value.gateB => current.ref # NoRef)
  BY <1>2, <1>3, <1>4, KindsOfWork, FieldsOfWork
<1>6. PICK s : s = <<a, b, c, d, e>>
  OBVIOUS
<1>7. Len(s) = 5 /\ s[1] = a /\ s[2] = b /\ s[3] = c /\ s[4] = d /\ s[5] = e
  BY <1>6
<1>8. WorkWrites(s)
  <2>1. \A k \in 1 .. 5 : k \in {1, 2, 3} \/ k = 4 \/ k = 5
    OBVIOUS
  <2>2. \A k \in {1, 2, 3} : s[k].file = "iteration" /\ IterationWrite(s[k])
    BY <1>5, <1>7
  <2>3. QED
    BY <1>2, <1>5, <1>7, <2>1, <2>2 DEF WorkWrites
<1>9. todo' = s
  BY <1>3, <1>4, <1>6
<1>10. QED
  BY <1>1, <1>8, <1>9, WorkBegins

\* So do diff-tasks, promote-tasks and the tasks of maintenance.
LEMMA GraphCommandsWork ==
    ASSUME IInv, Chained, PromoteTasks \/ DiffTasks \/ AddMaintenanceTask
    PROVE  Chain'
<1> DEFINE g == [tasks |-> "open", rev |-> iter[Active].graph.rev + 1]
<1>0. PICK a, b, c : /\ a = ToIteration(Active, [graph |-> g])
                     /\ b = ToIteration(Active, [draft |-> FALSE]) /\ c = ToStatus(current)
  OBVIOUS
<1>1. /\ Resolvable /\ UNCHANGED <<current, status, iter>>
      /\ todo' = <<a, b, c>> \/ todo' = <<a>> \/ todo' = <<c>>
  BY <1>0 DEF PromoteTasks, DiffTasks, AddMaintenanceTask, Command
<1>2. g.tasks = "open"
  OBVIOUS
<1> HIDE DEF g
<1>3. /\ Aim = Active /\ Active # 0
      /\ ToStatus(current).value.gateB => current.ref # NoRef
  BY <1>1, ResolvableChain
<1>4. /\ a.file = "iteration" /\ IterationWrite(a) /\ b.file = "iteration" /\ IterationWrite(b)
      /\ c.file = "status" /\ (c.value.gateB => current.ref # NoRef)
  BY <1>0, <1>2, <1>3, KindsOfWork, FieldsOfWork
<1>5. ASSUME NEW s, NEW n \in Nat, Len(s) = n, \A k \in 1 .. n : s[k] \in {a, b, c}
      PROVE  WorkWrites(s)
  BY <1>3, <1>4, <1>5 DEF WorkWrites
<1>6. \E s : todo' = s /\ \E n \in Nat : Len(s) = n /\ \A k \in 1 .. n : s[k] \in {a, b, c}
  <2>1. CASE todo' = <<a, b, c>>
    <3>1. PICK s : s = <<a, b, c>>
      OBVIOUS
    <3>2. Len(s) = 3 /\ \A k \in 1 .. 3 : s[k] \in {a, b, c}
      BY <3>1
    <3>3. QED
      BY <2>1, <3>1, <3>2
  <2>2. CASE todo' = <<a>>
    <3>1. PICK s : s = <<a>>
      OBVIOUS
    <3>2. Len(s) = 1 /\ \A k \in 1 .. 1 : s[k] \in {a, b, c}
      BY <3>1
    <3>3. QED
      BY <2>2, <3>1, <3>2
  <2>3. CASE todo' = <<c>>
    <3>1. PICK s : s = <<c>>
      OBVIOUS
    <3>2. Len(s) = 1 /\ \A k \in 1 .. 1 : s[k] \in {a, b, c}
      BY <3>1
    <3>3. QED
      BY <2>3, <3>1, <3>2
  <2>4. QED
    BY <1>1, <2>1, <2>2, <2>3
<1>7. PICK s : todo' = s /\ WorkWrites(s)
  BY <1>5, <1>6
<1>8. QED
  BY <1>1, <1>7, WorkBegins

\* So does a command that points to it anew, and renders the status from that.
LEMMA PointerCommandWorks ==
    ASSUME IInv, Chained, Resolvable, NEW cur, CurrentWrite(cur),
           ToStatus(cur).value.gateB => cur.ref # NoRef,
           NEW v, \/ todo' = <<ToCurrent(cur), ToIteration(Active, [meta |-> v]), ToStatus(cur)>>
                  \/ todo' = <<ToIteration(Active, [meta |-> v]), ToCurrent(cur), ToStatus(cur)>>
                  \/ todo' = <<ToCurrent(cur), ToStatus(cur)>>,
           UNCHANGED <<current, status, iter>>
    PROVE  Chain'
<1>1. Aim = Active
  BY ResolvableChain
<1>2. PICK a, b, c : /\ a = ToCurrent(cur) /\ b = ToIteration(Active, [meta |-> v])
                     /\ c = ToStatus(cur)
  OBVIOUS
<1>3. /\ a.file = "current" /\ CurrentWrite(a.value) /\ a.value = cur
      /\ b.file = "iteration" /\ IterationWrite(b)
      /\ c.file = "status" /\ (c.value.gateB => a.value.ref # NoRef)
  BY <1>1, <1>2, KindsOfWork, FieldsOfWork
<1>4. CASE todo' = <<a, b, c>>
  <2>1. PICK s : s = <<a, b, c>>
    OBVIOUS
  <2>2. Len(s) = 3 /\ s[1] = a /\ s[2] = b /\ s[3] = c
    BY <2>1
  <2>3. \A k \in 1 .. 3 : k = 1 \/ k = 2 \/ k = 3
    OBVIOUS
  <2>4. 1 \in 1 .. 3 - 1
    OBVIOUS
  <2>5. WorkWrites(s)
    BY <1>3, <2>2, <2>3, <2>4 DEF WorkWrites
  <2>6. QED
    BY <1>4, <2>1, <2>5, WorkBegins
<1>5. CASE todo' = <<b, a, c>>
  <2>1. PICK s : s = <<b, a, c>>
    OBVIOUS
  <2>2. Len(s) = 3 /\ s[1] = b /\ s[2] = a /\ s[3] = c
    BY <2>1
  <2>3. \A k \in 1 .. 3 : k = 1 \/ k = 2 \/ k = 3
    OBVIOUS
  <2>4. 2 \in 1 .. 3 - 1
    OBVIOUS
  <2>5. WorkWrites(s)
    BY <1>3, <2>2, <2>3, <2>4 DEF WorkWrites
  <2>6. QED
    BY <1>5, <2>1, <2>5, WorkBegins
<1>6. CASE todo' = <<a, c>>
  <2>1. PICK s : s = <<a, c>>
    OBVIOUS
  <2>2. Len(s) = 2 /\ s[1] = a /\ s[2] = c
    BY <2>1
  <2>3. \A k \in 1 .. 2 : k = 1 \/ k = 2
    OBVIOUS
  <2>4. 1 \in 1 .. 2 - 1
    OBVIOUS
  <2>5. WorkWrites(s)
    BY <1>3, <2>2, <2>3, <2>4 DEF WorkWrites
  <2>6. QED
    BY <1>6, <2>1, <2>5, WorkBegins
<1>7. QED
  BY <1>2, <1>4, <1>5, <1>6

\* promote points to the first spec, or where it pointed before.
LEMMA PromoteSpecWorks ==
    ASSUME IInv, Chained, PromoteSpec
    PROVE  Chain'
<1> DEFINE first == current.ref = NoRef
           cur == [current EXCEPT !.audits = @ \cup {Active},
                                  !.composed = IF first THEN Append(@, Active) ELSE @,
                                  !.ref = IF first THEN Active ELSE @]
<1>1. /\ Resolvable /\ UNCHANGED <<current, status, iter>>
      /\ todo' = <<ToCurrent(cur), ToIteration(Active, [meta |-> "gate_b_approved"]), ToStatus(cur)>>
  BY DEF PromoteSpec, Command
<1>2. /\ Ordered(current) /\ AddsBehind(current) /\ current.active = Active /\ Aim = Active
      /\ Active \in Nat /\ Active # 0
  BY <1>1, ResolvableChain
<1>3. PICK new, ref : /\ new = IF first THEN Append(current.composed, Active) ELSE current.composed
                      /\ ref = IF first THEN Active ELSE current.ref
  OBVIOUS
<1>4. /\ DOMAIN cur = CurrentFields
      /\ cur.active = current.active /\ cur.composed = new /\ cur.ref = ref
      /\ cur.closed = current.closed /\ cur.audits = current.audits \cup {Active}
  BY <1>2, <1>3 DEF Ordered, CurrentFields
<1>5. first => Active = 1 /\ new = <<1>> /\ ref = 1
  <2>1. Append(<<>>, 1) = <<1>>
    OBVIOUS
  <2>2. QED
    BY <1>2, <1>3, <2>1 DEF Ordered
<1>6. /\ ref \in {1, TheView} /\ ref # NoRef
      /\ new \in Seq(1 .. Active) /\ Ascending(new)
      /\ \A i \in Ids, j \in Elements(new) : Source(i) /\ i \notin Elements(new) => j < i
  <2>1. CASE first
    <3>1. Len(new) = 1 /\ new[1] = 1 /\ new \in Seq(1 .. Active)
      <4>1. Len(<<1>>) = 1 /\ <<1>>[1] = 1 /\ <<1>> \in Seq(1 .. 1)
        OBVIOUS
      <4>2. QED
        BY <1>5, <2>1, <4>1
    <3>2. Elements(new) = {1} /\ Ascending(new)
      BY <3>1 DEF Elements, Ascending
    <3>3. \A i \in Ids : i # 1 => 1 < i
      BY Bounds DEF Ids
    <3>4. QED
      BY <1>5, <2>1, <3>1, <3>2, <3>3 DEF NoRef
  <2>2. CASE ~first
    BY <1>2, <1>3, <2>2 DEF Ordered, AddsBehind
  <2>3. QED
    BY <2>1, <2>2
<1> HIDE DEF cur
<1>8. Ordered(cur)
  <2>2. ClosedIds(cur) = ClosedIds(current)
    BY <1>4 DEF ClosedIds
  <2>3. QED
    BY <1>2, <1>4, <1>6, <2>2 DEF Ordered
<1>9. CurrentWrite(cur)
  BY <1>2, <1>4, <1>6, <1>8 DEF CurrentWrite, AddsBehind
<1>10. QED
  BY <1>1, <1>4, <1>6, <1>9, PointerCommandWorks

\* close adds its record: what was closed before stays so.
LEMMA CloseWorks ==
    ASSUME IInv, Chained, Close
    PROVE  Chain'
<1>1. /\ Resolvable /\ UNCHANGED <<current, status, iter>>
      /\ todo' = <<ToIteration(Active, [meta |-> "archived"]), ToCurrent(ClosedCurrent(Active)),
                   ToStatus(ClosedCurrent(Active))>>
  BY DEF Close, Ready, Command
<1>2. /\ Ordered(current) /\ AddsBehind(current) /\ current.active = Active /\ Aim = Active
      /\ ToStatus(current).value.gateB => current.ref # NoRef
  BY <1>1, ResolvableChain
<1>3. PICK cur : cur = ClosedCurrent(Active)
  OBVIOUS
<1>4. PICK record : record = [id |-> Active, files |-> Artifacts(Active)]
  OBVIOUS
<1>5. /\ DOMAIN cur = CurrentFields
      /\ cur.active = current.active /\ cur.composed = current.composed /\ cur.ref = current.ref
      /\ cur.audits = current.audits
      /\ cur.closed = {c \in current.closed : c.id # Active} \cup {record}
  BY <1>2, <1>3, <1>4 DEF ClosedCurrent, Ordered, CurrentFields
<1>6. IsFiniteSet(cur.closed)
  <2>1. PICK S : S = {c \in current.closed : c.id # Active}
    OBVIOUS
  <2>2. IsFiniteSet(S)
    BY <1>2, <2>1, FS_Subset DEF Ordered
  <2>3. QED
    BY <1>5, <2>1, <2>2, FS_AddElement
<1>7. current.active # 1 => 1 \in ClosedIds(cur)
  <2> SUFFICES ASSUME current.active # 1
               PROVE  1 \in ClosedIds(cur)
    OBVIOUS
  <2>1. PICK c \in current.closed : c.id = 1
    BY <1>2 DEF Ordered, ClosedIds
  <2>2. c \in cur.closed
    BY <1>2, <1>5, <2>1
  <2>3. QED
    BY <2>1, <2>2 DEF ClosedIds
<1>8. Ordered(cur)
  BY <1>2, <1>5, <1>6, <1>7 DEF Ordered
<1>9. CurrentWrite(cur)
  BY <1>2, <1>5, <1>8 DEF CurrentWrite, AddsBehind
<1>10. ToStatus(cur).value.gateB => cur.ref # NoRef
  BY <1>2, <1>5 DEF ToStatus
<1>11. QED
  BY <1>1, <1>3, <1>9, <1>10, PointerCommandWorks

\* compose takes what is behind the pointer, in the order it was opened in.
LEMMA ComposeWorks ==
    ASSUME IInv, Chained, NEW allowConflicts, Compose(allowConflicts)
    PROVE  Chain'
<1> DEFINE c == Composition(Sources)
           cur == [current EXCEPT !.composed = Sources, !.ref = TheView, !.view = c.view,
                                  !.decisions = c.conflicts,
                                  !.pending = IF @.id \in Range(Sources) THEN NoPending ELSE @]
<1>1. /\ Resolvable /\ UNCHANGED <<current, status, iter>>
      /\ todo' = <<ToCurrent(cur), ToStatus(cur)>>
  BY DEF Compose, Command
<1>2. /\ Ordered(current) /\ current.active = Active /\ Aim = Active /\ current # NoFile
      /\ Active \in Nat /\ Active # 0
  BY <1>1, ResolvableChain
<1>3. PICK s : s = Sources
  OBVIOUS
<1>4. /\ s \in Seq(Ids) /\ Ascending(s) /\ Elements(s) = {i \in Ids : Source(i)}
  BY <1>2, <1>3, SourcesAscend
<1>5. /\ DOMAIN cur = CurrentFields
      /\ cur.active = current.active /\ cur.composed = s /\ cur.ref = TheView
      /\ cur.closed = current.closed
  BY <1>2, <1>3 DEF Ordered, CurrentFields
<1> HIDE DEF cur
<1>6. TheView # NoRef
  BY Bounds DEF TheView, NoRef
<1>7. s \in Seq(1 .. Active)
  <2>1. \A i \in Ids : Source(i) => i \in 1 .. Active
    <3>1. \A i \in Ids : i > 1 /\ i > Active => iter[i].spec = NoSpec
      BY DEF Chained
    <3>2. QED
      BY <1>2, <3>1 DEF Source, SpecApproved, Ids
  <2>2. PICK V, n : V = 1 .. Active /\ n = Len(s)
    OBVIOUS
  <2>3. n \in Nat /\ s = [k \in 1 .. n |-> s[k]]
    BY <1>4, <2>2
  <2>4. \A k \in 1 .. n : s[k] \in V
    <3> SUFFICES ASSUME NEW k \in 1 .. n
                 PROVE  s[k] \in V
      OBVIOUS
    <3>1. s[k] \in Elements(s)
      BY <2>2 DEF Elements
    <3>2. QED
      BY <1>4, <2>1, <2>2, <3>1
  <2>5. s \in Seq(V)
    BY <2>3, <2>4, IsASeq
  <2>6. QED
    BY <2>2, <2>5
<1>8. Ordered(cur)
  <2>1. ClosedIds(cur) = ClosedIds(current)
    BY <1>5 DEF ClosedIds
  <2>2. QED
    BY <1>2, <1>4, <1>5, <1>6, <1>7, <2>1 DEF Ordered
<1>9. AddsBehind(cur)
  BY <1>4, <1>5 DEF AddsBehind
<1>10. CurrentWrite(cur)
  BY <1>2, <1>5, <1>6, <1>8, <1>9 DEF CurrentWrite
<1>11. QED
  BY <1>1, <1>5, <1>6, <1>10, PointerCommandWorks

\* What a chain is does not depend on what is still to be written.
LEMMA ChainedStays ==
    ASSUME Chained, UNCHANGED <<current, status, iter>>
    PROVE  Chained'
BY DEF Chained, FirstBaselines, Ordered, Ascending, ClosedIds, AddsBehind, Elements, Source,
       SpecApproved, AllDone, Active

\* open begins behind a source that is closed, with nothing yet beyond.
LEMMA OpenWorks ==
    ASSUME IInv, Chained, NEW i \in Ids, Open(i)
    PROVE  Chain'
<1>1. /\ Ready /\ Resolvable /\ AllDone(Active) /\ ArchivedBaseline(Active)
      /\ \A j \in Ids : iter[j].exists <=> j < i
      /\ UNCHANGED <<current, status, iter>>
  BY DEF Open, Ready, Command
<1>2. /\ Active \in Ids /\ Active # 0 /\ Active \in Nat /\ current # NoFile
      /\ Ordered(current) /\ current.active = Active /\ status # NoFile
  BY <1>1, ResolvableChain, ResolvableFacts
<1>3. todo' = OpenWrites(i)
  BY DEF Open, Command, OpenWrites, OpenedBy
<1>4. i > Active
  BY <1>1, <1>2 DEF Resolvable, Ids
<1>5. Source(Active) /\ Active \in ClosedIds(current)
  BY <1>1 DEF Ready, Resolvable, Source, ArchivedBaseline
<1>6. current.ref # NoRef
  BY <1>1, <1>2 DEF Ready, Chained
<1>7. current.ref = 1 => Active = 1
  <2> SUFFICES ASSUME Active # 1
               PROVE  current.ref # 1
    OBVIOUS
  <2>1. PICK closed : closed = current.closed
    OBVIOUS
  <2>2. IsFiniteSet(closed) /\ 1 \in ClosedIds(current)
    BY <1>2, <2>1 DEF Ordered
  <2>3. PICK c \in closed, d \in closed : c.id = 1 /\ d.id = Active
    BY <1>5, <2>1, <2>2 DEF ClosedIds
  <2>4. c # d
    BY <2>3
  <2>5. Cardinality(closed) > 1
    <3>1. PICK pair : pair = {c, d}
      OBVIOUS
    <3>2. Cardinality(pair) = 2 /\ pair \subseteq closed
      <4>1. IsFiniteSet({d}) /\ Cardinality({d}) = 1
        BY FS_Singleton
      <4>2. Cardinality({d} \cup {c}) = 2
        BY <2>4, <4>1, FS_AddElement
      <4>3. pair = {d} \cup {c}
        BY <3>1
      <4>4. QED
        BY <3>1, <4>2, <4>3
    <3>3. Cardinality(pair) <= Cardinality(closed) /\ Cardinality(closed) \in Nat
      BY <2>2, <3>2, FS_Subset, FS_CardinalityType
    <3>4. QED
      BY <3>2, <3>3
  <2>6. current.ref = TheView
    BY <1>1, <2>1, <2>5 DEF ArchivedBaseline
  <2>7. QED
    BY <2>6, Bounds DEF TheView
<1>8. \A j \in Ids : j > i => iter[j].base = NoRef
  <2>1. \A j \in Ids : ~iter[j].exists => iter[j].base = NoRef
    BY DEF Chained, FirstBaselines
  <2>2. \A j \in Ids : j > i => ~(j < i)
    BY DEF Ids
  <2>3. QED
    BY <1>1, <2>1, <2>2
<1>9. OpeningOf(i)'
  BY <1>1, <1>2, <1>3, <1>4, <1>5, <1>6, <1>7, <1>8
     DEF OpeningOf, OpenWrites, OpenedBy, Active, Source, SpecApproved, AllDone, ClosedIds
<1>10. Chained'
  BY <1>1, ChainedStays
<1>11. QED
  BY <1>9, <1>10 DEF Chain

\* init points to the first iteration, once its spec is there.
LEMMA InitProjectWorks ==
    ASSUME IInv, Chained, InitProject
    PROVE  Chain'
<1>1. Active = 0 /\ Aim = 1 /\ UNCHANGED <<current, status, iter>>
  BY DEF InitProject, Command, Aim
<1>2. 1 \in Ids /\ \A i \in Ids : i # 1 => 1 < i
  BY Bounds DEF Ids
<1>3. CurrentWrite(FirstCurrent) /\ FirstCurrent.ref # NoRef
  <2>1. PICK f : f = FirstCurrent
    OBVIOUS
  <2>2. /\ DOMAIN f = CurrentFields
        /\ f.active = 1 /\ f.composed = <<1>> /\ f.ref = 1 /\ f.closed = {}
    BY <2>1 DEF FirstCurrent, CurrentFields
  <2>3. PICK one : one = <<1>>
    OBVIOUS
  <2>4. Len(one) = 1 /\ one[1] = 1 /\ one \in Seq(1 .. 1)
    BY <2>3
  <2>5. Elements(one) = {1} /\ Ascending(one)
    BY <2>4 DEF Elements, Ascending
  <2>6. Ordered(f)
    BY <1>2, <2>2, <2>3, <2>4, <2>5, FS_EmptySet DEF Ordered, NoRef
  <2>7. AddsBehind(f)
    BY <1>2, <2>2, <2>3, <2>5 DEF AddsBehind
  <2>8. QED
    BY <1>1, <2>1, <2>2, <2>6, <2>7 DEF CurrentWrite, NoRef
<1>4. PICK s : s = todo'
  OBVIOUS
<1>5. /\ Len(s) = 9
      /\ s[1] = ToIteration(1, Skeleton) /\ s[6] = ToIteration(1, Greenfield)
      /\ s[7] = ToCurrent(FirstCurrent) /\ s[8] = ToStatus(FirstCurrent) /\ s[9] = Readme
      /\ \A k \in 2 .. 5 : s[k] = [file |-> "gate"]
  <2>1. \A k \in 2 .. 5 : k \in 1 .. 9 /\ k # 1 /\ k <= 5
    OBVIOUS
  <2>2. QED
    BY <1>4, <2>1, WritesOfInit
<1>6. /\ s[1].file = "iteration" /\ IterationWrite(s[1])
      /\ s[6].file = "iteration" /\ IterationWrite(s[6])
      /\ s[7].file = "current" /\ CurrentWrite(s[7].value) /\ s[7].value.ref # NoRef
      /\ s[8].file = "status" /\ s[9].file = "readme"
  BY <1>1, <1>3, <1>5, KindsOfWork, FieldsOfWork DEF ToIteration, Readme
<1>7. ASSUME NEW k \in 1 .. 9
      PROVE  /\ s[k].file = "iteration" => IterationWrite(s[k])
             /\ s[k].file = "current" => k = 7 /\ CurrentWrite(s[k].value)
             /\ s[k].file = "status" => k = 8
  <2>1. CASE k \in 2 .. 5
    BY <1>5, <2>1
  <2>2. CASE k = 1 \/ k = 6
    BY <1>6, <2>2
  <2>3. CASE k = 7 \/ k = 8 \/ k = 9
    BY <1>6, <2>3
  <2>4. QED
    BY <2>1, <2>2, <2>3
<1>8. WorkWrites(s)
  <2>1. 7 \in 1 .. 8 - 1
    OBVIOUS
  <2>2. /\ \A k \in 1 .. 9 : s[k].file = "status" /\ s[k].value.gateB =>
               \E l \in 1 .. k - 1 : s[l].file = "current" /\ s[l].value.ref # NoRef
        /\ \A k, l \in 1 .. 9 : s[k].file = "current" /\ s[l].file = "current" => k = l
    BY <1>6, <1>7, <2>1
  <2>3. QED
    BY <1>5, <1>7, <2>2 DEF WorkWrites
<1>9. QED
  BY <1>1, <1>4, <1>8, WorkBegins

\* Nothing left to write is no write out of place.
LEMMA NothingToWrite ==
    ASSUME todo' = <<>>
    PROVE  WorkWrites(todo)'
BY DEF WorkWrites

\* An init that fails leaves an empty iteration, or none.
LEMMA FailWorks ==
    ASSUME IInv, Chained, Fail
    PROVE  Chain'
<1>1. /\ Active \in {0, 1} /\ todo' = <<>> /\ UNCHANGED <<current, status>>
      /\ iter' = [iter EXCEPT ![1] = IF @.exists THEN Skeleton ELSE @]
  BY FailIsOfInit DEF Fail
<1>2. /\ 1 \in Ids /\ Ids \subseteq Nat \ {0} /\ Active \in {0, 1} /\ Active' = Active
      /\ iter = [i \in Ids |-> iter[i]] /\ \A i \in Ids : DOMAIN iter[i] = IterationFields
  BY <1>1, PointerOrNone DEF IInv, Files, Active, Chained
<1>3. CASE iter[1].exists
  <2>1. PICK v : v = Skeleton
    OBVIOUS
  <2>2. Updated(iter[1], v) = v
    <3>1. Updated(iter[1], v) = [f \in IterationFields |-> v[f]]
      BY <1>2, <2>1, SkeletonFields DEF Updated
    <3>2. v = [f \in IterationFields |-> v[f]]
      BY <2>1 DEF Skeleton, IterationFields
    <3>3. QED
      BY <3>1, <3>2
  <2>3. iter' = [iter EXCEPT ![1] = Updated(@, v)]
    BY <1>1, <1>2, <1>3, <2>1, <2>2
  <2>4. FieldsOf(1, v)
    <3>1. "graph" \in IterationFields /\ ~(Active > 1)
      BY <1>2 DEF IterationFields
    <3>2. NoSource(v) /\ DOMAIN v \subseteq IterationFields
      BY <2>1, <3>1, SkeletonFields DEF NoSource
    <3>3. QED
      BY <2>1, <3>1, <3>2, SkeletonFields DEF FieldsOf
  <2>5. Chained'
    BY <1>1, <1>2, <2>3, <2>4, IterationWritten
  <2>6. QED
    BY <1>1, <2>5, NothingToWrite DEF Chain
<1>4. CASE ~iter[1].exists
  <2>1. iter' = iter
    BY <1>1, <1>2, <1>4
  <2>2. QED
    BY <1>1, <2>1, ChainedStays, NothingToWrite DEF Chain
<1>5. QED
  BY <1>3, <1>4

\* A command that is killed leaves a chain, wherever it was.
LEMMA DieWorks ==
    ASSUME Chained, Die
    PROVE  Chain'
BY ChainedStays, NothingToWrite DEF Die, Chain

\* The gate a person approves in status.md is not the one of the spec.
LEMMA ApproveTasksWorks ==
    ASSUME IInv, Chained, ApproveTasks
    PROVE  Chain'
<1>1. /\ Idle /\ Resolvable /\ todo' = <<>> /\ status' = [status EXCEPT !.gateC = TRUE]
      /\ UNCHANGED <<current, iter>>
  BY DEF ApproveTasks, Idle
<1>2. status \in StatusFiles /\ status # NoFile
  BY <1>1, ResolvableFacts
<1>3. status'.gateB = status.gateB
  BY <1>1, <1>2 DEF StatusFiles
<1>4. Chained'
  BY <1>1, <1>2, <1>3 DEF Chained, FirstBaselines, Ordered, Ascending, ClosedIds, AddsBehind, Elements,
     Source, SpecApproved, AllDone, Active
<1>5. QED
  BY <1>1, <1>4, NothingToWrite DEF Chain

\* Nor does the work of people and agents take anything apart.
LEMMA PeopleWork ==
    ASSUME IInv, Chained, Work
    PROVE  Chain'
<1>0. \E i \in Ids : \E v : Author(i, v) /\ DOMAIN v \subseteq {"spec", "draft", "graph", "review"}
  BY DEF Work
<1>1. PICK i \in Ids : \E v : Author(i, v) /\ DOMAIN v \subseteq {"spec", "draft", "graph", "review"}
  BY <1>0
<1>2. Chained'
  BY <1>1, AuthorKeepsChain
<1>3. todo' = <<>>
  BY <1>1 DEF Author, Idle
<1>4. QED
  BY <1>2, <1>3, NothingToWrite DEF Chain

\* A project begins with a chain of none.
LEMMA ChainBegins ==
    ASSUME Init
    PROVE  Chain
<1>0. 1 \in Ids /\ Ids \subseteq Nat \ {0}
  BY Bounds DEF Ids
<1>1. WorkWrites(todo)
  BY DEF Init, WorkWrites
<1>2. CASE /\ current = NoFile /\ status = NoFile
           /\ iter = [i \in Ids |-> NoDir]
  <2>1. Active = 0
    BY <1>2 DEF Active, NoFile
  <2>2. Chained
    <3>1. \A i \in Ids : /\ DOMAIN iter[i] = IterationFields /\ iter[i].spec = NoSpec /\ iter[i].base = NoRef
      BY <1>2, SkeletonFields
    <3>2. FirstBaselines
      BY <3>1 DEF FirstBaselines, NoRef
    <3>3. ~(Active > 1)
      BY <2>1
    <3>4. QED
      BY <1>2, <3>1, <3>2, <3>3 DEF Chained
  <2>3. QED
    BY <1>1, <2>2 DEF Chain
<1>3. CASE /\ current = [active |-> 1, composed |-> <<>>, ref |-> NoRef, view |-> {},
                         decisions |-> FALSE, closed |-> {}, last |-> 0,
                         pending |-> [id |-> 1, base |-> NoRef], audits |-> {}]
           /\ status = [active |-> 1, gateB |-> FALSE, gateC |-> FALSE]
           /\ iter = [i \in Ids |-> IF i = 1 THEN [Skeleton EXCEPT !.meta = "active_planning",
                                                                   !.intake = TRUE]
                                             ELSE NoDir]
  <2>1. PICK c : c = current
    OBVIOUS
  <2>2. /\ DOMAIN c = CurrentFields /\ c.active = 1 /\ c.composed = <<>> /\ c.ref = NoRef
        /\ c.closed = {} /\ c.audits = {}
    BY <1>3, <2>1 DEF CurrentFields
  <2>3. PICK none : none = <<>>
    OBVIOUS
  <2>4. Len(none) = 0 /\ none \in Seq(1 .. 1)
    BY <2>3
  <2>5. Ascending(none) /\ Elements(none) = {}
    BY <2>4 DEF Ascending, Elements
  <2>6. Ordered(c) /\ AddsBehind(c)
    BY <1>0, <2>2, <2>3, <2>4, <2>5, FS_EmptySet DEF Ordered, AddsBehind
  <2>7. Active = 1 /\ ~status.gateB
    BY <1>3 DEF Active
  <2>8. PICK first : first = [Skeleton EXCEPT !.meta = "active_planning", !.intake = TRUE]
    OBVIOUS
  <2>9. DOMAIN first = IterationFields /\ first.spec = NoSpec /\ first.base = NoRef /\ first.exists
    BY <2>8 DEF Skeleton, IterationFields
  <2>10. \A i \in Ids : /\ DOMAIN iter[i] = IterationFields /\ iter[i].spec = NoSpec /\ iter[i].base = NoRef
    BY <1>3, <2>8, <2>9, SkeletonFields
  <2>11. FirstBaselines
    BY <2>10 DEF FirstBaselines, NoRef
  <2>12. Chained
    BY <2>1, <2>6, <2>7, <2>10, <2>11 DEF Chained
  <2>13. QED
    BY <1>1, <2>12 DEF Chain
<1>4. QED
  BY <1>2, <1>3 DEF Init

\* Every step keeps the iterations a chain.
LEMMA StepKeepsChain ==
    ASSUME IInv, Chain, Next
    PROVE  Chain'
<1>1. Chained
  BY DEF Chain
<1>2. CASE Write
  BY <1>1, <1>2, WorkGoesOn, OpeningGoesOn DEF Chain
<1>3. CASE Die \/ Fail \/ InitProject
  BY <1>1, <1>3, DieWorks, FailWorks, InitProjectWorks
<1>4. CASE Draft \/ PromoteSpec \/ PromoteTasks \/ DiffTasks \/ AddMaintenanceTask \/ Close
  BY <1>1, <1>4, DraftWorks, PromoteSpecWorks, GraphCommandsWork, CloseWorks
<1>5. CASE \/ \E i \in Ids : Open(i)
           \/ \E allowConflicts \in BOOLEAN : Compose(allowConflicts)
  BY <1>1, <1>5, OpenWorks, ComposeWorks
<1>6. CASE Work \/ ApproveTasks
  BY <1>1, <1>6, PeopleWork, ApproveTasksWorks
<1>7. QED
  BY <1>2, <1>3, <1>4, <1>5, <1>6 DEF Next

\* Iterations that are opened one after the other compose without a conflict, for
\* every number of them: whatever dies, fails or is forced, however often compose is
\* given and wherever it was given last; and an init that fails leaves no half of its
\* work to be used.
THEOREM IterationsStayInAgreement == Spec => []IterationsAgree
<1>1. Init => Chain
  BY ChainBegins
<1>2. IInv /\ Chain /\ [Next]_vars => Chain'
  <2>1. ASSUME Chain, UNCHANGED vars
        PROVE  Chain'
    <3>1. UNCHANGED <<current, status, iter>> /\ todo' = todo
      BY <2>1 DEF vars
    <3>2. Chained'
      BY <2>1, <3>1, ChainedStays DEF Chain
    <3>3. WorkWrites(todo) => WorkWrites(todo)'
      BY <3>1 DEF WorkWrites, IterationWrite, CurrentWrite, NoSource, Aim, Ordered, Ascending,
         ClosedIds, AddsBehind, Elements, Source, SpecApproved, AllDone, Active
    <3>4. \A i \in Ids : OpeningOf(i) => OpeningOf(i)'
      BY <3>1 DEF OpeningOf, OpenWrites, OpenedBy, Active, Source, SpecApproved, AllDone, ClosedIds
    <3>5. QED
      BY <2>1, <3>2, <3>3, <3>4 DEF Chain
  <2>2. QED
    BY <2>1, StepKeepsChain
<1>3. IInv /\ Chain => ChainsComposeWithoutConflict
  BY PointerOrNone, NoneIsStale DEF Chain, ChainsComposeWithoutConflict
<1>4. Spec => []ChainsComposeWithoutConflict
  BY WritesAreAimed, <1>1, <1>2, <1>3, PTL DEF Spec
<1>5. QED
  BY <1>4, FailedInitIsNotUsed, PTL DEF IterationsAgree

-----------------------------------------------------------------------------
(*                              The proposals                              *)
-----------------------------------------------------------------------------
(* Earned candidates                                                       *)

\* What a log says of a proposal that was mined from it, whatever became of its status.
Earned(p) ==
    /\ p.run \in Runs
    /\ \/ p.class \in Classes /\ p.class = log[p.run].class
          /\ p.risk = RiskForFailure(p.class)
       \/ p.class = "verification_gap" /\ p.risk = "medium"
       \/ p.class = "monitor_gate_mismatch" /\ p.risk = "medium"
          /\ log[p.run].verdict = "rejected"

ProposalType == [run : Runs, class : Classes \cup {"verification_gap", "monitor_gate_mismatch"},
                 risk : {"high", "medium", "low"}, status : {"proposed"} \cup Decisions]

\* Proposals on file together: earned, and one for each run and class.
OnFile(ps) ==
    /\ ps \subseteq ProposalType
    /\ \A p \in ps : Earned(p)
    /\ \A p, q \in ps : SameId(p, q) => p = q

\* A group of a review is made from proposals that were on file together.
FromFile(g) == \E c : \E ps : OnFile(ps) /\ g = GroupOf(c, ps)

EarnedInv ==
    /\ log \in [Runs -> OutcomeType]
    /\ OnFile(queue)
    /\ \A review \in reviews : \A g \in review : FromFile(g)
    /\ \A c \in curations : \A k \in c : \E g : FromFile(g) /\ k = Candidate(g)

\* A run has one proposal of a class at most, and its log is the reason.
LEMMA MinedIsOnFile ==
    ASSUME log \in [Runs -> OutcomeType], NEW rs \in SUBSET Runs
    PROVE  OnFile(UNION {ProposalsForRun(r) : r \in rs})
<1>1. ASSUME NEW r \in Runs, NEW p \in ProposalsForRun(r)
      PROVE  p \in ProposalType /\ p.run = r /\ Earned(p)
  <2>1. log[r].class \in Classes \cup {"none"}
    BY DEF OutcomeType
  <2>2. CASE p \in FailureProposal(r)
    <3>1. log[r].class \in Classes
          /\ p = NewProposal(r, log[r].class, RiskForFailure(log[r].class))
      BY <2>1, <2>2 DEF FailureProposal
    <3>2. RiskForFailure(log[r].class) \in {"high", "medium", "low"}
      BY DEF RiskForFailure
    <3>3. QED
      BY <3>1, <3>2 DEF NewProposal, Earned, ProposalType
  <2>3. CASE p \in GapProposal(r)
    BY <2>3 DEF GapProposal, NewProposal, Earned, ProposalType
  <2>4. CASE p \in MonitorProposal(r)
    BY <2>4 DEF MonitorProposal, NewProposal, Earned, ProposalType
  <2>5. QED
    BY <1>1, <2>2, <2>3, <2>4 DEF ProposalsForRun
<1>2. ASSUME NEW r \in Runs, NEW p \in ProposalsForRun(r), NEW q \in ProposalsForRun(r),
             p.class = q.class
      PROVE  p = q
  <2>1. log[r].class \in Classes \cup {"none"}
    BY DEF OutcomeType
  <2>2. p = NewProposal(r, p.class, IF p.class \in Classes THEN RiskForFailure(p.class)
                                                           ELSE "medium")
    BY <2>1 DEF ProposalsForRun, FailureProposal, GapProposal, MonitorProposal, NewProposal,
                Classes
  <2>3. q = NewProposal(r, q.class, IF q.class \in Classes THEN RiskForFailure(q.class)
                                                           ELSE "medium")
    BY <2>1 DEF ProposalsForRun, FailureProposal, GapProposal, MonitorProposal, NewProposal,
                Classes
  <2>4. QED
    BY <1>2, <2>2, <2>3
<1>3. \A p \in UNION {ProposalsForRun(r) : r \in rs} : \E r \in rs : p \in ProposalsForRun(r)
  OBVIOUS
<1>4. \A p, q \in UNION {ProposalsForRun(r) : r \in rs} : SameId(p, q) => p = q
  BY <1>1, <1>2, <1>3 DEF SameId
<1>5. QED
  BY <1>1, <1>3, <1>4 DEF OnFile

\* Mining adds to the file what is not there yet, or puts it in place of what is.
LEMMA WrittenIsOnFile ==
    ASSUME NEW mined, NEW overwrite, OnFile(queue), OnFile(mined)
    PROVE  OnFile(Written(mined, overwrite))
BY DEF OnFile, Written, SameId

\* A decision replaces a proposal by itself.
LEMMA MarkedIsOnFile ==
    ASSUME OnFile(queue), NEW p \in queue, NEW s \in Decisions
    PROVE  OnFile((queue \ {p}) \cup {[p EXCEPT !.status = s]})
<1>1. PICK marked : marked = [p EXCEPT !.status = s]
  OBVIOUS
<1>2. p \in ProposalType
  BY DEF OnFile
<1>3. marked \in ProposalType /\ marked.run = p.run /\ marked.class = p.class
      /\ marked.risk = p.risk
  BY <1>1, <1>2 DEF ProposalType
<1>4. Earned(marked)
  BY <1>3 DEF OnFile, Earned
<1>5. \A q \in queue \ {p} : ~SameId(q, marked) /\ ~SameId(marked, q)
  BY <1>3 DEF OnFile, SameId
<1>6. OnFile((queue \ {p}) \cup {marked})
  BY <1>3, <1>4, <1>5 DEF OnFile
<1>7. QED
  BY <1>1, <1>6

\* What was on file, and what was made of it, stays so while the logs do.
LEMMA FilesStay ==
    ASSUME UNCHANGED log
    PROVE  /\ \A ps : OnFile(ps) => OnFile(ps)'
           /\ \A g : FromFile(g) => FromFile(g)'
<1>1. \A ps : OnFile(ps) => OnFile(ps)'
  BY DEF OnFile, Earned, ProposalType
<1>2. QED
  BY <1>1 DEF FromFile

\* Nothing the candidates rest on has changed.
LEMMA EarnedStays ==
    ASSUME EarnedInv, UNCHANGED <<log, queue, reviews, curations>>
    PROVE  EarnedInv'
<1>1. OnFile(queue)'
  BY DEF EarnedInv, OnFile, Earned, ProposalType
<1>2. QED
  BY <1>1, FilesStay DEF EarnedInv

\* Logs and files keep fitting together.
LEMMA EarnedStep ==
    ASSUME EarnedInv, ProposalsNext
    PROVE  EarnedInv'
<1>1. ASSUME UNCHANGED <<log, queue, reviews, curations>>
      PROVE  EarnedInv'
  BY <1>1, EarnedStays
<1>3. ASSUME UNCHANGED log
      PROVE  \A g : FromFile(g) => FromFile(g)'
  BY <1>3, FilesStay
<1>4. ASSUME NEW rs \in SUBSET Runs, NEW overwrite, Mine(rs, overwrite)
      PROVE  EarnedInv'
  <2> DEFINE read == {s \in rs : Readable(s)}
             mined == UNION {ProposalsForRun(r) : r \in read}
  <2>1. queue' = Written(mined, overwrite) /\ UNCHANGED <<log, reviews, curations>>
    BY <1>4 DEF Mine
  <2>2. OnFile(mined)
    <3>1. read \in SUBSET Runs
      OBVIOUS
    <3> HIDE DEF read
    <3>2. QED
      BY <3>1, MinedIsOnFile DEF EarnedInv
  <2> HIDE DEF mined
  <2>3. OnFile(queue')
    BY <2>1, <2>2, WrittenIsOnFile DEF EarnedInv
  <2>4. OnFile(queue)'
    BY <2>1, <2>3 DEF OnFile, Earned, ProposalType
  <2>5. QED
    BY <1>3, <2>1, <2>4 DEF EarnedInv
<1>5. CASE Review
  <2>1. reviews' = reviews \cup {ReviewOf(queue)} /\ UNCHANGED <<log, queue, curations>>
    BY <1>5 DEF Review
  <2>2. \A g \in ReviewOf(queue) : FromFile(g)
    BY DEF ReviewOf, FromFile, EarnedInv
  <2>3. OnFile(queue)'
    BY <2>1 DEF EarnedInv, OnFile, Earned, ProposalType
  <2>4. \A review \in reviews' : \A g \in review : FromFile(g)'
    BY <1>3, <2>1, <2>2 DEF EarnedInv
  <2>5. QED
    BY <1>3, <2>1, <2>3, <2>4 DEF EarnedInv
<1>6. ASSUME NEW review \in reviews, Curate(review)
      PROVE  EarnedInv'
  <2>1. curations' = curations \cup {{Candidate(g) : g \in review}}
        /\ UNCHANGED <<log, queue, reviews>>
    BY <1>6 DEF Curate
  <2>2. \A k \in {Candidate(g) : g \in review} : \E g : FromFile(g) /\ k = Candidate(g)
    BY DEF EarnedInv
  <2>3. OnFile(queue)'
    BY <2>1 DEF EarnedInv, OnFile, Earned, ProposalType
  <2>4. \A c \in curations' : \A k \in c : \E g : FromFile(g) /\ k = Candidate(g)
    BY <2>1, <2>2 DEF EarnedInv
  <2>5. \A c \in curations' : \A k \in c : \E g : FromFile(g)' /\ k = Candidate(g)
    BY <1>3, <2>1, <2>4
  <2>6. QED
    BY <1>3, <2>1, <2>3, <2>5 DEF EarnedInv, Candidate, Readiness, Priority, Proposed
<1>7. ASSUME NEW p \in queue, NEW s \in Decisions, Mark(p, s)
      PROVE  EarnedInv'
  <2>1. queue' = (queue \ {p}) \cup {[p EXCEPT !.status = s]}
        /\ UNCHANGED <<log, reviews, curations>>
    BY <1>7 DEF Mark
  <2>2. OnFile(queue')
    BY <2>1, MarkedIsOnFile DEF EarnedInv
  <2>3. OnFile(queue)'
    BY <2>1, <2>2 DEF OnFile, Earned, ProposalType
  <2>4. QED
    BY <1>3, <2>1, <2>3 DEF EarnedInv
<1>8. ASSUME MineAny
      PROVE  EarnedInv'
  BY <1>4, <1>8 DEF MineAny
<1>9. ASSUME \/ \E c \in curations : \E k \in c : DraftPatch(c, k)
             \/ \E d \in drafts : \E who \in Approvers : ApproveDraft(d, who)
             \/ WriteApproval \/ DieApproving
      PROVE  EarnedInv'
  BY <1>1, <1>9 DEF DraftPatch, ApproveDraft, WriteApproval, DieApproving
<1>10. QED
  BY <1>5, <1>6, <1>7, <1>8, <1>9 DEF ProposalsNext

\* Two different runs make a set of runs that counts two at least.
LEMMA TwoRuns ==
    ASSUME NEW R \in SUBSET Runs, NEW a \in R, NEW b \in R, a # b
    PROVE  Cardinality(R) >= 2
<1>1. IsFiniteSet(R)
  BY LogsAssumption, FS_Subset
<1>2. IsFiniteSet({a}) /\ Cardinality({a}) = 1
  BY FS_Singleton
<1>3. IsFiniteSet({a, b}) /\ Cardinality({a, b}) = 2
  <2>1. {a, b} = {a} \cup {b} /\ b \notin {a}
    OBVIOUS
  <2>2. IsFiniteSet({a} \cup {b}) /\ Cardinality({a} \cup {b}) = Cardinality({a}) + 1
    BY <1>2, <2>1, FS_AddElement, Zenon
  <2>3. QED
    BY <1>2, <2>1, <2>2
<1>4. {a, b} \subseteq R
  OBVIOUS
<1>5. Cardinality({a, b}) <= Cardinality(R)
  BY <1>1, <1>4, FS_Subset
<1>6. Cardinality(R) \in Nat
  BY <1>1, FS_CardinalityType
<1>7. QED
  BY <1>3, <1>5, <1>6

\* A set that counts two at least has two elements.
LEMMA TwoElements ==
    ASSUME NEW S, Cardinality(S) >= 2
    PROVE  \E a, b \in S : a # b
<1> SUFFICES ASSUME \A a, b \in S : a = b
             PROVE  FALSE
  OBVIOUS
<1>1. CASE S = {}
  BY <1>1, FS_EmptySet
<1>2. CASE S # {}
  <2>1. PICK a : S = {a}
    BY <1>2
  <2>2. QED
    BY <2>1, FS_Singleton
<1>3. QED
  BY <1>1, <1>2

\* A group that is approved has a proposal of high risk, or two of its class.
LEMMA ApprovedIsEarned ==
    ASSUME EarnedInv, NEW g, FromFile(g), Candidate(g).readiness = "patch_candidate"
    PROVE  \/ \E r \in Runs : log[r].class = g.class /\ RiskForFailure(g.class) = "high"
           \/ Cardinality({r \in Runs : log[r].class = g.class}) >= 2
           \/ /\ g.class = "monitor_gate_mismatch"
              /\ Cardinality({r \in Runs : log[r].verdict = "rejected"}) >= 2
<1>1. PICK c : \E ps : OnFile(ps) /\ g = GroupOf(c, ps)
  BY DEF FromFile
<1>2. PICK ps : OnFile(ps) /\ g = GroupOf(c, ps)
  BY <1>1
<1> DEFINE own == {p \in ps : p.class = c}
<1>3. /\ g.class = c /\ g.proposals = own /\ g.risk = HighestRisk(own)
      /\ g.disposition = Disposition(c, own)
  BY <1>2 DEF GroupOf
<1>4. Disposition(c, own) = "approve"
  BY <1>3 DEF Candidate, Readiness
<1>5. c # "verification_gap" /\ (HighestRisk(own) = "high" \/ Cardinality(own) >= 2)
  BY <1>4 DEF Disposition
<1>6. \A p \in own : Earned(p) /\ p.class = c
  BY <1>2 DEF OnFile
<1>7. CASE HighestRisk(own) = "high"
  <2>1. PICK p \in own : p.risk = "high"
    BY <1>7 DEF HighestRisk
  <2>2. QED
    BY <1>3, <1>5, <1>6, <2>1 DEF Earned
<1>8. CASE Cardinality(own) >= 2
  <2>1. PICK p \in own, q \in own : p # q
    BY <1>8, TwoElements
  <2>2. p.run # q.run /\ p.run \in Runs /\ q.run \in Runs
    BY <1>2, <1>6, <2>1 DEF OnFile, SameId, Earned
  <2>3. CASE c \in Classes
    <3>1. log[p.run].class = c /\ log[q.run].class = c
      BY <1>6, <2>1, <2>3 DEF Earned, Classes
    <3>2. Cardinality({r \in Runs : log[r].class = c}) >= 2
      BY <2>2, <3>1, TwoRuns
    <3>3. QED
      BY <1>3, <3>2
  <2>4. CASE c \notin Classes
    <3>1. /\ c = "monitor_gate_mismatch"
          /\ log[p.run].verdict = "rejected" /\ log[q.run].verdict = "rejected"
      BY <1>5, <1>6, <2>1, <2>4 DEF Earned
    <3>2. Cardinality({r \in Runs : log[r].verdict = "rejected"}) >= 2
      BY <2>2, <3>1, TwoRuns
    <3>3. QED
      BY <1>3, <3>1, <3>2
  <2>5. QED
    BY <2>3, <2>4
<1>9. QED
  BY <1>5, <1>7, <1>8

\* Candidates are earned by logs that are on record, at any moment.
LEMMA EarnedInvariance == ProposalsSpec => []EarnedInv
<1>1. ASSUME ProposalsInit
      PROVE  EarnedInv
  BY <1>1, LogsAssumption DEF ProposalsInit, EarnedInv, OnFile
<1>2. ASSUME EarnedInv, UNCHANGED proposalVars
      PROVE  EarnedInv'
  BY <1>2, EarnedStays DEF proposalVars
<1>3. EarnedInv /\ [ProposalsNext]_proposalVars => EarnedInv'
  BY <1>2, EarnedStep
<1>4. QED
  BY <1>1, <1>3, PTL DEF ProposalsSpec

-----------------------------------------------------------------------------
(* Approved work                                                           *)

TaskRows == [draft : drafts, by : SUBSET Approvers]

\* A draft has one task, and an approval, on file or about to be, a task that names it.
Tracked(a) ==
    /\ a.task \in DOMAIN tasks
    /\ tasks[a.task].draft = a.draft /\ a.by \in tasks[a.task].by

TrackedInv ==
    /\ tasks \in Seq(TaskRows)
    /\ \A i, j \in DOMAIN tasks : tasks[i].draft = tasks[j].draft => i = j
    /\ \A a \in approvals \cup approving : Tracked(a)

\* Every step of an approval keeps the task of every other.
LEMMA ApproveKeepsTracked ==
    ASSUME TrackedInv, NEW draft \in drafts, NEW who \in Approvers, ApproveDraft(draft, who)
    PROVE  TrackedInv'
<1> DEFINE planned == PlannedTasks(draft, who)
           task == CHOOSE i \in DOMAIN planned :
                      planned[i].draft = draft /\ who \in planned[i].by
<1>1. tasks' = planned /\ approving' = {ApprovalOf(draft, who, task)}
      /\ UNCHANGED <<drafts, approvals>>
  BY DEF ApproveDraft
<1>2. PICK n \in Nat : n = Len(tasks) /\ DOMAIN tasks = 1 .. n
  BY LenProperties DEF TrackedInv
<1>3. \A i \in 1 .. n : tasks[i] \in TaskRows
  BY <1>2, ElementOfSeq DEF TrackedInv
<1>4. /\ planned \in Seq(TaskRows)
      /\ DOMAIN tasks \subseteq DOMAIN planned
      /\ \A i \in DOMAIN tasks : planned[i].draft = tasks[i].draft /\ tasks[i].by \subseteq planned[i].by
      /\ \A i, j \in DOMAIN planned : planned[i].draft = planned[j].draft => i = j
      /\ \E i \in DOMAIN planned : planned[i].draft = draft /\ who \in planned[i].by
  <2>1. CASE TaskOf(draft, who) = {}
    <3>1. PICK row : row = [draft |-> draft, by |-> {who}]
      OBVIOUS
    <3>2. row \in TaskRows /\ row.draft = draft /\ who \in row.by
      BY <3>1 DEF TaskRows
    <3>3. planned = Append(tasks, row)
      BY <2>1, <3>1 DEF PlannedTasks
    <3>4. /\ planned \in Seq(TaskRows) /\ DOMAIN planned = 1 .. n + 1
          /\ \A i \in 1 .. n : planned[i] = tasks[i]
          /\ planned[n + 1] = row
      <4>1. Append(tasks, row) \in Seq(TaskRows) /\ Len(Append(tasks, row)) = n + 1
            /\ (\A i \in 1 .. n : Append(tasks, row)[i] = tasks[i])
            /\ Append(tasks, row)[n + 1] = row
        BY <1>2, <3>2, AppendProperties DEF TrackedInv
      <4>2. DOMAIN Append(tasks, row) = 1 .. n + 1
        BY <4>1, LenProperties
      <4>3. QED
        BY <3>3, <4>1, <4>2
    <3>5. \A i \in 1 .. n : tasks[i].draft # draft
      BY <1>2, <2>1 DEF TaskOf
    <3> HIDE DEF planned
    <3>6. \A i \in 1 .. n + 1 : i \in 1 .. n \/ i = n + 1
      OBVIOUS
    <3>7. \A i, j \in 1 .. n + 1 : planned[i].draft = planned[j].draft => i = j
      BY <1>2, <3>2, <3>4, <3>5, <3>6 DEF TrackedInv
    <3>8. n + 1 \in 1 .. n + 1 /\ 1 .. n \subseteq 1 .. n + 1
      OBVIOUS
    <3>9. QED
      BY <1>2, <3>2, <3>4, <3>7, <3>8
  <2>2. CASE TaskOf(draft, who) # {}
    <3>1. PICK t \in 1 .. n : tasks[t].draft = draft
      BY <1>2, <2>2 DEF TaskOf
    <3>2. planned = [i \in 1 .. n |-> IF i \in TaskOf(draft, who)
                                        THEN [tasks[i] EXCEPT !.by = @ \cup {who}]
                                        ELSE tasks[i]]
      BY <1>2, <2>2 DEF PlannedTasks
    <3>3. DOMAIN planned = 1 .. n
      BY <3>2
    <3>4. ASSUME NEW i \in 1 .. n
          PROVE  /\ planned[i] \in TaskRows /\ planned[i].draft = tasks[i].draft
                 /\ tasks[i].by \subseteq planned[i].by
                 /\ tasks[i].draft = draft => who \in planned[i].by
      <4>1. tasks[i] \in TaskRows
        BY <1>3
      <4>2. CASE i \in TaskOf(draft, who)
        <5>1. planned[i] = [tasks[i] EXCEPT !.by = @ \cup {who}]
          BY <3>2, <4>2
        <5>2. QED
          BY <4>1, <5>1 DEF TaskRows
      <4>3. CASE i \notin TaskOf(draft, who)
        BY <1>2, <3>2, <4>1, <4>3 DEF TaskOf
      <4>4. QED
        BY <4>2, <4>3
    <3>5. planned \in [1 .. n -> TaskRows]
      <4>1. planned = [i \in 1 .. n |-> planned[i]]
        BY <3>2
      <4>2. QED
        BY <3>4, <4>1
    <3>6. planned \in Seq(TaskRows)
      BY <3>5, IsASeq
    <3> HIDE DEF planned
    <3>7. QED
      BY <1>2, <3>1, <3>3, <3>4, <3>6 DEF TrackedInv
  <2>3. QED
    BY <2>1, <2>2
<1> HIDE DEF planned
<1>5. task \in DOMAIN planned /\ planned[task].draft = draft /\ who \in planned[task].by
  BY <1>4
<1> HIDE DEF task
<1>6. ASSUME NEW a \in approvals' \cup approving'
      PROVE  Tracked(a)'
  <2>1. CASE a \in approvals
    BY <1>1, <1>4, <2>1 DEF TrackedInv, Tracked
  <2>2. CASE a \notin approvals
    <3>1. a = ApprovalOf(draft, who, task)
      BY <1>1, <1>6, <2>2
    <3>2. a.draft = draft /\ a.by = who /\ a.task = task
      BY <3>1 DEF ApprovalOf
    <3>3. QED
      BY <1>1, <1>5, <3>2 DEF Tracked
  <2>3. QED
    BY <2>1, <2>2
<1>7. tasks' \in Seq(TaskRows')
  BY <1>1, <1>4 DEF TaskRows
<1>8. QED
  BY <1>1, <1>4, <1>6, <1>7 DEF TrackedInv

\* Steps that leave graph and approvals alone, and drafts that are added.
LEMMA TrackedStays ==
    ASSUME TrackedInv, UNCHANGED tasks, drafts \subseteq drafts',
           approvals' \cup approving' \subseteq approvals \cup approving
    PROVE  TrackedInv'
<1>1. TaskRows \subseteq TaskRows'
  BY DEF TaskRows
<1>2. tasks' \in Seq(TaskRows')
  <2>1. PICK n \in Nat : n = Len(tasks) /\ DOMAIN tasks = 1 .. n /\ tasks \in [1 .. n -> TaskRows]
    BY LenProperties DEF TrackedInv
  <2>2. tasks \in [1 .. n -> TaskRows']
    BY <1>1, <2>1
  <2>3. QED
    BY <2>2, IsASeq
<1>3. \A a \in approvals' \cup approving' : Tracked(a)'
  BY DEF TrackedInv, Tracked
<1>4. QED
  BY <1>2, <1>3 DEF TrackedInv

\* Whatever is approved, again or after a death, is tracked.
LEMMA TrackedInvariance == ProposalsSpec => []TrackedInv
<1>1. ASSUME ProposalsInit
      PROVE  TrackedInv
  BY <1>1, EmptySeq DEF ProposalsInit, TrackedInv, Nothing
<1>2. ASSUME TrackedInv, ProposalsNext
      PROVE  TrackedInv'
  <2>1. ASSUME NEW d \in drafts, NEW who \in Approvers, ApproveDraft(d, who)
        PROVE  TrackedInv'
    BY <1>2, <2>1, ApproveKeepsTracked
  <2>2. ASSUME \/ MineAny \/ Review \/ (\E r \in reviews : Curate(r))
               \/ (\E c \in curations : \E k \in c : DraftPatch(c, k))
               \/ \E p \in queue : \E s \in Decisions : Mark(p, s)
        PROVE  UNCHANGED tasks /\ drafts \subseteq drafts' /\ UNCHANGED <<approvals, approving>>
    BY <2>2 DEF MineAny, Mine, Review, Curate, DraftPatch, Mark
  <2>3. WriteApproval \/ DieApproving =>
            /\ UNCHANGED <<tasks, drafts>>
            /\ approvals' \cup approving' \subseteq approvals \cup approving
    BY DEF WriteApproval, DieApproving, Nothing
  <2>4. QED
    BY <1>2, <2>1, <2>2, <2>3, TrackedStays DEF ProposalsNext
<1>3. ASSUME TrackedInv, UNCHANGED proposalVars
      PROVE  TrackedInv'
  BY <1>3, TrackedStays DEF proposalVars
<1>4. QED
  BY <1>1, <1>2, <1>3, PTL DEF ProposalsSpec

-----------------------------------------------------------------------------
(* The theorems                                                            *)

\* An approval is never without its task nor a draft with two, however often people
\* approve it and whichever of their commands die between the two files, and a patch
\* candidate rests on a risky failure or on two runs (p2a_proposals).
THEOREM ProposalsStayEarned == ProposalsSpec => []ProposalsAreEarned
<1>1. ASSUME TrackedInv
      PROVE  ApprovedWorkIsTracked
  BY <1>1 DEF TrackedInv, Tracked, ApprovedWorkIsTracked
<1>2. ASSUME EarnedInv
      PROVE  CandidatesAreEarned
  <2> SUFFICES ASSUME NEW c \in curations, NEW k \in c, k.readiness = "patch_candidate"
               PROVE  \/ \E r \in Runs : log[r].class = k.class
                                         /\ RiskForFailure(k.class) = "high"
                      \/ Cardinality({r \in Runs : log[r].class = k.class}) >= 2
                      \/ /\ k.class = "monitor_gate_mismatch"
                         /\ Cardinality({r \in Runs : log[r].verdict = "rejected"}) >= 2
    BY DEF CandidatesAreEarned
  <2>1. PICK g : FromFile(g) /\ k = Candidate(g)
    BY <1>2 DEF EarnedInv
  <2>2. k.class = g.class
    BY <2>1 DEF Candidate
  <2>3. QED
    BY <1>2, <2>1, <2>2, ApprovedIsEarned
<1>3. QED
  BY <1>1, <1>2, EarnedInvariance, TrackedInvariance, PTL DEF ProposalsAreEarned

\* What is mined of a run and class that have a proposal on file is that proposal,
\* with its status back at the start.
LEMMA MinedAgain ==
    ASSUME log \in [Runs -> OutcomeType], OnFile(queue), NEW p \in queue,
           NEW rs \in SUBSET Runs, NEW q \in UNION {ProposalsForRun(r) : r \in rs}, SameId(p, q)
    PROVE  q = [p EXCEPT !.status = "proposed"]
<1>1. OnFile(UNION {ProposalsForRun(r) : r \in rs})
  BY MinedIsOnFile
<1>2. /\ p \in ProposalType /\ q \in ProposalType /\ Earned(p) /\ Earned(q)
      /\ p.run = q.run /\ p.class = q.class
  BY <1>1 DEF OnFile, SameId
<1>3. p.risk = q.risk
  BY <1>2 DEF Earned, Classes
<1>4. q.status = "proposed"
  BY DEF ProposalsForRun, FailureProposal, GapProposal, MonitorProposal, NewProposal
<1>5. q = [run |-> p.run, class |-> p.class, risk |-> p.risk, status |-> "proposed"]
  BY <1>2, <1>3, <1>4 DEF ProposalType
<1>6. QED
  BY <1>2, <1>5 DEF ProposalType

\* What a person decided on a proposal stays, whatever is mined again and decided on
\* the others; a mine told to overwrite opens the decision again and keeps the
\* proposal (writeProposal skips the file that is there unless it may overwrite it).
THEOREM DecisionsAreKept == ProposalsSpec => DecisionsSurviveMining
<1> DEFINE Kept == \A p \in queue : p.status # "proposed" =>
                     \/ p \in queue'
                     \/ /\ overwrites' # overwrites
                        /\ [p EXCEPT !.status = "proposed"] \in queue'
           Tallied == overwrites \in Nat
<1>1. ASSUME EarnedInv, Tallied, ProposalsNext
      PROVE  Kept
  <2>1. ASSUME NEW rs \in SUBSET Runs, NEW overwrite \in BOOLEAN, Mine(rs, overwrite)
        PROVE  Kept
    <3> DEFINE read == {s \in rs : Readable(s)}
               mined == UNION {ProposalsForRun(r) : r \in read}
    <3>1. queue' = Written(mined, overwrite)
          /\ overwrites' = IF overwrite THEN overwrites + 1 ELSE overwrites
      BY <2>1 DEF Mine
    <3>2. ASSUME NEW p \in queue, NEW q \in mined, SameId(p, q)
          PROVE  q = [p EXCEPT !.status = "proposed"]
      <4>1. read \in SUBSET Runs
        OBVIOUS
      <4> HIDE DEF read
      <4>2. QED
        BY <1>1, <3>2, <4>1, MinedAgain DEF EarnedInv
    <3> HIDE DEF mined
    <3>3. CASE overwrite
      <4>1. overwrites' # overwrites
        BY <1>1, <3>1, <3>3
      <4>2. \A p \in queue : p \in queue' \/ \E q \in mined : SameId(p, q)
        BY <3>1, <3>3 DEF Written
      <4>3. mined \subseteq queue'
        BY <3>1, <3>3 DEF Written
      <4>4. ASSUME NEW p \in queue, p \notin queue'
            PROVE  [p EXCEPT !.status = "proposed"] \in queue'
        <5>1. PICK q \in mined : SameId(p, q)
          BY <4>2, <4>4
        <5>2. QED
          BY <3>2, <4>3, <5>1
      <4>5. QED
        BY <4>1, <4>4
    <3>4. CASE ~overwrite
      BY <3>1, <3>4 DEF Written
    <3>5. QED
      BY <3>3, <3>4
  <2>2. ASSUME MineAny
        PROVE  Kept
    <3>1. \A r \in Runs : {r} \in SUBSET Runs
      OBVIOUS
    <3> HIDE DEF Kept
    <3>2. QED
      BY <2>1, <2>2, <3>1 DEF MineAny
  <2>3. ASSUME NEW q \in queue, NEW s \in Decisions, Mark(q, s)
        PROVE  Kept
    BY <2>3 DEF Mark
  <2>4. ASSUME \/ Review \/ (\E r \in reviews : Curate(r))
               \/ (\E c \in curations : \E k \in c : DraftPatch(c, k))
               \/ (\E d \in drafts : \E who \in Approvers : ApproveDraft(d, who))
               \/ WriteApproval \/ DieApproving
        PROVE  queue' = queue
    BY <2>4 DEF Review, Curate, DraftPatch, ApproveDraft, WriteApproval, DieApproving
  <2>5. QED
    BY <1>1, <2>2, <2>3, <2>4 DEF ProposalsNext
<1>2. ProposalsInit => Tallied
  BY DEF ProposalsInit
<1>3. ASSUME Tallied, ProposalsNext
      PROVE  Tallied'
  <2>1. ASSUME MineAny
        PROVE  overwrites' \in {overwrites, overwrites + 1}
    BY <2>1 DEF MineAny, Mine
  <2>2. ASSUME \/ Review \/ (\E r \in reviews : Curate(r))
               \/ (\E c \in curations : \E k \in c : DraftPatch(c, k))
               \/ (\E d \in drafts : \E who \in Approvers : ApproveDraft(d, who))
               \/ WriteApproval \/ DieApproving
               \/ \E p \in queue : \E s \in Decisions : Mark(p, s)
        PROVE  overwrites' = overwrites
    BY <2>2 DEF Review, Curate, DraftPatch, ApproveDraft, WriteApproval, DieApproving, Mark
  <2>3. QED
    BY <1>3, <2>1, <2>2 DEF ProposalsNext
<1>4. Tallied /\ UNCHANGED proposalVars => Tallied'
  BY DEF proposalVars
<1>5. ProposalsSpec => []Tallied
  <2> HIDE DEF Tallied
  <2>1. QED
    BY <1>2, <1>3, <1>4, PTL DEF ProposalsSpec
<1>6. EarnedInv /\ Tallied /\ [ProposalsNext]_proposalVars => [Kept]_proposalVars
  BY <1>1
<1>7. QED
  <2> HIDE DEF Tallied
  <2>1. QED
    BY <1>5, <1>6, EarnedInvariance, PTL DEF ProposalsSpec, DecisionsSurviveMining

-----------------------------------------------------------------------------
(*                            The derived tasks                            *)
-----------------------------------------------------------------------------
(* The groups                                                              *)

\* The areas are distinct, and verification is listed twice.
LEMMA ListOfAreas ==
    /\ Len(Areas) \in Nat \ {0} /\ DOMAIN Areas = 1 .. Len(Areas)
    /\ Len(Listed) = Len(Areas) + 1 /\ Listed[Len(Listed)] = "verification"
    /\ \A n \in DOMAIN Areas : Listed[n] = Areas[n] /\ Areas[n] \in Range(Areas)
    /\ \A a \in Range(Areas) : \E n \in DOMAIN Areas : Areas[n] = a
    /\ "verification" \in Range(Areas) /\ "requirements" \in Range(Areas)
<1>0. PICK S : S = Range(AreaOrder) \cup {"requirements", "verification", "misc"}
  OBVIOUS
<1>1. PICK first, last, mid, one :
          /\ first = <<"requirements">> /\ last = <<"verification", "misc">> /\ mid = AreaOrder
          /\ one = <<"verification">>
  OBVIOUS
<1>2. mid \in Seq(S)
  <2>1. PICK R : R = Range(AreaOrder)
    OBVIOUS
  <2>2. mid \in Seq(R) /\ R \subseteq S
    BY <1>0, <1>1, <2>1, DiffAssumption
  <2>3. Len(mid) \in Nat /\ mid = [k \in 1 .. Len(mid) |-> mid[k]] /\ \A k \in 1 .. Len(mid) : mid[k] \in S
    BY <2>2
  <2>4. QED
    BY <2>3, IsASeq
<1>m. PICK m \in Nat : m = Len(mid)
  BY <1>2
<1>3. /\ first \in Seq(S) /\ Len(first) = 1 /\ first[1] = "requirements"
      /\ last \in Seq(S) /\ Len(last) = 2 /\ last[1] = "verification" /\ last[2] = "misc"
      /\ one \in Seq(S) /\ Len(one) = 1 /\ one[1] = "verification"
  <2>1. "requirements" \in S /\ "verification" \in S /\ "misc" \in S
    BY <1>0
  <2>2. \A x, y \in S : <<x>> \in Seq(S) /\ <<x, y>> \in Seq(S)
    OBVIOUS
  <2>3. first \in Seq(S) /\ last \in Seq(S) /\ one \in Seq(S)
    BY <1>1, <2>1, <2>2
  <2>4. QED
    BY <1>1, <2>3
<1>4. PICK start : start = first \o mid
  OBVIOUS
<1>5. start \in Seq(S) /\ Len(start) = m + 1 /\ start[1] = "requirements"
  <2>1. /\ start \in Seq(S) /\ Len(start) = Len(first) + Len(mid)
        /\ \A k \in 1 .. Len(first) + Len(mid) :
               start[k] = IF k <= Len(first) THEN first[k] ELSE mid[k - Len(first)]
    BY <1>2, <1>3, <1>4, ConcatProperties, Zenon
  <2>2. QED
    BY <1>m, <1>3, <2>1
<1>6. PICK areas : areas = start \o last
  OBVIOUS
<1>7. /\ areas \in Seq(S) /\ Len(areas) = m + 3
      /\ areas[1] = "requirements" /\ areas[m + 2] = "verification"
  <2>1. /\ areas \in Seq(S) /\ Len(areas) = (m + 1) + 2
        /\ \A k \in 1 .. (m + 1) + 2 : areas[k] = IF k <= m + 1 THEN start[k] ELSE last[k - (m + 1)]
    <3>1. /\ areas \in Seq(S) /\ Len(areas) = Len(start) + Len(last)
          /\ \A k \in 1 .. Len(start) + Len(last) :
                 areas[k] = IF k <= Len(start) THEN start[k] ELSE last[k - Len(start)]
      BY <1>3, <1>5, <1>6, ConcatProperties, Zenon
    <3>2. QED
      BY <1>3, <1>5, <3>1
  <2>2. /\ 1 \in 1 .. (m + 1) + 2 /\ 1 <= m + 1 /\ m + 2 \in 1 .. (m + 1) + 2 /\ ~(m + 2 <= m + 1)
        /\ (m + 2) - (m + 1) = 1
    OBVIOUS
  <2>3. areas[1] = start[1] /\ areas[m + 2] = last[1]
    BY <2>1, <2>2
  <2>4. QED
    BY <1>3, <1>5, <2>1, <2>3
<1>8. areas = Areas
  BY <1>1, <1>4, <1>6 DEF Areas
<1>9. PICK listed : listed = areas \o one
  OBVIOUS
<1>11. /\ Len(listed) = (m + 3) + 1
       /\ \A k \in 1 .. (m + 3) + 1 : listed[k] = IF k <= m + 3 THEN areas[k] ELSE one[k - (m + 3)]
  <2>1. /\ Len(listed) = Len(areas) + Len(one)
        /\ \A k \in 1 .. Len(areas) + Len(one) :
               listed[k] = IF k <= Len(areas) THEN areas[k] ELSE one[k - Len(areas)]
    <3>1. areas \in Seq(S) /\ one \in Seq(S)
      BY <1>3, <1>7
    <3>2. QED
      BY <1>9, <3>1, ConcatProperties, Zenon
  <2>2. QED
    BY <1>3, <1>7, <2>1
<1>12. listed = Listed
  BY <1>1, <1>8, <1>9 DEF Listed
<1>13. DOMAIN areas = 1 .. m + 3
  BY <1>7
<1>14. /\ \A k \in DOMAIN areas : listed[k] = areas[k] /\ areas[k] \in Range(areas)
       /\ \A a \in Range(areas) : \E k \in DOMAIN areas : areas[k] = a
       /\ listed[(m + 3) + 1] = "verification"
  <2>1. \A k \in 1 .. m + 3 : k \in 1 .. (m + 3) + 1 /\ k <= m + 3
    OBVIOUS
  <2>2. (m + 3) + 1 \in 1 .. (m + 3) + 1 /\ ~((m + 3) + 1 <= m + 3) /\ ((m + 3) + 1) - (m + 3) = 1
    OBVIOUS
  <2>3. QED
    BY <1>3, <1>11, <1>13, <2>1, <2>2 DEF Range
<1>15. 1 \in DOMAIN areas /\ m + 2 \in DOMAIN areas
  BY <1>13
<1>16. "verification" \in Range(areas) /\ "requirements" \in Range(areas)
  BY <1>7, <1>14, <1>15
<1>17. QED
  BY <1>0, <1>7, <1>8, <1>11, <1>12, <1>13, <1>14, <1>16

\* A change belongs to the group of its area and to no other.
LEMMA ChangesHaveOneArea ==
    ASSUME \A r \in Refs : spec[r] \in AreasFor(r) \cup {"same"}, NEW r \in Changed
    PROVE  /\ spec[r] \in Range(Areas)
           /\ \A a \in Range(Areas) : r \in RefsIn(a) <=> a = spec[r]
<1>1. r \in Refs /\ spec[r] # "same" /\ spec[r] \in AreasFor(r)
  BY DEF Changed
<1>2. /\ r = "verification" => spec[r] = "verification"
      /\ r = "questions" => spec[r] = "requirements"
      /\ spec[r] \in Range(Areas)
  BY <1>1, ListOfAreas DEF AreasFor
<1>3. \A a : r \in OwnRefs(a) <=> a = spec[r]
  BY <1>2 DEF OwnRefs
<1>4. ASSUME NEW a \in Range(Areas)
      PROVE  r \in RefsIn(a) <=> a = spec[r]
  <2>1. CASE a = "verification" /\ OwnRefs(a) = {}
    <3>1. r # "verification"
      BY <1>2, <1>3, <2>1
    <3>2. QED
      BY <1>3, <2>1, <3>1 DEF RefsIn
  <2>2. CASE ~(a = "verification" /\ OwnRefs(a) = {})
    BY <1>3, <2>2 DEF RefsIn
  <2>3. QED
    BY <2>1, <2>2
<1>5. QED
  BY <1>2, <1>4

\* Each group has an area of its own, and each change its group.
LEMMA GroupsAreApart ==
    /\ Groups \subseteq 1 .. Len(Listed) /\ Len(Listed) \in Nat
    /\ \A n \in Groups : Listed[n] \in Range(Areas)
    /\ \A m, n \in Groups : Listed[m] = Listed[n] => m = n
<1>1. /\ Len(Areas) \in Nat /\ DOMAIN Areas = 1 .. Len(Areas) /\ Len(Listed) = Len(Areas) + 1
      /\ Listed[Len(Listed)] = "verification" /\ "verification" \in Range(Areas)
      /\ \A n \in DOMAIN Areas : Listed[n] = Areas[n] /\ Areas[n] \in Range(Areas)
  BY ListOfAreas
<1>2. \A n \in Groups : \/ n \in DOMAIN Areas /\ OwnRefs(Areas[n]) # {}
                        \/ n = Len(Listed) /\ OwnRefs("verification") = {}
  BY DEF Groups
<1>3. \A m, n \in DOMAIN Areas : Areas[m] = Areas[n] => m = n
  BY DiffAssumption
<1>4. ASSUME NEW m \in Groups, NEW n \in Groups, Listed[m] = Listed[n]
      PROVE  m = n
  BY <1>1, <1>2, <1>3, <1>4
<1>5. Len(Listed) \in Nat /\ Len(Listed) \in 1 .. Len(Listed) /\ DOMAIN Areas \subseteq 1 .. Len(Listed)
  BY <1>1
<1>6. QED
  BY <1>1, <1>2, <1>4, <1>5

\* A change has a group.
LEMMA ChangesAreGrouped ==
    ASSUME \A r \in Refs : spec[r] \in AreasFor(r) \cup {"same"}, NEW r \in Changed
    PROVE  \E n \in Groups : Listed[n] = spec[r]
<1>1. PICK n \in DOMAIN Areas : Areas[n] = spec[r]
  BY ChangesHaveOneArea, ListOfAreas
<1>2. r \in OwnRefs(Areas[n])
  BY <1>1 DEF OwnRefs
<1>3. n \in Groups
  BY <1>2 DEF Groups
<1>4. QED
  BY <1>1, <1>3, ListOfAreas

-----------------------------------------------------------------------------
(* What is reused                                                          *)

Best(S, f, i) == i \in S /\ \A j \in S : f[i] > f[j] \/ (f[i] = f[j] /\ i <= j)

\* Among finitely many numbered values there is a first greatest one.
LEMMA FirstOfTheBest ==
    ASSUME NEW n \in Nat, NEW S \in SUBSET (1 .. n), S # {}, NEW f, \A i \in S : f[i] \in Nat
    PROVE  \E i : Best(S, f, i)
<1> DEFINE Upto(k) == S \cap 1 .. k
           T == {k \in Nat : Upto(k) # {} => \E i : Best(Upto(k), f, i)}
<1>1. 0 \in T
  OBVIOUS
<1>2. ASSUME NEW k \in Nat, k \in T
      PROVE  k + 1 \in T
  <2>1. CASE k + 1 \notin S
    <3>1. Upto(k + 1) = Upto(k)
      BY <2>1
    <3>2. QED
      BY <1>2, <3>1
  <2>2. CASE k + 1 \in S
    <3>1. Upto(k + 1) = Upto(k) \cup {k + 1}
      BY <2>2
    <3>2. PICK R : R = Upto(k)
      OBVIOUS
    <3>3. R \subseteq S /\ \A j \in R : j \in 1 .. k
      BY <3>2
    <3>4. \E i : Best(R \cup {k + 1}, f, i)
      <4>1. CASE R = {}
        BY <2>2, <4>1 DEF Best
      <4>2. CASE R # {}
        <5>1. PICK i : Best(R, f, i)
          BY <1>2, <3>2, <4>2
        <5>2. i \in R /\ i \in 1 .. k /\ f[i] \in Nat /\ f[k + 1] \in Nat
          BY <2>2, <3>3, <5>1 DEF Best
        <5>3. CASE f[k + 1] > f[i]
          <6>1. \A j \in R : f[k + 1] > f[j]
            BY <3>3, <5>1, <5>2, <5>3 DEF Best
          <6>2. Best(R \cup {k + 1}, f, k + 1)
            BY <6>1 DEF Best
          <6>3. QED
            BY <6>2
        <5>4. CASE ~(f[k + 1] > f[i])
          <6>1. f[i] > f[k + 1] \/ (f[i] = f[k + 1] /\ i <= k + 1)
            BY <5>2, <5>4
          <6>2. Best(R \cup {k + 1}, f, i)
            BY <5>1, <6>1 DEF Best
          <6>3. QED
            BY <6>2
        <5>5. QED
          BY <5>3, <5>4
      <4>3. QED
        BY <4>1, <4>2
    <3>5. QED
      BY <3>1, <3>2, <3>4
  <2>3. QED
    BY <2>1, <2>2
<1>3. n \in T
  <2> HIDE DEF T
  <2>1. Nat \subseteq T
    BY <1>1, <1>2, AllNumbers
  <2>2. QED
    BY <2>1
<1>4. Upto(n) = S
  OBVIOUS
<1>5. QED
  BY <1>3, <1>4

\* A new number is above those of the old tasks.
LEMMA NewIdsAreNew ==
    ASSUME NEW old \in Seq(Task)
    PROVE  /\ FirstNewId(old) \in Nat \ {0}
           /\ \A i \in DOMAIN old : old[i].id \in Nat \ {0} /\ old[i].id < FirstNewId(old)
<1>1. PICK n \in Nat : n = Len(old) /\ DOMAIN old = 1 .. n
  OBVIOUS
<1>2. \A i \in 1 .. n : old[i] \in Task /\ old[i].id \in Nat \ {0}
  <2>1. \A i \in 1 .. n : old[i] \in Task
    BY <1>1
  <2>2. \A t \in Task : t.id \in Nat \ {0}
    BY DEF Task
  <2>3. QED
    BY <2>1, <2>2
<1>3. PICK ids : ids = {0} \cup {old[i].id : i \in DOMAIN old}
  OBVIOUS
<1>4. ids \subseteq Nat /\ FirstNewId(old) = Max(ids) + 1
  BY <1>1, <1>2, <1>3 DEF FirstNewId
<1>5. CASE n = 0
  <2>1. ids = {0}
    BY <1>1, <1>3, <1>5
  <2>2. Max(ids) = 0
    BY <2>1, GreatestIsMax
  <2>3. QED
    BY <1>1, <1>4, <1>5, <2>2
<1>6. CASE n # 0
  <2>1. PICK f : f = [i \in 1 .. n |-> old[i].id]
    OBVIOUS
  <2>2. PICK S : S = 1 .. n
    OBVIOUS
  <2>3. S # {} /\ S \in SUBSET (1 .. n) /\ \A i \in S : f[i] = old[i].id /\ f[i] \in Nat
    <3>1. 1 \in 1 .. n
      BY <1>6
    <3>2. \A i \in 1 .. n : f[i] = old[i].id
      BY <2>1
    <3>3. QED
      BY <1>2, <2>2, <3>1, <3>2
  <2>4. PICK i : Best(S, f, i)
    BY <2>3, FirstOfTheBest
  <2>5. i \in S /\ \A j \in S : old[j].id <= old[i].id
    BY <1>2, <2>2, <2>3, <2>4 DEF Best
  <2>6. PICK m \in Nat : m = old[i].id
    BY <1>2, <2>2, <2>5
  <2>7. m \in ids /\ \A x \in ids : x <= m
    BY <1>1, <1>3, <2>2, <2>5, <2>6
  <2>8. Max(ids) = m
    BY <1>4, <2>7, GreatestIsMax
  <2>9. FirstNewId(old) = m + 1 /\ \A j \in 1 .. n : old[j].id <= m
    BY <1>4, <2>2, <2>5, <2>6, <2>8
  <2>10. \A j \in 1 .. n : old[j].id < m + 1
    BY <1>2, <2>9
  <2>11. QED
    BY <1>1, <1>2, <2>9, <2>10
<1>7. QED
  BY <1>5, <1>6

\* How well a task fits is a number, and one that fits is unfinished and of the
\* area, touches a field of the group or is titled like it.
LEMMA FitsAreEarned ==
    ASSUME NEW task \in Task, NEW area \in Range(Areas)
    PROVE  /\ Fit(area, task) \in Nat
           /\ Fit(area, task) > 0 =>
                  /\ task.status # "done"
                  /\ \/ task.area = area \/ RefsIn(area) \cap task.refs # {}
                     \/ area \in task.words
<1>1. PICK common : common = RefsIn(area) \cap task.refs
  OBVIOUS
<1>2. IsFiniteSet(common) /\ Cardinality(common) \in Nat
  <2>1. IsFiniteSet(Refs)
    <3>1. IsFiniteSet(Fields) /\ Refs = (Fields \cup {"verification"}) \cup {"questions"}
      BY DiffAssumption DEF Refs
    <3>2. IsFiniteSet(Fields \cup {"verification"})
      BY <3>1, FS_AddElement
    <3>3. QED
      BY <3>1, <3>2, FS_AddElement
  <2>2. task.refs \subseteq Refs
    BY DEF Task
  <2>3. common \subseteq Refs
    BY <1>1, <2>2
  <2>4. IsFiniteSet(common)
    BY <2>1, <2>3, FS_Subset
  <2>5. QED
    BY <2>4, FS_CardinalityType
<1>3. common = {} => Cardinality(common) = 0
  BY FS_EmptySet
<1>4. PICK n \in Nat : n = Cardinality(common)
  BY <1>2
<1>5. Fit(area, task) = IF task.status = "done" THEN 0
                        ELSE 4 * n + (IF task.area = area THEN 6 ELSE 0)
                                   + (IF area \in task.words THEN 1 ELSE 0)
  BY <1>1, <1>4 DEF Fit
<1>6. QED
  BY <1>1, <1>3, <1>4, <1>5

\* Where something can be reused, the best of it is chosen.
LEMMA BestIsReusable ==
    ASSUME NEW old \in Seq(Task), NEW area \in Range(Areas), NEW used,
           Reusable(area, old, used) # {}
    PROVE  BestOf(area, old, used) \in Reusable(area, old, used)
<1>1. PICK n \in Nat : n = Len(old) /\ DOMAIN old = 1 .. n
  OBVIOUS
<1>2. PICK S : S = Reusable(area, old, used)
  OBVIOUS
<1>3. S \in SUBSET (1 .. n) /\ S # {} /\ \A i \in S : old[i] \in Task
  BY <1>1, <1>2 DEF Reusable
<1>4. PICK f : f = [i \in 1 .. n |-> Fit(area, old[i])]
  OBVIOUS
<1>5. \A i \in S : f[i] = Fit(area, old[i]) /\ f[i] \in Nat
  BY <1>3, <1>4, FitsAreEarned
<1>6. PICK i : Best(S, f, i)
  BY <1>3, <1>5, FirstOfTheBest
<1>7. /\ i \in S
      /\ \A j \in S : \/ Fit(area, old[i]) > Fit(area, old[j])
                      \/ Fit(area, old[i]) = Fit(area, old[j]) /\ i <= j
  BY <1>5, <1>6 DEF Best
<1>8. QED
  BY <1>2, <1>7 DEF BestOf

-----------------------------------------------------------------------------
(* The slots                                                               *)

Status   == {"todo", "in_progress", "done", "blocked"}
SlotType == [id : Nat \ {0}, area : Range(Areas), status : Status]
AccType  == [used : SUBSET Nat, next : Nat \ {0}, slots : Seq(SlotType)]

\* An old task that fits gives its number and status, or the number is new.
Numbered(slot, acc, old) ==
    \/ /\ slot.id \in acc.used
       /\ \E i \in DOMAIN old : /\ slot.id = old[i].id /\ slot.status = old[i].status
                                /\ Fit(slot.area, old[i]) > 0
    \/ FirstNewId(old) <= slot.id /\ slot.id < acc.next

\* The slots of the groups up to the k-th: numbers and areas are distinct.
GoodAcc(k, acc, old) ==
    /\ acc \in AccType /\ FirstNewId(old) <= acc.next
    /\ \A s \in DOMAIN acc.slots : Numbered(acc.slots[s], acc, old)
    /\ \A s, t \in DOMAIN acc.slots : acc.slots[s].id = acc.slots[t].id => s = t
    /\ \A s, t \in DOMAIN acc.slots : acc.slots[s].area = acc.slots[t].area => s = t
    /\ \A s \in DOMAIN acc.slots : \E n \in Groups : n <= k /\ acc.slots[s].area = Listed[n]
    /\ \A n \in Groups : n <= k => \E s \in DOMAIN acc.slots : acc.slots[s].area = Listed[n]

\* One more slot behind the others.
LEMMA OneMoreSlot ==
    ASSUME NEW S, NEW s \in Seq(S), NEW x \in S
    PROVE  /\ Append(s, x) \in Seq(S) /\ DOMAIN Append(s, x) = DOMAIN s \cup {Len(s) + 1}
           /\ Len(s) + 1 \notin DOMAIN s /\ Append(s, x)[Len(s) + 1] = x
           /\ \A k \in DOMAIN s : Append(s, x)[k] = s[k]
<1>1. PICK n \in Nat : n = Len(s) /\ DOMAIN s = 1 .. n
  OBVIOUS
<1>2. PICK t : t = Append(s, x)
  OBVIOUS
<1>3. /\ t \in Seq(S) /\ Len(t) = n + 1 /\ t[n + 1] = x /\ DOMAIN t = 1 .. n + 1
      /\ \A k \in 1 .. n : t[k] = s[k]
  BY <1>1, <1>2
<1>4. 1 .. n + 1 = 1 .. n \cup {n + 1} /\ n + 1 \notin 1 .. n
  OBVIOUS
<1>5. QED
  BY <1>1, <1>2, <1>3, <1>4

\* The slot of a group is typed, and its number is its own.
LEMMA SlotIsTyped ==
    ASSUME NEW old \in Seq(Task), NEW area \in Range(Areas), NEW acc \in AccType
    PROVE  /\ Slot(acc, area, old) \in AccType
           /\ \E x \in SlotType :
                  /\ Slot(acc, area, old).slots = Append(acc.slots, x) /\ x.area = area
                  /\ acc.used \subseteq Slot(acc, area, old).used
                  /\ acc.next <= Slot(acc, area, old).next
                  /\ \/ /\ x.id \notin acc.used /\ x.id \in Slot(acc, area, old).used
                        /\ \E i \in DOMAIN old : /\ x.id = old[i].id /\ x.status = old[i].status
                                                 /\ Fit(area, old[i]) > 0
                     \/ /\ x.id = acc.next /\ Slot(acc, area, old).next = acc.next + 1
                        /\ Slot(acc, area, old).used = acc.used
<1>1. /\ acc.used \in SUBSET Nat /\ acc.next \in Nat \ {0} /\ acc.slots \in Seq(SlotType)
  BY DEF AccType
<1>2. PICK new : new = Slot(acc, area, old)
  OBVIOUS
<1>3. CASE Reusable(area, old, acc.used) # {}
  <2>1. PICK i : i = BestOf(area, old, acc.used) /\ i \in Reusable(area, old, acc.used)
    BY <1>3, BestIsReusable
  <2>2. /\ i \in DOMAIN old /\ old[i].id \notin acc.used /\ Fit(area, old[i]) > 0
    BY <2>1 DEF Reusable
  <2>3. PICK t \in Task : t = old[i]
    BY <2>2
  <2>4. t.id \in Nat \ {0} /\ t.status \in Status
    BY DEF Task, Status
  <2>5. PICK x : x = [id |-> t.id, area |-> area, status |-> t.status]
    OBVIOUS
  <2>6. x \in SlotType /\ x.id = t.id /\ x.area = area /\ x.status = t.status
    BY <2>4, <2>5 DEF SlotType
  <2>7. new = [used |-> acc.used \cup {t.id}, next |-> acc.next, slots |-> Append(acc.slots, x)]
    BY <1>2, <1>3, <2>1, <2>3, <2>5 DEF Slot
  <2>8. new.used = acc.used \cup {t.id} /\ new.next = acc.next /\ new.slots = Append(acc.slots, x)
    BY <2>7
  <2>9. Append(acc.slots, x) \in Seq(SlotType)
    BY <1>1, <2>6, OneMoreSlot
  <2>10. new \in AccType
    BY <1>1, <2>4, <2>7, <2>9 DEF AccType
  <2>11. acc.next <= new.next /\ acc.used \subseteq new.used /\ x.id \in new.used /\ x.id \notin acc.used
    BY <1>1, <2>2, <2>3, <2>6, <2>8
  <2>12. QED
    BY <1>2, <2>2, <2>3, <2>6, <2>8, <2>10, <2>11
<1>4. CASE ~(Reusable(area, old, acc.used) # {})
  <2>1. PICK x : x = [id |-> acc.next, area |-> area, status |-> "todo"]
    OBVIOUS
  <2>2. x \in SlotType /\ x.id = acc.next /\ x.area = area
    BY <1>1, <2>1 DEF SlotType, Status
  <2>3. new = [used |-> acc.used, next |-> acc.next + 1, slots |-> Append(acc.slots, x)]
    BY <1>2, <1>4, <2>1 DEF Slot
  <2>4. new.used = acc.used /\ new.next = acc.next + 1 /\ new.slots = Append(acc.slots, x)
    BY <2>3
  <2>5. Append(acc.slots, x) \in Seq(SlotType)
    BY <1>1, <2>2, OneMoreSlot
  <2>6. new \in AccType /\ acc.next <= new.next
    BY <1>1, <2>3, <2>4, <2>5 DEF AccType
  <2>7. QED
    BY <1>2, <2>2, <2>4, <2>6
<1>5. QED
  BY <1>3, <1>4

\* A group that is reached gets the next slot.
LEMMA NextSlot ==
    ASSUME NEW old \in Seq(Task), NEW k \in Groups, NEW acc, GoodAcc(k - 1, acc, old)
    PROVE  GoodAcc(k, Slot(acc, Listed[k], old), old)
<1>1. k \in Nat \ {0} /\ Listed[k] \in Range(Areas) /\ Groups \subseteq Nat
  BY GroupsAreApart
<1>2. PICK area \in Range(Areas) : area = Listed[k]
  BY <1>1
<1> DEFINE new == Slot(acc, area, old)
<1>4. acc \in AccType
  BY DEF GoodAcc
<1>5. PICK x \in SlotType :
          /\ new.slots = Append(acc.slots, x) /\ x.area = area
          /\ acc.used \subseteq new.used /\ acc.next <= new.next
          /\ \/ /\ x.id \notin acc.used /\ x.id \in new.used
                /\ \E i \in DOMAIN old : /\ x.id = old[i].id /\ x.status = old[i].status
                                         /\ Fit(area, old[i]) > 0
             \/ x.id = acc.next /\ new.next = acc.next + 1 /\ new.used = acc.used
  BY <1>4, SlotIsTyped
<1>6. new \in AccType
  BY <1>4, SlotIsTyped
<1> HIDE DEF new
<1>7. /\ acc.next \in Nat \ {0} /\ new.next \in Nat /\ x.id \in Nat /\ FirstNewId(old) \in Nat
      /\ \A i \in DOMAIN old : old[i].id \in Nat /\ old[i].id < FirstNewId(old)
      /\ FirstNewId(old) <= acc.next
  BY <1>4, <1>6, NewIdsAreNew DEF AccType, SlotType, GoodAcc
<1>8. PICK p, q, m : p = acc.slots /\ q = new.slots /\ m = Len(p) + 1
  OBVIOUS
<1>9. p \in Seq(SlotType) /\ q = Append(p, x)
  BY <1>4, <1>5, <1>8 DEF AccType
<1>10. /\ DOMAIN q = DOMAIN p \cup {m} /\ m \notin DOMAIN p /\ q[m] = x
       /\ \A s \in DOMAIN p : q[s] = p[s] /\ p[s] \in SlotType
  BY <1>8, <1>9, OneMoreSlot
<1>11. \A s \in DOMAIN p : p[s].id \in Nat
  BY <1>10 DEF SlotType
<1>12. \A s \in DOMAIN p : Numbered(p[s], acc, old)
  BY <1>8 DEF GoodAcc
<1>13. ASSUME NEW s \in DOMAIN p
       PROVE  Numbered(p[s], new, old) /\ p[s].id # x.id
  <2>1. PICK y : y = p[s]
    OBVIOUS
  <2>2. y.id \in Nat /\ Numbered(y, acc, old)
    BY <1>11, <1>12, <1>13, <2>1
  <2>3. Numbered(y, new, old)
    <3>1. y.id < acc.next => y.id < new.next
      BY <1>5, <1>7, <2>2
    <3>2. QED
      BY <1>5, <2>2, <3>1 DEF Numbered
  <2>4. CASE y.id \in acc.used /\ \E i \in DOMAIN old : y.id = old[i].id
    <3>1. y.id < acc.next
      BY <1>7, <2>2, <2>4
    <3>2. QED
      BY <1>5, <1>7, <2>1, <2>2, <2>3, <2>4, <3>1
  <2>5. CASE FirstNewId(old) <= y.id /\ y.id < acc.next
    <3>1. y.id # x.id
      BY <1>5, <1>7, <2>2, <2>5
    <3>2. QED
      BY <2>1, <2>3, <3>1
  <2>6. QED
    BY <2>2, <2>4, <2>5 DEF Numbered
<1>14. Numbered(x, new, old)
  BY <1>5, <1>7 DEF Numbered
<1>15. ASSUME NEW s \in DOMAIN p
       PROVE  p[s].area # x.area /\ \E n \in Groups : n <= k /\ p[s].area = Listed[n]
  <2>1. PICK n \in Groups : n <= k - 1 /\ p[s].area = Listed[n]
    BY <1>8, <1>15 DEF GoodAcc
  <2>a. n \in Nat /\ k \in Nat
    BY <1>1
  <2>2. n # k /\ n <= k
    BY <2>1, <2>a
  <2>3. QED
    BY <1>2, <1>5, <2>1, <2>2, GroupsAreApart
<1>16. /\ \A s, t \in DOMAIN q : q[s].id = q[t].id => s = t
       /\ \A s, t \in DOMAIN q : q[s].area = q[t].area => s = t
  <2>1. \A s, t \in DOMAIN p : (p[s].id = p[t].id => s = t) /\ (p[s].area = p[t].area => s = t)
    BY <1>8 DEF GoodAcc
  <2>2. QED
    BY <1>10, <1>13, <1>15, <2>1
<1>17. \A s \in DOMAIN q : /\ Numbered(q[s], new, old)
                           /\ \E n \in Groups : n <= k /\ q[s].area = Listed[n]
  BY <1>1, <1>2, <1>5, <1>10, <1>13, <1>14, <1>15
<1>18. ASSUME NEW n \in Groups, n <= k
       PROVE  \E s \in DOMAIN q : q[s].area = Listed[n]
  <2>1. CASE n = k
    BY <1>2, <1>5, <1>10, <2>1
  <2>2. CASE n # k
    <3>1. n <= k - 1
      BY <1>1, <1>18, <2>2
    <3>2. PICK s \in DOMAIN p : p[s].area = Listed[n]
      BY <1>8, <3>1 DEF GoodAcc
    <3>3. QED
      BY <1>10, <3>2
  <2>3. QED
    BY <2>1, <2>2
<1>19. FirstNewId(old) <= new.next
  BY <1>5, <1>7
<1>20. GoodAcc(k, new, old)
  BY <1>6, <1>8, <1>16, <1>17, <1>18, <1>19 DEF GoodAcc
<1>21. QED
  BY <1>2, <1>20 DEF new

\* A group that is not reached leaves the slots as they are.
LEMMA SlotPassed ==
    ASSUME NEW old, NEW k \in Nat \ {0}, k \notin Groups, NEW acc, GoodAcc(k - 1, acc, old)
    PROVE  GoodAcc(k, acc, old)
<1>1. Groups \subseteq Nat
  BY GroupsAreApart
<1>2. ASSUME NEW n \in Groups
      PROVE  n <= k <=> n <= k - 1
  <2>1. n \in Nat /\ n # k
    BY <1>1
  <2>2. QED
    BY <2>1
<1>3. QED
  BY <1>2 DEF GoodAcc

Accs(F, G, first) == F[0] = first /\ \A k \in Nat : F[k + 1] = G[k + 1][F[k]]

\* Something that is built step by step has a value at every number.
LEMMA AccumulatedStepByStep ==
    ASSUME NEW D, NEW first \in D, NEW G \in [Nat -> [D -> D]]
    PROVE  \E F \in [Nat -> D] : Accs(F, G, first)
<1>1. \E F \in [Nat -> D] : F[0] = first /\ \A k \in Nat : F[k + 1] = G[k + 1][F[k]]
  BY Counted, SMTT(60)
<1>2. QED
  BY <1>1 DEF Accs

\* The slots are those of all the groups.
LEMMA SlotsAreGood ==
    ASSUME NEW old \in Seq(Task)
    PROVE  \E acc : GoodAcc(Len(Listed), acc, old) /\ Slots(old) = acc.slots
<1> DEFINE length == Len(Listed)
           first == [used |-> {}, next |-> FirstNewId(old), slots |-> << >>]
           step(k, a) == IF k \in Groups THEN Slot(a, Listed[k], old) ELSE a
           Solves(f) == f = [k \in 0 .. length |->
                               IF k = 0 THEN [used |-> {}, next |-> FirstNewId(old), slots |-> << >>]
                               ELSE IF k \in Groups THEN Slot(f[k - 1], Listed[k], old) ELSE f[k - 1]]
<1>0. PICK n \in Nat : n = length
  BY GroupsAreApart
<1>1. first \in AccType /\ GoodAcc(0, first, old)
  <2>1. first.used = {} /\ first.next = FirstNewId(old) /\ first.slots = << >>
    OBVIOUS
  <2>2. FirstNewId(old) \in Nat \ {0}
    BY NewIdsAreNew
  <2>3. << >> \in Seq(SlotType) /\ DOMAIN << >> = {}
    BY EmptySeq
  <2>4. first \in AccType
    BY <2>2, <2>3 DEF AccType
  <2>5. \A m \in Groups : ~(m <= 0)
    BY GroupsAreApart
  <2> HIDE DEF first
  <2>6. QED
    BY <2>1, <2>2, <2>3, <2>4, <2>5 DEF GoodAcc
<1>2. \A k \in Nat, a \in AccType : step(k, a) \in AccType
  BY GroupsAreApart, SlotIsTyped
<1>3. \E f : Solves(f)
  <2> DEFINE G == [k \in Nat |-> [a \in AccType |-> step(k, a)]]
  <2>1. G \in [Nat -> [AccType -> AccType]] /\ \A k \in Nat : \A a \in AccType : G[k][a] = step(k, a)
    <3> HIDE DEF step
    <3>1. QED
      BY <1>2
  <2>2. PICK F \in [Nat -> AccType] : Accs(F, G, first)
    <3> HIDE DEF G, first
    <3>1. QED
      BY <1>1, <2>1, AccumulatedStepByStep
  <2>3. F[0] = first /\ \A k \in Nat : F[k + 1] = G[k + 1][F[k]]
    <3> HIDE DEF G, first
    <3>1. QED
      BY <2>2 DEF Accs
  <2>4. ASSUME NEW k \in 1 .. n
        PROVE  F[k] = step(k, F[k - 1])
    <3> HIDE DEF G, step, first
    <3>1. PICK j \in Nat : j = k - 1 /\ k = j + 1
      OBVIOUS
    <3>2. F[j + 1] = G[j + 1][F[j]] /\ F[j] \in AccType
      BY <2>3
    <3>3. QED
      BY <2>1, <3>1, <3>2
  <2> DEFINE f == [k \in 0 .. n |-> F[k]]
  <2>5. \A k \in 0 .. n : f[k] = IF k = 0 THEN first ELSE step(k, f[k - 1])
    <3> HIDE DEF step, first, G
    <3>1. \A k \in 0 .. n : f[k] = F[k] /\ (k # 0 => k - 1 \in 0 .. n /\ k \in 1 .. n)
      OBVIOUS
    <3> HIDE DEF f
    <3>2. QED
      BY <2>3, <2>4, <3>1
  <2>6. f = [k \in 0 .. n |-> IF k = 0 THEN first ELSE step(k, f[k - 1])]
    <3> HIDE DEF step, first, G
    <3>1. QED
      BY <2>5
  <2>7. Solves(f)
    BY <1>0, <2>6, Zenon
  <2>8. QED
    BY <2>7
<1>4. PICK f : Solves(f) /\ Slots(old) = f[n].slots
  <2>1. Slots(old) = (CHOOSE f : Solves(f))[n].slots
    BY <1>0, Zenon DEF Slots
  <2>2. Solves(CHOOSE f : Solves(f))
    <3> HIDE DEF Solves
    <3>1. QED
      BY <1>3
  <2> HIDE DEF Solves
  <2>3. QED
    BY <2>1, <2>2
<1>5. /\ f[0] = first
      /\ \A k \in 1 .. n : f[k] = IF k \in Groups THEN Slot(f[k - 1], Listed[k], old) ELSE f[k - 1]
  <2>1. f = [k \in 0 .. n |-> IF k = 0 THEN first ELSE step(k, f[k - 1])]
    BY <1>0, <1>4, Zenon
  <2>2. \A k \in 0 .. n : f[k] = IF k = 0 THEN first ELSE step(k, f[k - 1])
    <3> HIDE DEF step, first
    <3>1. QED
      BY <2>1
  <2>3. 0 \in 0 .. n /\ \A k \in 1 .. n : k \in 0 .. n /\ k # 0
    BY <1>0
  <2>4. f[0] = first
    <3> HIDE DEF step, first
    <3>1. QED
      BY <2>2, <2>3
  <2>5. \A k \in 1 .. n : f[k] = step(k, f[k - 1])
    <3> HIDE DEF step, first
    <3>1. QED
      BY <2>2, <2>3
  <2>6. QED
    BY <2>4, <2>5
<1> DEFINE S == {k \in Nat : k \in 0 .. n => GoodAcc(k, f[k], old)}
<1>6. 0 \in S
  BY <1>1, <1>5
<1>7. ASSUME NEW k \in Nat, k \in S
      PROVE  k + 1 \in S
  <2> SUFFICES ASSUME k + 1 \in 0 .. n
               PROVE  GoodAcc(k + 1, f[k + 1], old)
    OBVIOUS
  <2>1. PICK m \in Nat \ {0} : m = k + 1 /\ m - 1 = k
    OBVIOUS
  <2>2. GoodAcc(m - 1, f[m - 1], old) /\ m \in 1 .. n
    BY <1>7, <2>1
  <2>3. f[m] = IF m \in Groups THEN Slot(f[m - 1], Listed[m], old) ELSE f[m - 1]
    BY <1>5, <2>2
  <2>4. CASE m \in Groups
    BY <2>1, <2>2, <2>3, <2>4, NextSlot
  <2>5. CASE m \notin Groups
    BY <2>1, <2>2, <2>3, <2>5, SlotPassed
  <2>6. QED
    BY <2>4, <2>5
<1>8. n \in S
  <2> HIDE DEF S
  <2>1. Nat \subseteq S
    BY <1>6, <1>7, AllNumbers
  <2>2. QED
    BY <2>1
<1>9. GoodAcc(n, f[n], old)
  BY <1>8
<1>10. QED
  BY <1>0, <1>4, <1>9

-----------------------------------------------------------------------------
(* The tasks                                                               *)

SpecTyped == \A r \in Refs : spec[r] \in AreasFor(r) \cup {"same"}

\* A task for an area waits for the tasks it must wait for, and its title says no
\* other area.
Arranged(list) ==
    /\ \A i, j \in DOMAIN list : list[i].id = list[j].id => i = j
    /\ \A i, j \in DOMAIN list : list[i].area = list[j].area => i = j
    /\ \A i \in DOMAIN list : list[i].deps = Dependencies(list[i], list)
    /\ \A i \in DOMAIN list : list[i].area \in Range(Areas) /\ list[i].words \subseteq {list[i].area}

\* What a task waits for is settled by the numbers and the areas.
LEMMA SameDependencies ==
    ASSUME NEW a, NEW b, DOMAIN a = DOMAIN b,
           \A k \in DOMAIN a : a[k].id = b[k].id /\ a[k].area = b[k].area,
           NEW i \in DOMAIN a
    PROVE  Dependencies(a[i], a) = Dependencies(b[i], b)
<1>1. ASSUME NEW areas
      PROVE  IdsIn(areas, a) = IdsIn(areas, b)
  <2>1. {k \in DOMAIN a : a[k].area \in areas} = {k \in DOMAIN b : b[k].area \in areas}
    OBVIOUS
  <2>2. PICK K : K = {k \in DOMAIN a : a[k].area \in areas}
    OBVIOUS
  <2>3. \A k \in K : a[k].id = b[k].id
    BY <2>2
  <2>4. {a[k].id : k \in K} = {b[k].id : k \in K}
    BY <2>3
  <2>5. QED
    BY <2>1, <2>2, <2>4 DEF IdsIn
<1>2. a[i].id = b[i].id /\ a[i].area = b[i].area
  OBVIOUS
<1>3. PICK x, y : x = a[i] /\ y = b[i]
  OBVIOUS
<1>4. Dependencies(x, a) = Dependencies(y, b)
  <2>1. x.id = y.id /\ x.area = y.area
    BY <1>2, <1>3
  <2>2. CASE x.area = "requirements"
    <3>1. Dependencies(x, a) = {} /\ Dependencies(y, b) = {}
      BY <2>1, <2>2 DEF Dependencies
    <3>2. QED
      BY <3>1
  <2>3. CASE x.area = "verification"
    <3>1. /\ Dependencies(x, a) = IdsIn(Range(Areas) \ {"verification"}, a) \ {x.id}
          /\ Dependencies(y, b) = IdsIn(Range(Areas) \ {"verification"}, b) \ {y.id}
      BY <2>1, <2>3 DEF Dependencies
    <3>2. QED
      BY <1>1, <2>1, <3>1
  <2>4. CASE x.area \notin {"verification", "requirements"}
    <3>1. /\ Dependencies(x, a) = IdsIn({"requirements"}, a) \ {x.id}
          /\ Dependencies(y, b) = IdsIn({"requirements"}, b) \ {y.id}
      BY <2>1, <2>4 DEF Dependencies
    <3>2. QED
      BY <1>1, <2>1, <3>1
  <2>5. QED
    BY <2>2, <2>3, <2>4
<1>5. QED
  BY <1>3, <1>4

\* The tasks are the slots, with the fields of their areas.
LEMMA TasksOfSlots ==
    ASSUME SpecTyped, NEW old \in Seq(Task)
    PROVE  \E acc :
             /\ GoodAcc(Len(Listed), acc, old)
             /\ Tasks(old) \in Seq(Task) /\ DOMAIN Tasks(old) = DOMAIN acc.slots
             /\ \A i \in DOMAIN acc.slots :
                  /\ Tasks(old)[i].id = acc.slots[i].id /\ Tasks(old)[i].area = acc.slots[i].area
                  /\ Tasks(old)[i].status = acc.slots[i].status
                  /\ Tasks(old)[i].refs = RefsIn(acc.slots[i].area)
             /\ Arranged(Tasks(old))
<1>1. PICK acc : GoodAcc(Len(Listed), acc, old) /\ Slots(old) = acc.slots
  BY SlotsAreGood
<1>2. PICK slots : slots = acc.slots
  OBVIOUS
<1>3. slots \in Seq(SlotType)
  BY <1>1, <1>2 DEF GoodAcc, AccType
<1>4. PICK n \in Nat : n = Len(slots) /\ DOMAIN slots = 1 .. n
  BY <1>3
<1>5. PICK new : new = Tasks(old)
  OBVIOUS
<1>6. new = [i \in DOMAIN slots |->
               [id |-> slots[i].id, area |-> slots[i].area, status |-> slots[i].status,
                words |-> TitleWords(slots[i].area),
                refs |-> RefsIn(slots[i].area), deps |-> Dependencies(slots[i], slots)]]
  BY <1>1, <1>2, <1>5, Zenon DEF Tasks
<1>7. /\ DOMAIN new = 1 .. n
      /\ \A i \in 1 .. n :
           /\ new[i].id = slots[i].id /\ new[i].area = slots[i].area
           /\ new[i].status = slots[i].status /\ new[i].refs = RefsIn(slots[i].area)
           /\ new[i].deps = Dependencies(slots[i], slots)
           /\ new[i].words = TitleWords(slots[i].area)
  BY <1>4, <1>6
<1>8. \A i \in 1 .. n : slots[i].id \in Nat \ {0} /\ slots[i].area \in Range(Areas)
                        /\ slots[i].status \in Status
  <2>1. \A i \in 1 .. n : slots[i] \in SlotType
    BY <1>3, <1>4
  <2>2. \A x \in SlotType : x.id \in Nat \ {0} /\ x.area \in Range(Areas) /\ x.status \in Status
    BY DEF SlotType
  <2>3. QED
    BY <2>1, <2>2
<1>9. ASSUME NEW i \in 1 .. n
      PROVE  new[i] \in Task
  <2>1. RefsIn(slots[i].area) \subseteq Refs
    BY DEF RefsIn, OwnRefs, Changed, Refs
  <2>2. \A areas : IdsIn(areas, slots) \subseteq Nat
    BY <1>4, <1>8 DEF IdsIn
  <2>3. Dependencies(slots[i], slots) \subseteq Nat
    BY <2>2 DEF Dependencies
  <2>4. new[i] = [id |-> slots[i].id, area |-> slots[i].area, status |-> slots[i].status,
                  words |-> TitleWords(slots[i].area),
                  refs |-> RefsIn(slots[i].area), deps |-> Dependencies(slots[i], slots)]
    BY <1>4, <1>6
  <2>5. TitleWords(slots[i].area) \subseteq Range(Areas)
    BY <1>8 DEF TitleWords
  <2>6. QED
    BY <1>8, <2>1, <2>3, <2>4, <2>5 DEF Task, Status
<1>10. new \in Seq(Task)
  <2>1. new = [i \in 1 .. n |-> new[i]]
    BY <1>4, <1>6
  <2>2. QED
    BY <1>9, <2>1, IsASeq
<1>11. Arranged(new)
  <2>1. /\ \A i, j \in 1 .. n : slots[i].id = slots[j].id => i = j
        /\ \A i, j \in 1 .. n : slots[i].area = slots[j].area => i = j
    <3>1. /\ \A i, j \in DOMAIN slots : slots[i].id = slots[j].id => i = j
          /\ \A i, j \in DOMAIN slots : slots[i].area = slots[j].area => i = j
      BY <1>1, <1>2, Zenon DEF GoodAcc
    <3>2. QED
      BY <1>4, <3>1
  <2>2. \A i \in 1 .. n : Dependencies(slots[i], slots) = Dependencies(new[i], new)
    <3>1. /\ DOMAIN slots = DOMAIN new
          /\ \A k \in DOMAIN slots : slots[k].id = new[k].id /\ slots[k].area = new[k].area
      BY <1>4, <1>7
    <3>2. QED
      BY <1>4, <3>1, SameDependencies
  <2>3. \A i \in 1 .. n : new[i].area \in Range(Areas) /\ new[i].words \subseteq {new[i].area}
    BY <1>7, <1>8 DEF TitleWords
  <2>4. QED
    BY <1>7, <2>1, <2>2, <2>3 DEF Arranged
<1>12. QED
  BY <1>1, <1>2, <1>4, <1>5, <1>7, <1>10, <1>11

\* Right after the tasks are derived every change is planned by one of them.
LEMMA ChangesArePlanned ==
    ASSUME SpecTyped, NEW old \in Seq(Task)
    PROVE  /\ \A r \in Changed : Cardinality({i \in DOMAIN Tasks(old) : r \in Tasks(old)[i].refs}) = 1
           /\ \A i \in DOMAIN Tasks(old) :
                  Tasks(old)[i].refs \subseteq Changed \cup {"verification", "questions"}
<1>1. PICK acc :
         /\ GoodAcc(Len(Listed), acc, old)
         /\ DOMAIN Tasks(old) = DOMAIN acc.slots
         /\ \A i \in DOMAIN acc.slots : Tasks(old)[i].refs = RefsIn(acc.slots[i].area)
  BY TasksOfSlots
<1>2. PICK slots, new : slots = acc.slots /\ new = Tasks(old)
  OBVIOUS
<1>3. /\ \A s, t \in DOMAIN slots : slots[s].area = slots[t].area => s = t
      /\ \A s \in DOMAIN slots : slots[s].area \in Range(Areas)
      /\ \A n \in Groups : \E s \in DOMAIN slots : slots[s].area = Listed[n]
  <2>1. \A n \in Groups : n <= Len(Listed)
    BY GroupsAreApart
  <2>2. \A s \in DOMAIN slots : \E n \in Groups : slots[s].area = Listed[n]
    BY <1>1, <1>2 DEF GoodAcc
  <2>3. QED
    BY <1>1, <1>2, <2>1, <2>2, GroupsAreApart DEF GoodAcc
<1>4. ASSUME NEW r \in Changed
      PROVE  Cardinality({i \in DOMAIN new : r \in new[i].refs}) = 1
  <2>1. \A a \in Range(Areas) : r \in RefsIn(a) <=> a = spec[r]
    BY ChangesHaveOneArea DEF SpecTyped
  <2>2. PICK n \in Groups : Listed[n] = spec[r]
    BY ChangesAreGrouped DEF SpecTyped
  <2>3. PICK s \in DOMAIN slots : slots[s].area = spec[r]
    BY <1>3, <2>2
  <2>4. \A i \in DOMAIN slots : r \in RefsIn(slots[i].area) <=> i = s
    BY <1>3, <2>1, <2>3
  <2>5. {i \in DOMAIN new : r \in new[i].refs} = {s}
    BY <1>1, <1>2, <2>4
  <2>6. QED
    BY <2>5, FS_Singleton
<1>5. \A a : RefsIn(a) \subseteq Changed \cup {"verification", "questions"}
  BY DEF RefsIn, OwnRefs
<1>6. QED
  BY <1>1, <1>2, <1>4, <1>5

\* A number stays with the work it was given to.
LEMMA NumbersStay ==
    ASSUME SpecTyped, NEW old \in Seq(Task), NEW i \in DOMAIN old, NEW j \in DOMAIN Tasks(old),
           \A m, n \in DOMAIN old : old[m].id = old[n].id => m = n,
           old[i].id = Tasks(old)[j].id
    PROVE  /\ \/ old[i].area = Tasks(old)[j].area \/ old[i].refs \cap Tasks(old)[j].refs # {}
              \/ Tasks(old)[j].area \in old[i].words
           /\ old[i].status = Tasks(old)[j].status /\ old[i].status # "done"
<1>1. PICK acc :
         /\ GoodAcc(Len(Listed), acc, old)
         /\ Tasks(old) \in Seq(Task) /\ DOMAIN Tasks(old) = DOMAIN acc.slots
         /\ \A k \in DOMAIN acc.slots :
              /\ Tasks(old)[k].id = acc.slots[k].id /\ Tasks(old)[k].area = acc.slots[k].area
              /\ Tasks(old)[k].status = acc.slots[k].status
              /\ Tasks(old)[k].refs = RefsIn(acc.slots[k].area)
  BY TasksOfSlots
<1>2. PICK slot, new : slot = acc.slots[j] /\ new = Tasks(old)[j]
  OBVIOUS
<1>3. /\ new.id = slot.id /\ new.area = slot.area /\ new.status = slot.status
      /\ new.refs = RefsIn(slot.area) /\ Numbered(slot, acc, old)
  BY <1>1, <1>2 DEF GoodAcc
<1>4. slot \in SlotType
  BY <1>1, <1>2 DEF GoodAcc, AccType
<1>5. slot.area \in Range(Areas)
  BY <1>4 DEF SlotType
<1>6. old[i] \in Task /\ old[i].id \in Nat /\ FirstNewId(old) \in Nat /\ old[i].id < FirstNewId(old)
  BY NewIdsAreNew
<1>7. ~(FirstNewId(old) <= slot.id)
  BY <1>2, <1>3, <1>6
<1>8. PICK k \in DOMAIN old : slot.id = old[k].id /\ slot.status = old[k].status
                              /\ Fit(slot.area, old[k]) > 0
  BY <1>3, <1>7 DEF Numbered
<1>9. k = i
  BY <1>2, <1>3, <1>8
<1>10. /\ old[i].status # "done"
       /\ \/ old[i].area = slot.area \/ RefsIn(slot.area) \cap old[i].refs # {}
          \/ slot.area \in old[i].words
  BY <1>5, <1>6, <1>8, <1>9, FitsAreEarned
<1>11. QED
  BY <1>2, <1>3, <1>8, <1>9, <1>10

-----------------------------------------------------------------------------
(* The steps                                                               *)

\* The graph is typed, and arranged or, where somebody wrote it, sound; the steps
\* that are not a derivation are told from it by their counters.
DiffInv ==
    /\ DiffTypeOK /\ edits \in Nat /\ moves \in Nat
    /\ IF promoted THEN Sound(graph) ELSE Arranged(graph)

\* Whether a graph is sound is settled by its numbers and what they wait for.
LEMMA SameSoundness ==
    ASSUME NEW a, NEW b, DOMAIN a = DOMAIN b, Sound(a),
           \A k \in DOMAIN a : a[k].id = b[k].id /\ a[k].deps = b[k].deps
    PROVE  Sound(b)
<1>1. ASSUME NEW i \in DOMAIN a, NEW S \in SUBSET DOMAIN a
      PROVE  ClosedBefore(a, i, S) <=> ClosedBefore(b, i, S)
  BY DEF ClosedBefore
<1>2. \A i \in DOMAIN a : Before(a, i) = Before(b, i)
  BY <1>1 DEF Before
<1>3. QED
  BY <1>2 DEF Sound

\* Deriving the tasks, or promoting a draft.
LEMMA ReplacingIsSound ==
    ASSUME DiffInv, NEW g \in Seq(Task), NEW authored \in BOOLEAN, Replace(g, authored),
           IF authored THEN Sound(g) ELSE Arranged(g)
    PROVE  DiffInv'
<1>1. SpecTyped /\ DOMAIN spec = Refs
  BY DEF DiffInv, DiffTypeOK, SpecTyped
<1>2. graph' = g /\ promoted' = authored /\ spec' = spec /\ edits' = edits /\ moves' = moves
  BY DEF Replace
<1>3. (graph \in Seq(Task))' /\ (IF promoted THEN Sound(graph) ELSE Arranged(graph))'
  BY <1>2 DEF Arranged, Sound, Before, ClosedBefore
<1>4. DiffTypeOK'
  BY <1>1, <1>2, <1>3 DEF DiffTypeOK, SpecTyped, AreasFor
<1>5. QED
  BY <1>2, <1>3, <1>4 DEF DiffInv

LEMMA DerivingArranges ==
    ASSUME DiffInv, DeriveTasks
    PROVE  DiffInv'
<1>1. SpecTyped /\ graph \in Seq(Task)
  BY DEF DiffInv, DiffTypeOK, SpecTyped
<1>2. PICK new : new = Tasks(graph)
  OBVIOUS
<1>3. new \in Seq(Task) /\ Arranged(new)
  BY <1>1, <1>2, TasksOfSlots
<1>4. Replace(new, FALSE)
  BY <1>2 DEF DeriveTasks
<1>5. QED
  BY <1>3, <1>4, ReplacingIsSound

LEMMA PromotingIsSound ==
    ASSUME DiffInv, NEW draft \in Authored, PromoteDraft(draft)
    PROVE  DiffInv'
<1>1. draft \in Seq(Task) /\ Sound(draft)
  BY AuthoredAssumption
<1>2. Replace(draft, TRUE)
  BY DEF PromoteDraft
<1>3. QED
  BY <1>1, <1>2, ReplacingIsSound

\* Revising the spec.
LEMMA EditingKeepsArrangement ==
    ASSUME DiffInv, NEW ref \in Refs, NEW words \in AreasFor(ref) \cup {"same"}, EditSpec(ref, words)
    PROVE  DiffInv'
<1>1. /\ SpecTyped /\ DOMAIN spec = Refs /\ graph \in Seq(Task) /\ promoted \in BOOLEAN
      /\ edits \in Nat /\ moves \in Nat
  BY DEF DiffInv, DiffTypeOK, SpecTyped
<1>2. spec' = [spec EXCEPT ![ref] = words] /\ edits' = edits + 1 /\ moves' = moves
      /\ graph' = graph /\ promoted' = promoted
  BY DEF EditSpec
<1>3. DOMAIN spec' = Refs /\ \A r \in Refs : spec'[r] \in AreasFor(r) \cup {"same"}
  BY <1>1, <1>2 DEF SpecTyped
<1>4. (IF promoted THEN Sound(graph) ELSE Arranged(graph))'
  BY <1>2 DEF DiffInv, Arranged, Sound, Before, ClosedBefore
<1>5. DiffTypeOK'
  BY <1>1, <1>2, <1>3 DEF DiffTypeOK, AreasFor
<1>6. QED
  BY <1>1, <1>2, <1>4, <1>5 DEF DiffInv

\* Moving a task leaves what it plans and waits for.
LEMMA MovingKeepsArrangement ==
    ASSUME DiffInv, NEW i \in DOMAIN graph, NEW from, NEW to \in Status, Move(i, from, to)
    PROVE  DiffInv'
<1>1. DiffTypeOK /\ graph \in Seq(Task) /\ edits \in Nat /\ moves \in Nat
  BY DEF DiffInv, DiffTypeOK
<1>2. PICK old, new : old = graph /\ new = graph'
  OBVIOUS
<1>3. PICK n \in Nat : n = Len(old) /\ DOMAIN old = 1 .. n
  BY <1>1, <1>2
<1>4. /\ new = [old EXCEPT ![i].status = to] /\ promoted' = promoted
      /\ moves' = moves + 1 /\ edits' = edits /\ spec' = spec
  BY <1>2 DEF Move
<1>5. ASSUME NEW k \in 1 .. n
      PROVE  /\ new[k] \in Task
             /\ new[k].id = old[k].id /\ new[k].area = old[k].area
             /\ new[k].deps = old[k].deps /\ new[k].words = old[k].words
  <2>1. PICK t \in Task : t = old[k]
    BY <1>1, <1>2, <1>3
  <2>2. CASE k = i
    <3>1. new[k] = [t EXCEPT !.status = to]
      BY <1>3, <1>4, <2>1, <2>2
    <3>2. QED
      BY <2>1, <3>1 DEF Task, Status
  <2>3. CASE k # i
    <3>1. new[k] = old[k]
      BY <1>3, <1>4, <2>3
    <3>2. QED
      BY <2>1, <3>1
  <2>4. QED
    BY <2>2, <2>3
<1>6. new \in Seq(Task) /\ DOMAIN new = 1 .. n
  <2>1. new = [k \in 1 .. n |-> new[k]]
    BY <1>3, <1>4
  <2>2. QED
    BY <1>5, <2>1, IsASeq
<1>7. IF promoted THEN Sound(new) ELSE Arranged(new)
  <2>1. CASE promoted
    <3>1. Sound(old)
      BY <1>2, <2>1 DEF DiffInv
    <3>2. \A k \in DOMAIN old : old[k].id = new[k].id /\ old[k].deps = new[k].deps
      BY <1>3, <1>5
    <3>3. QED
      BY <1>3, <1>6, <2>1, <3>1, <3>2, SameSoundness
  <2>2. CASE ~promoted
    <3>1. Arranged(old)
      BY <1>2, <2>2 DEF DiffInv
    <3>2. \A k \in 1 .. n : Dependencies(old[k], old) = Dependencies(new[k], new)
      BY <1>3, <1>5, <1>6, SameDependencies
    <3>3. QED
      BY <1>3, <1>5, <1>6, <2>2, <3>1, <3>2 DEF Arranged
  <2>3. QED
    BY <2>1, <2>2
<1>8. (graph \in Seq(Task))' /\ (IF promoted THEN Sound(graph) ELSE Arranged(graph))'
  <2>1. (graph \in Seq(Task))' /\ promoted' = promoted
    BY <1>2, <1>4, <1>6
  <2>2. Sound(new) => Sound(graph)'
    BY <1>2 DEF Sound, Before, ClosedBefore
  <2>3. Arranged(new) => Arranged(graph)'
    BY <1>2 DEF Arranged
  <2>4. QED
    BY <1>7, <2>1, <2>2, <2>3
<1>9. DiffTypeOK'
  BY <1>1, <1>4, <1>8 DEF DiffTypeOK, AreasFor
<1>10. QED
  BY <1>1, <1>4, <1>8, <1>9 DEF DiffInv

\* Every step keeps the invariant.
LEMMA DiffStep ==
    ASSUME DiffInv, DiffNext \/ UNCHANGED diffVars
    PROVE  DiffInv'
<1>1. CASE DeriveTasks \/ \E draft \in Authored : PromoteDraft(draft)
  BY <1>1, DerivingArranges, PromotingIsSound
<1>2. CASE \E ref \in Refs : \E words \in AreasFor(ref) \cup {"same"} : EditSpec(ref, words)
  BY <1>2, EditingKeepsArrangement
<1>3. CASE \E i \in DOMAIN graph : StartTask(i) \/ FinishTask(i) \/ BlockTask(i) \/ ReopenTask(i)
  <2>1. PICK i \in DOMAIN graph : StartTask(i) \/ FinishTask(i) \/ BlockTask(i) \/ ReopenTask(i)
    BY <1>3
  <2>2. \E from, to : to \in Status /\ Move(i, from, to)
    BY <2>1 DEF StartTask, FinishTask, BlockTask, ReopenTask, Status
  <2>3. QED
    BY <2>2, MovingKeepsArrangement
<1>4. CASE UNCHANGED diffVars
  <2>1. /\ spec' = spec /\ graph' = graph /\ promoted' = promoted
        /\ edits' = edits /\ moves' = moves
    BY <1>4 DEF diffVars
  <2>2. (IF promoted THEN Sound(graph) ELSE Arranged(graph))'
    BY <2>1 DEF DiffInv, Arranged, Sound, Before, ClosedBefore
  <2>3. QED
    BY <2>1, <2>2 DEF DiffInv, DiffTypeOK, AreasFor
<1>5. QED
  BY <1>1, <1>2, <1>3, <1>4 DEF DiffNext

\* At first there is no graph.
LEMMA DiffStarts ==
    ASSUME DiffInit
    PROVE  DiffInv
<1>1. /\ spec = [r \in Refs |-> "same"] /\ graph = << >> /\ promoted = FALSE
      /\ edits = 0 /\ moves = 0
  BY DEF DiffInit
<1>2. graph \in Seq(Task) /\ DOMAIN graph = {}
  BY <1>1, EmptySeq
<1>3. QED
  BY <1>1, <1>2 DEF DiffInv, DiffTypeOK, Arranged

-----------------------------------------------------------------------------
(* What the graph is good for                                              *)

\* Verification waits for all others, and they for the requirements.
LEMMA WaitsFor ==
    ASSUME DiffInv, ~promoted, NEW i \in DOMAIN graph, NEW j \in DOMAIN graph
    PROVE  graph[j].id \in graph[i].deps <=>
             \/ graph[i].area = "verification" /\ j # i
             \/ /\ graph[i].area \notin {"verification", "requirements"}
                /\ graph[j].area = "requirements"
<1>1. PICK g : g = graph
  OBVIOUS
<1>2. /\ \A k \in DOMAIN g : g[k].area \in Range(Areas)
      /\ \A m, n \in DOMAIN g : (g[m].id = g[n].id => m = n) /\ (g[m].area = g[n].area => m = n)
      /\ g[i].deps = Dependencies(g[i], g)
  BY <1>1 DEF DiffInv, Arranged
<1>3. \A areas : g[j].id \in IdsIn(areas, g) <=> g[j].area \in areas
  BY <1>1, <1>2 DEF IdsIn
<1>4. CASE g[i].area = "verification"
  <2>1. g[i].deps = IdsIn(Range(Areas) \ {"verification"}, g) \ {g[i].id}
    BY <1>2, <1>4 DEF Dependencies
  <2>2. QED
    BY <1>1, <1>2, <1>3, <1>4, <2>1
<1>5. CASE g[i].area = "requirements"
  <2>1. g[i].deps = {}
    BY <1>2, <1>5 DEF Dependencies
  <2>2. QED
    BY <1>1, <1>5, <2>1
<1>6. CASE g[i].area \notin {"verification", "requirements"}
  <2>1. g[i].deps = IdsIn({"requirements"}, g) \ {g[i].id}
    BY <1>2, <1>6 DEF Dependencies
  <2>2. QED
    BY <1>1, <1>2, <1>3, <1>6, <2>1
<1>7. QED
  BY <1>4, <1>5, <1>6

\* So no task of a derived graph waits for itself, at any remove.
LEMMA ArrangedIsSound ==
    ASSUME DiffInv
    PROVE  GraphIsSound
<1>1. CASE promoted
  BY <1>1 DEF DiffInv, GraphIsSound
<1>2. CASE ~promoted
  <2>1. \A i, j \in DOMAIN graph :
           /\ graph[i].id = graph[j].id => i = j
           /\ graph[i].area = graph[j].area => i = j
    BY <1>2 DEF DiffInv, Arranged
  <2>2. ASSUME NEW i \in DOMAIN graph
        PROVE  i \notin Before(graph, i)
    <3> DEFINE S == {j \in DOMAIN graph :
                       \/ graph[i].area = "verification" /\ graph[j].area # "verification"
                       \/ /\ graph[i].area \notin {"verification", "requirements"}
                          /\ graph[j].area = "requirements"}
    <3>1. S \in SUBSET DOMAIN graph /\ i \notin S
      OBVIOUS
    <3>2. ASSUME NEW j \in DOMAIN graph, graph[j].id \in graph[i].deps
          PROVE  j \in S
      BY <1>2, <2>1, <3>2, WaitsFor
    <3>3. ASSUME NEW j \in DOMAIN graph, NEW k \in S, graph[j].id \in graph[k].deps
          PROVE  j \in S
      <4>1. k \in DOMAIN graph
        OBVIOUS
      <4>2. \/ graph[k].area = "verification" /\ j # k
            \/ /\ graph[k].area \notin {"verification", "requirements"}
               /\ graph[j].area = "requirements"
        BY <1>2, <3>3, <4>1, WaitsFor
      <4>3. QED
        BY <4>2
    <3> HIDE DEF S
    <3>4. ClosedBefore(graph, i, S)
      BY <3>2, <3>3 DEF ClosedBefore
    <3>5. QED
      BY <3>1, <3>4 DEF Before
  <2>3. ASSUME NEW i \in DOMAIN graph, NEW j \in DOMAIN graph,
               graph[i].area = "verification", i # j
        PROVE  j \in Before(graph, i)
    <3>1. graph[j].id \in graph[i].deps
      BY <1>2, <2>3, WaitsFor
    <3>2. QED
      BY <3>1 DEF Before, ClosedBefore
  <2>4. QED
    BY <2>1, <2>2, <2>3 DEF GraphIsSound, Sound
<1>3. QED
  BY <1>1, <1>2

\* The invariant holds in every state.
LEMMA TasksStayArranged == DiffSpec => []DiffInv
<1>1. DiffInit => DiffInv
  BY DiffStarts
<1>2. DiffInv /\ [DiffNext]_diffVars => DiffInv'
  BY DiffStep
<1>3. QED
  BY <1>1, <1>2, PTL DEF DiffSpec

\* A step that leaves the moves and the edits derives the tasks or nothing.
LEMMA OnlyDerivations ==
    ASSUME DiffInv, DiffNext, Derived
    PROVE  graph' = Tasks(graph) /\ spec' = spec
<1>1. edits \in Nat /\ moves \in Nat /\ moves' = moves /\ edits' = edits /\ ~promoted'
  BY DEF DiffInv, Derived
<1>2. \A ref, words : ~EditSpec(ref, words)
  BY <1>1 DEF EditSpec
<1>3. \A i, from, to : ~Move(i, from, to)
  BY <1>1 DEF Move
<1>4. \A i : ~(StartTask(i) \/ FinishTask(i) \/ BlockTask(i) \/ ReopenTask(i))
  BY <1>3 DEF StartTask, FinishTask, BlockTask, ReopenTask
<1>5. \A draft : ~PromoteDraft(draft)
  BY <1>1 DEF PromoteDraft, Replace
<1>6. DeriveTasks
  BY <1>2, <1>4, <1>5 DEF DiffNext
<1>7. QED
  BY <1>6 DEF DeriveTasks, Replace

\* The task graph that p2a_iteration diff-tasks derives is without cycles, has
\* distinct ids, verifies last, and plans every change of the approved spec in
\* exactly one task, whether it replaces one it derived or a draft that was promoted
\* (diffTasks and promoteTasks, p2a_iteration.mjs).
THEOREM TasksPlanEveryChange == DiffSpec => EveryChangeIsPlanned
<1>1. DiffInv => GraphIsSound
  BY ArrangedIsSound
<1>2. ASSUME DiffInv, [DiffNext]_diffVars
      PROVE  [Derived =>
                /\ \A r \in Changed : Cardinality({i \in DOMAIN graph' : r \in graph'[i].refs}) = 1
                /\ \A i \in DOMAIN graph' :
                     graph'[i].refs \subseteq Changed \cup {"verification", "questions"}]_diffVars
  <2>1. CASE DiffNext /\ Derived
    <3>1. PICK old, new : old = graph /\ new = graph'
      OBVIOUS
    <3>2. new = Tasks(old) /\ old \in Seq(Task) /\ SpecTyped
      BY <1>2, <2>1, <3>1, OnlyDerivations DEF DiffInv, DiffTypeOK, SpecTyped
    <3>3. /\ \A r \in Changed : Cardinality({i \in DOMAIN new : r \in new[i].refs}) = 1
          /\ \A i \in DOMAIN new : new[i].refs \subseteq Changed \cup {"verification", "questions"}
      BY <3>2, ChangesArePlanned
    <3>4. QED
      BY <3>1, <3>3
  <2>2. QED
    BY <1>2, <2>1
<1>3. QED
  BY <1>1, <1>2, TasksStayArranged, PTL DEF DiffSpec, EveryChangeIsPlanned, ChangesArePlannedOnce

\* Deriving again gives the number of an old task only to work it fits, as far
\* along, and never that of finished work; a task somebody wrote fits also by its
\* title alone (reusableTaskScore and reuse of tasks in buildDiffTasks,
\* p2a_iteration.mjs).
THEOREM NumbersAreKept == DiffSpec => NumbersKeepTheirWork
<1>1. ASSUME DiffInv, [DiffNext]_diffVars
      PROVE  [Derived =>
               \A i \in DOMAIN graph, j \in DOMAIN graph' :
                 graph[i].id = graph'[j].id =>
                   /\ \/ graph[i].area = graph'[j].area \/ graph[i].refs \cap graph'[j].refs # {}
                      \/ promoted /\ graph'[j].area \in graph[i].words
                   /\ graph[i].status = graph'[j].status /\ graph[i].status # "done"]_diffVars
  <2>1. CASE DiffNext /\ Derived
    <3>1. PICK old, new : old = graph /\ new = graph'
      OBVIOUS
    <3>2. new = Tasks(old) /\ old \in Seq(Task) /\ SpecTyped
      BY <1>1, <2>1, <3>1, OnlyDerivations DEF DiffInv, DiffTypeOK, SpecTyped
    <3>3. \A m, n \in DOMAIN old : old[m].id = old[n].id => m = n
      BY <1>1, <3>1 DEF DiffInv, Arranged, Sound
    <3>4. ASSUME NEW i \in DOMAIN old, ~promoted
          PROVE  old[i].words \subseteq {old[i].area}
      BY <1>1, <3>1, <3>4 DEF DiffInv, Arranged
    <3>5. \A i \in DOMAIN old, j \in DOMAIN new :
            old[i].id = new[j].id =>
              /\ \/ old[i].area = new[j].area \/ old[i].refs \cap new[j].refs # {}
                 \/ new[j].area \in old[i].words
              /\ old[i].status = new[j].status /\ old[i].status # "done"
      BY <3>2, <3>3, NumbersStay
    <3>6. QED
      BY <3>1, <3>4, <3>5
  <2>2. QED
    BY <1>1, <2>1
<1>2. QED
  BY <1>1, TasksStayArranged, PTL DEF DiffSpec, NumbersKeepTheirWork
=============================================================================
