----------------------------- MODULE TaskRunsProofs ----------------------------
(***************************************************************************)
(* What the files of the runs may be relied on for, whatever the number of *)
(* tasks, runs and interruptions: they agree, and no task becomes done     *)
(* that did not pass its gate.                                             *)
(***************************************************************************)
EXTENDS TaskRuns, TLAPS

Statuses   == {None} \cup RunStatuses
Graphs     == [Tasks -> TaskStatuses]
Indexes    == [RunIds -> Statuses]
Commands   == {None, "start", "done", "block", "todo"}
Pcs        == {"createRun", "attachPlan", "initRuntime", "readGraph", "writeGraph",
               "readIndex", "writeIndex", "verify", "finishRun", "updateRuntime"}
RunFiles   == {NoRun} \cup [task : Tasks, status : RunStatuses, failedCheck : BOOLEAN]
Requestable == {None, "finished", "failed", "blocked"}
ProcessesAt(pcs) ==
    [pc : pcs, task : Tasks, underWay : BOOLEAN, requested : Requestable, classed : BOOLEAN,
     checkFailed : BOOLEAN, then : {None, "attachPlan", "finishRun", "updateRuntime", "exit"},
     index : {NotRead} \cup Indexes, graph : {NotRead} \cup Graphs, command : Commands]
Processes   == ProcessesAt(Pcs)

Typed ==
    /\ graph \in Graphs
    /\ runs \in [RunIds -> RunFiles]
    /\ index \in Indexes
    /\ sidecar \in [RunIds -> {None, "open", "gated"}]
    /\ runtime = [r \in RunIds |-> runtime[r]]
    /\ verdict \in [RunIds -> {None, "confirm_done", "rejected"}]
    /\ call = [r \in RunIds |-> call[r]]
    /\ upsets \in Nat

-----------------------------------------------------------------------------
(* What is never undone                                                    *)

Ended(r)    == runs[r].status \notin {None, "started"}
GateOpen(r) == sidecar[r] = "gated" /\ ~runs[r].failedCheck => verdict[r] = "confirm_done"

\* A task that is done in a graph had a run that ended behind its gate; with
\* nothing done by hand, one that is in progress has a run.
GraphOK(g) ==
    \A t \in Tasks :
        /\ g[t] = "done" => \E r \in RunIds : runs[r].task = t /\ Ended(r) /\ GateOpen(r)
        /\ upsets = 0 /\ g[t] = "in_progress" => \E r \in RunIds : runs[r].task = t

\* An index names runs that exist, and calls none ended that has not.
IndexOK(i) ==
    \A r \in RunIds :
        /\ i[r] # None => runs[r] # NoRun
        /\ i[r] \notin {None, "started"} => Ended(r)

\* How the files of a run may change: what was read of them stays true.
Grows ==
    /\ upsets' = 0 => upsets = 0
    /\ \A r \in RunIds :
           /\ runs[r] # NoRun => runs'[r] # NoRun /\ runs'[r].task = runs[r].task
           /\ Ended(r) => Ended(r)'
           /\ Ended(r) /\ GateOpen(r) => GateOpen(r)'

\* A step of the owner of r leaves the files of the other runs.
Others(r) ==
    \A q \in RunIds \ {r} :
        /\ runs'[q] = runs[q] /\ sidecar'[q] = sidecar[q]
        /\ runtime'[q] = runtime[q] /\ verdict'[q] = verdict[q]

-----------------------------------------------------------------------------
(* The files and the process of one run                                    *)

\* A finished run is past its gate, and a closed runtime is that of a finished run.
RunOK(r) ==
    /\ runs[r].status = "finished" => GateOpen(r)
    /\ runtime[r] = NoRuntime \/ ValidRuntime(runtime[r])
    /\ runtime[r].phase = "closed" => runs[r].status = "finished"

\* Between the creation of the run and the transition of its task.
Starting(p) == \/ p.pc \in {"attachPlan", "initRuntime"}
               \/ p.pc \in {"readIndex", "writeIndex"} /\ p.then = "attachPlan"

\* What a process of the owner of r knows of the files: the run is the one of its
\* task from the moment there is one, "done" is said for a finished run only, a
\* closed runtime has no process that could still change the run, and what it
\* holds of the graph and the index is as good as the files.
ProcessOK(r, p) ==
    /\ p = Idle \/ p \in Processes
    /\ runtime[r].phase = "closed" => p.pc \in {"idle", "createRun", "readGraph", "writeGraph"}
    /\ Starting(p) => runs[r].status = "started"
    /\ p.pc \in {"attachPlan", "initRuntime", "readIndex", "writeIndex", "verify",
                 "finishRun", "updateRuntime"} => runs[r].task = p.task /\ runs[r] # NoRun
    /\ p.pc \in {"readIndex", "writeIndex"} => p.then # None
    /\ p # Idle /\ p.checkFailed => runs[r].failedCheck
    /\ p.pc \in {"readGraph", "writeGraph"} /\ p.command = "done" =>
           runs[r].task = p.task /\ runs[r].status = "finished"
    /\ p.pc \in {"readGraph", "writeGraph"} /\ p.command = "start" /\ upsets = 0 =>
           runs[r].task = p.task
    /\ p.pc \in {"readGraph", "writeGraph"} => p.command # None
    /\ p.pc = "writeGraph" => p.graph \in Graphs /\ GraphOK(p.graph)
    /\ p.pc = "writeIndex" => p.index \in Indexes /\ IndexOK(p.index)

IInv ==
    /\ Typed
    /\ GraphOK(graph)
    /\ IndexOK(index)
    /\ \A r \in RunIds : RunOK(r) /\ ProcessOK(r, call[r])

-----------------------------------------------------------------------------
(* What grows stays true                                                   *)

\* A graph that was read stays good while runs only grow.
LEMMA GraphKeeps ==
    ASSUME Typed, Grows, NEW g, GraphOK(g)
    PROVE  GraphOK(g)'
<1> SUFFICES ASSUME NEW t \in Tasks
             PROVE  /\ g[t] = "done" => (\E r \in RunIds :
                                           runs[r].task = t /\ Ended(r) /\ GateOpen(r))'
                    /\ upsets' = 0 /\ g[t] = "in_progress" =>
                           \E r \in RunIds : runs'[r].task = t
  BY DEF GraphOK
<1>1. \A r \in RunIds : runs[r].task = t => runs[r] # NoRun
  BY Shape DEF NoRun
<1>2. ASSUME g[t] = "done"
      PROVE  (\E r \in RunIds : runs[r].task = t /\ Ended(r) /\ GateOpen(r))'
  <2>1. PICK r \in RunIds : runs[r].task = t /\ Ended(r) /\ GateOpen(r)
    BY <1>2 DEF GraphOK
  <2>2. runs'[r].task = t /\ Ended(r)' /\ GateOpen(r)'
    BY <1>1, <2>1 DEF Grows
  <2> QED
    BY <2>2
<1>3. ASSUME upsets' = 0, g[t] = "in_progress"
      PROVE  \E r \in RunIds : runs'[r].task = t
  BY <1>1, <1>3 DEF GraphOK, Grows
<1>4. QED
  BY <1>2, <1>3

\* An index that was read stays good while runs only grow.
LEMMA IndexKeeps ==
    ASSUME Grows, NEW i, IndexOK(i)
    PROVE  IndexOK(i)'
BY DEF Grows, IndexOK

\* A process is as good as before, if the run it is about is what it was.
LEMMA ProcessKeeps ==
    ASSUME Typed, Grows, NEW r \in RunIds, NEW p, ProcessOK(r, p),
           runs'[r] = runs[r], runtime'[r] = runtime[r]
    PROVE  ProcessOK(r, p)'
<1>1. p.pc = "writeGraph" => GraphOK(p.graph)'
  <2> DEFINE g == p.graph
  <2> HIDE DEF g
  <2>1. GraphOK(g) => GraphOK(g)'
    BY GraphKeeps
  <2> QED
    BY <2>1 DEF ProcessOK, g
<1>2. p.pc = "writeIndex" => IndexOK(p.index)'
  <2> DEFINE i == p.index
  <2> HIDE DEF i
  <2>1. IndexOK(i) => IndexOK(i)'
    BY IndexKeeps
  <2> QED
    BY <2>1 DEF ProcessOK, i
<1>3. upsets' = 0 => upsets = 0
  BY DEF Grows
<1>4. QED
  BY <1>1, <1>2, <1>3 DEF ProcessOK

\* One step of one owner, whose process becomes p.
LEMMA OneOwner ==
    ASSUME IInv, NEW r \in RunIds, NEW p, call' = [call EXCEPT ![r] = p],
           Typed', Grows, Others(r),
           RunOK(r)', ProcessOK(r, p)', GraphOK(graph)', IndexOK(index)'
    PROVE  IInv'
<1>1. call'[r] = p /\ \A q \in RunIds \ {r} : call'[q] = call[q]
  BY DEF IInv, Typed
<1>2. ASSUME NEW q \in RunIds \ {r}
      PROVE  RunOK(q)' /\ ProcessOK(q, call[q])'
  <2>1. /\ runs'[q] = runs[q] /\ sidecar'[q] = sidecar[q]
        /\ runtime'[q] = runtime[q] /\ verdict'[q] = verdict[q]
    BY DEF Others
  <2>2. RunOK(q) /\ ProcessOK(q, call[q]) /\ Typed
    BY DEF IInv
  <2>3. RunOK(q)'
    BY <2>1, <2>2 DEF RunOK, GateOpen
  <2>4. PICK c : c = call[q]
    OBVIOUS
  <2>5. ProcessOK(q, c)'
    BY <2>1, <2>2, <2>4, ProcessKeeps
  <2>6. c = call'[q]
    BY <1>1, <2>4
  <2> QED
    BY <2>3, <2>5, <2>6
<1>3. ProcessOK(r, call[r])'
  BY <1>1
<1>4. QED
  BY <1>2, <1>3 DEF IInv

\* A step that touches no file but may count one more interruption.
LEMMA OnlyProcess ==
    ASSUME IInv, NEW r \in RunIds, NEW p, call' = [call EXCEPT ![r] = p], ProcessOK(r, p),
           UNCHANGED <<graph, runs, index, sidecar, runtime, verdict>>,
           upsets' \in {upsets, upsets + 1}
    PROVE  IInv'
<1>1. Typed /\ RunOK(r) /\ GraphOK(graph) /\ IndexOK(index)
  BY DEF IInv
<1>2. Typed'
  <2>1. call' = [q \in RunIds |-> call'[q]]
    BY <1>1 DEF Typed
  <2>2. upsets' \in Nat
    BY <1>1 DEF Typed
  <2> QED
    BY <1>1, <2>1, <2>2 DEF Typed
<1>3. Grows
  <2>1. upsets' = 0 => upsets = 0
    BY <1>1 DEF Typed
  <2> QED
    BY <2>1 DEF Grows, Ended, GateOpen
<1>4. Others(r)
  BY DEF Others
<1>5. RunOK(r)'
  BY <1>1 DEF RunOK, GateOpen
<1>6. ProcessOK(r, p)'
  BY <1>1, <1>3, ProcessKeeps
<1>7. GraphOK(graph)'
  <2>1. PICK g : g = graph
    OBVIOUS
  <2>2. GraphOK(g)'
    BY <1>1, <1>3, <2>1, GraphKeeps
  <2> QED
    BY <2>1, <2>2
<1>8. IndexOK(index)'
  <2>1. PICK i : i = index
    OBVIOUS
  <2>2. IndexOK(i)'
    BY <1>1, <1>3, <2>1, IndexKeeps
  <2> QED
    BY <2>1, <2>2
<1>9. QED
  BY <1>2, <1>3, <1>4, <1>5, <1>6, <1>7, <1>8, OneOwner

\* An idle process has read nothing.
LEMMA IdleIsOK ==
    ASSUME NEW r
    PROVE  ProcessOK(r, Idle)
BY DEF ProcessOK, Idle, Starting

\* The invariant holds at the start.
LEMMA InitSound ==
    ASSUME Init
    PROVE  IInv
<1>1. Typed
  BY DEF Init, Typed, Graphs, TaskStatuses, RunFiles, Indexes, Statuses
<1>2. GraphOK(graph) /\ IndexOK(index)
  BY DEF Init, GraphOK, IndexOK
<1>3. ASSUME NEW r \in RunIds
      PROVE  RunOK(r) /\ ProcessOK(r, call[r])
  <2>1. runs[r] = NoRun /\ runtime[r] = NoRuntime /\ call[r] = Idle
    BY DEF Init
  <2>2. RunOK(r)
    BY <2>1 DEF RunOK, NoRun, NoRuntime, None
  <2> QED
    BY <2>1, <2>2, IdleIsOK
<1>4. QED
  BY <1>1, <1>2, <1>3 DEF IInv

\* The process of a run that is at one of its steps is one of those known.
LEMMA AtIsProcess ==
    ASSUME IInv, NEW r \in RunIds, NEW pc \in Pcs, At(r, pc)
    PROVE  /\ call[r] \in Processes /\ call[r] # Idle /\ call[r].pc = pc
           /\ Typed /\ RunOK(r) /\ ProcessOK(r, call[r]) /\ GraphOK(graph) /\ IndexOK(index)
BY DEF IInv, At, ProcessOK, Idle, Pcs

-----------------------------------------------------------------------------
(* p2a_tasks                                                               *)

\* Reading the graph keeps the invariant.
LEMMA ReadGraphStep ==
    ASSUME IInv, NEW r \in RunIds, ReadGraph(r)
    PROVE  IInv'
<1> DEFINE p == call[r]
<1>1. /\ p \in Processes /\ p # Idle /\ p.pc = "readGraph"
      /\ Typed /\ ProcessOK(r, p) /\ GraphOK(graph)
  BY AtIsProcess DEF ReadGraph, Pcs
<1>2. PICK n : n = IF MayTransition(graph, p.task, p.command)
                     THEN [p EXCEPT !.pc = "writeGraph", !.graph = graph] ELSE Idle
  OBVIOUS
<1>3. call' = [call EXCEPT ![r] = n]
  BY <1>1, <1>2 DEF ReadGraph, Exit
<1>4. ProcessOK(r, n)
  <2>1. CASE n = Idle
    BY <2>1, IdleIsOK
  <2>2. CASE n = [p EXCEPT !.pc = "writeGraph", !.graph = graph]
    <3>1. n \in Processes /\ graph \in Graphs
      BY <1>1, <2>2 DEF Processes, ProcessesAt, Requestable, Pcs, Typed
    <3>2. /\ n.pc = "writeGraph" /\ n.graph = graph
          /\ n.task = p.task /\ n.command = p.command
          /\ n.checkFailed = p.checkFailed /\ n.then = p.then
      BY <1>1, <2>2 DEF Processes, ProcessesAt, Requestable
    <3> QED
      BY <1>1, <3>1, <3>2 DEF ProcessOK, Starting
  <2> QED
    BY <1>2, <2>1, <2>2
<1>5. QED
  BY <1>3, <1>4, OnlyProcess DEF ReadGraph

\* The graph that was read, with one task changed, says nothing that is not so.
LEMMA WriteGraphStep ==
    ASSUME IInv, NEW r \in RunIds, WriteGraph(r)
    PROVE  IInv'
<1> DEFINE p == call[r]
<1>1. /\ p \in Processes /\ p # Idle /\ p.pc = "writeGraph"
      /\ Typed /\ RunOK(r) /\ ProcessOK(r, p) /\ IndexOK(index)
  BY AtIsProcess DEF WriteGraph, Pcs
<1>2. /\ call' = [call EXCEPT ![r] = Idle]
      /\ graph' = [p.graph EXCEPT ![p.task] = StatusAfter(p.command)]
      /\ UNCHANGED <<runs, index, sidecar, runtime, verdict, upsets>>
  BY DEF WriteGraph, Exit
<1>3. p.task \in Tasks /\ p.graph \in Graphs /\ GraphOK(p.graph) /\ p.command \in Commands
  BY <1>1 DEF ProcessOK, Processes, ProcessesAt, Requestable
<1>4. p.command # None
  BY <1>1 DEF ProcessOK
<1>5. StatusAfter(p.command) \in TaskStatuses
  BY <1>3, <1>4 DEF StatusAfter, Commands, TaskStatuses, None
<1>6. /\ StatusAfter(p.command) = "done" => p.command = "done"
      /\ StatusAfter(p.command) = "in_progress" => p.command = "start"
  BY <1>3, <1>4 DEF StatusAfter, Commands, None
<1>7. graph' \in Graphs
  BY <1>2, <1>3, <1>5 DEF Graphs
<1>8. Typed'
  <2>1. call' = [q \in RunIds |-> call'[q]]
    BY <1>1, <1>2 DEF Typed
  <2> QED
    BY <1>1, <1>2, <1>7, <2>1 DEF Typed
<1>9. Grows
  BY <1>2 DEF Grows, Ended, GateOpen
<1>10. Others(r)
  BY <1>2 DEF Others
<1>11. RunOK(r)' /\ ProcessOK(r, Idle)'
  BY <1>1, <1>2 DEF RunOK, GateOpen, ProcessOK, Idle, Starting
<1>12. ASSUME NEW t \in Tasks
       PROVE  /\ graph'[t] = "done" =>
                   \E q \in RunIds : runs[q].task = t /\ Ended(q) /\ GateOpen(q)
              /\ upsets = 0 /\ graph'[t] = "in_progress" => \E q \in RunIds : runs[q].task = t
  <2>1. CASE t # p.task
    <3>1. graph'[t] = p.graph[t]
      BY <1>2, <1>3, <2>1 DEF Graphs
    <3> QED
      BY <1>3, <3>1 DEF GraphOK
  <2>2. CASE t = p.task
    <3>1. graph'[t] = StatusAfter(p.command)
      BY <1>2, <1>3, <2>2 DEF Graphs
    <3>2. p.command = "done" => runs[r].task = t /\ Ended(r) /\ GateOpen(r)
      BY <1>1, <2>2 DEF ProcessOK, RunOK, Ended, None
    <3>3. p.command = "start" /\ upsets = 0 => runs[r].task = t
      BY <1>1, <2>2 DEF ProcessOK
    <3> QED
      BY <1>6, <3>1, <3>2, <3>3
  <2> QED
    BY <2>1, <2>2
<1>13. GraphOK(graph)' /\ IndexOK(index)'
  BY <1>1, <1>2, <1>12 DEF GraphOK, IndexOK, Ended, GateOpen
<1>14. QED
  BY <1>2, <1>8, <1>9, <1>10, <1>11, <1>13, OneOwner

\* A task command keeps it.
LEMMA TaskCommandStep ==
    ASSUME IInv, NEW r \in RunIds, NEW t \in Tasks, NEW command \in {"todo", "start", "block"},
           TaskCommand(r, t, command)
    PROVE  IInv'
<1> DEFINE n == [Process("readGraph", t, FALSE, None, FALSE) EXCEPT !.command = command]
<1>1. /\ call' = [call EXCEPT ![r] = n] /\ upsets' = upsets + 1
      /\ UNCHANGED <<graph, runs, index, sidecar, runtime, verdict>>
  BY DEF TaskCommand
<1>2. Typed /\ RunOK(r) /\ GraphOK(graph) /\ IndexOK(index)
  BY DEF IInv
<1>3. /\ n \in Processes /\ n.pc = "readGraph" /\ n.command = command
      /\ n.checkFailed = FALSE /\ command # None
  BY DEF Process, Processes, ProcessesAt, Requestable, Pcs, Commands, None
<1> HIDE DEF n
<1>4. Grows
  BY <1>1, <1>2 DEF Grows, Ended, GateOpen, Typed
<1>5. upsets' # 0 /\ Typed'
  <2>1. call' = [q \in RunIds |-> call'[q]]
    BY <1>1, <1>2 DEF Typed
  <2> QED
    BY <1>1, <1>2, <2>1 DEF Typed
<1>6. RunOK(r)' /\ Others(r) /\ IndexOK(index)'
  BY <1>1, <1>2 DEF RunOK, GateOpen, Others, IndexOK, Ended
<1>7. ProcessOK(r, n)'
  BY <1>3, <1>5 DEF ProcessOK, Starting
<1>8. GraphOK(graph)'
  BY <1>1, <1>2, <1>5 DEF GraphOK, Ended, GateOpen
<1>9. QED
  BY <1>1, <1>4, <1>5, <1>6, <1>7, <1>8, OneOwner

-----------------------------------------------------------------------------
(* p2a_runs                                                                *)

\* Reading the index keeps it.
LEMMA ReadIndexStep ==
    ASSUME IInv, NEW r \in RunIds, ReadIndex(r)
    PROVE  IInv'
<1> DEFINE p == call[r]
<1>1. /\ p \in Processes /\ p # Idle /\ p.pc = "readIndex"
      /\ Typed /\ ProcessOK(r, p) /\ IndexOK(index)
  BY AtIsProcess DEF ReadIndex, Pcs
<1>2. PICK n : n = [p EXCEPT !.pc = "writeIndex", !.index = index]
  OBVIOUS
<1>3. call' = [call EXCEPT ![r] = n]
  BY <1>1, <1>2 DEF ReadIndex
<1>4. ProcessOK(r, n)
  <2>1. n \in Processes /\ index \in Indexes
    BY <1>1, <1>2 DEF Processes, ProcessesAt, Requestable, Pcs, Typed
  <2>2. /\ n.pc = "writeIndex" /\ n.index = index /\ n.task = p.task
        /\ n.checkFailed = p.checkFailed /\ n.then = p.then
    BY <1>1, <1>2 DEF Processes, ProcessesAt, Requestable
  <2> QED
    BY <1>1, <2>1, <2>2 DEF ProcessOK, Starting
<1>5. QED
  BY <1>3, <1>4, OnlyProcess DEF ReadIndex

\* Writing the index keeps it: the run is there and as far as the entry says.
LEMMA WriteIndexStep ==
    ASSUME IInv, NEW r \in RunIds, WriteIndex(r)
    PROVE  IInv'
<1> DEFINE p == call[r]
<1>1. /\ p \in Processes /\ p # Idle /\ p.pc = "writeIndex"
      /\ Typed /\ RunOK(r) /\ ProcessOK(r, p) /\ GraphOK(graph)
  BY AtIsProcess DEF WriteIndex, Pcs
<1>2. PICK n : n = IF p.then = "exit" THEN Idle
                   ELSE [p EXCEPT !.pc = p.then, !.then = None, !.index = NotRead]
  OBVIOUS
<1>3. /\ call' = [call EXCEPT ![r] = n]
      /\ index' = [p.index EXCEPT ![r] = runs[r].status]
      /\ UNCHANGED <<graph, runs, sidecar, runtime, verdict, upsets>>
  BY <1>1, <1>2 DEF WriteIndex, Exit
<1>4. p.then \in {"attachPlan", "finishRun", "updateRuntime", "exit"}
  BY <1>1 DEF ProcessOK, Processes, ProcessesAt, Requestable
<1>5. n # Idle =>
          n \in Processes /\ n.pc = p.then /\ n.task = p.task /\ n.checkFailed = p.checkFailed
          /\ p.then # "exit"
  BY <1>1, <1>2, <1>4 DEF Processes, ProcessesAt, Requestable, Pcs
<1>6. ProcessOK(r, n)
  <2>1. CASE n = Idle
    BY <2>1, IdleIsOK
  <2>2. CASE n # Idle
    BY <1>1, <1>4, <1>5, <2>2 DEF ProcessOK, Starting
  <2> QED
    BY <2>1, <2>2
<1>7. p.index \in Indexes /\ IndexOK(p.index) /\ runs[r] # NoRun
  BY <1>1 DEF ProcessOK
<1>8. runs[r].status \in Statuses
  BY <1>1 DEF Typed, RunFiles, NoRun, Statuses
<1>9. index' \in Indexes
  BY <1>3, <1>7, <1>8 DEF Indexes
<1>10. Typed'
  <2>1. call' = [q \in RunIds |-> call'[q]]
    BY <1>1, <1>3 DEF Typed
  <2> QED
    BY <1>1, <1>3, <1>9, <2>1 DEF Typed
<1>11. Grows /\ Others(r)
  BY <1>3 DEF Grows, Ended, GateOpen, Others
<1>12. RunOK(r)' /\ GraphOK(graph)'
  BY <1>1, <1>3 DEF RunOK, GraphOK, Ended, GateOpen
<1>13. ProcessOK(r, n)'
  BY <1>1, <1>3, <1>6, <1>11, ProcessKeeps
<1>14. ASSUME NEW q \in RunIds
       PROVE  /\ index'[q] # None => runs[q] # NoRun
              /\ index'[q] \notin {None, "started"} => Ended(q)
  <2>1. index'[q] = IF q = r THEN runs[r].status ELSE p.index[q]
    BY <1>3, <1>7 DEF Indexes
  <2> QED
    BY <1>7, <2>1 DEF IndexOK, Ended
<1>15. IndexOK(index)'
  BY <1>3, <1>14 DEF IndexOK, Ended
<1>16. QED
  BY <1>3, <1>10, <1>11, <1>12, <1>13, <1>15, OneOwner

\* The run file of r is written, with nothing undone in it.
LEMMA RunWritten ==
    ASSUME IInv, NEW r \in RunIds, NEW x \in RunFiles \ {NoRun}, NEW p,
           call' = [call EXCEPT ![r] = p], runs' = [runs EXCEPT ![r] = x],
           UNCHANGED <<graph, index, sidecar, runtime, verdict, upsets>>,
           runs[r] # NoRun => x.task = runs[r].task,
           runs[r].failedCheck => x.failedCheck,
           Ended(r) => x.status # "started",
           x.status = "finished" =>
               (sidecar[r] = "gated" /\ ~x.failedCheck => verdict[r] = "confirm_done"),
           runtime[r].phase = "closed" => x.status = "finished",
           ProcessOK(r, p)'
    PROVE  IInv'
<1>1. Typed /\ RunOK(r) /\ GraphOK(graph) /\ IndexOK(index)
  BY DEF IInv
<1>2. runs'[r] = x /\ \A q \in RunIds \ {r} : runs'[q] = runs[q]
  BY <1>1 DEF Typed
<1>3. Typed'
  <2>1. call' = [q \in RunIds |-> call'[q]]
    BY <1>1 DEF Typed
  <2>2. runs' \in [RunIds -> RunFiles]
    BY <1>1 DEF Typed
  <2> QED
    BY <1>1, <2>1, <2>2 DEF Typed
<1>4. Grows
  <2>1. /\ runs[r] # NoRun => runs'[r] # NoRun /\ runs'[r].task = runs[r].task
        /\ Ended(r) => Ended(r)'
        /\ GateOpen(r) => GateOpen(r)'
    <3>1. x.status \in RunStatuses
      BY DEF RunFiles
    <3>2. x.status # None
      BY <3>1 DEF RunStatuses, None
    <3> QED
      BY <1>2, <3>2 DEF Ended, GateOpen
  <2>2. ASSUME NEW q \in RunIds \ {r}
        PROVE  /\ runs'[q] = runs[q]
               /\ Ended(q) => Ended(q)'
               /\ GateOpen(q) => GateOpen(q)'
    BY <1>2 DEF Ended, GateOpen
  <2> QED
    BY <2>1, <2>2 DEF Grows
<1>5. Others(r)
  BY <1>2 DEF Others
<1>6. RunOK(r)'
  BY <1>1, <1>2 DEF RunOK, GateOpen
<1>7. GraphOK(graph)' /\ IndexOK(index)'
  <2>1. PICK g, i : g = graph /\ i = index
    OBVIOUS
  <2>2. GraphOK(g)' /\ IndexOK(i)'
    BY <1>1, <1>4, <2>1, GraphKeeps, IndexKeeps
  <2> QED
    BY <2>1, <2>2
<1>8. QED
  BY <1>3, <1>4, <1>5, <1>6, <1>7, OneOwner

-----------------------------------------------------------------------------
(* p2a_execute start                                                       *)

\* The checks of start keep it.
LEMMA BeginStartStep ==
    ASSUME IInv, NEW r \in RunIds, NEW t \in Tasks, BeginStart(r, t)
    PROVE  IInv'
<1> DEFINE n == Process("createRun", t, FALSE, None, FALSE)
<1>1. n \in Processes /\ n.pc = "createRun" /\ n.checkFailed = FALSE
  BY DEF Process, Processes, ProcessesAt, Requestable, Pcs, Commands
<1> HIDE DEF n
<1>2. ProcessOK(r, n)
  BY <1>1 DEF ProcessOK, Starting
<1>3. call' = [call EXCEPT ![r] = n]
  BY DEF BeginStart, n
<1>4. QED
  BY <1>2, <1>3, OnlyProcess DEF BeginStart

\* A new run file keeps it: its number is free.
LEMMA CreateRunStep ==
    ASSUME IInv, NEW r \in RunIds, CreateRun(r)
    PROVE  IInv'
<1> DEFINE p == call[r]
<1>1. /\ p \in Processes /\ p # Idle /\ p.pc = "createRun"
      /\ Typed /\ RunOK(r) /\ ProcessOK(r, p)
  BY AtIsProcess DEF CreateRun, Pcs
<1>2. CASE runs[r] # NoRun
  <2>1. call' = [call EXCEPT ![r] = Idle]
    BY <1>2 DEF CreateRun, Exit
  <2>2. UNCHANGED <<graph, runs, index, sidecar, runtime, verdict, upsets>>
    BY <1>2 DEF CreateRun
  <2> QED
    BY <2>1, <2>2, IdleIsOK, OnlyProcess
<1>3. CASE runs[r] = NoRun
  <2>1. PICK x, n : /\ x = [task |-> p.task, status |-> "started", failedCheck |-> FALSE]
                    /\ n = [p EXCEPT !.pc = "readIndex", !.then = "attachPlan", !.requested = None,
                                     !.classed = FALSE, !.checkFailed = FALSE]
    OBVIOUS
  <2>2. /\ call' = [call EXCEPT ![r] = n] /\ runs' = [runs EXCEPT ![r] = x]
        /\ UNCHANGED <<graph, index, sidecar, runtime, verdict, upsets>>
    BY <1>1, <1>3, <2>1 DEF CreateRun, WriteRun
  <2>3. x \in RunFiles \ {NoRun} /\ x.task = p.task /\ x.status = "started"
    BY <1>1, <2>1, Shape DEF RunFiles, RunStatuses, NoRun, Processes, ProcessesAt, Requestable, None
  <2>4. /\ n \in Processes /\ n.pc = "readIndex" /\ n.then = "attachPlan"
        /\ n.task = p.task /\ n.checkFailed = FALSE
    BY <1>1, <2>1 DEF Processes, ProcessesAt, Requestable, Pcs
  <2>5. ~runs[r].failedCheck /\ runs[r].status = None
    BY <1>3 DEF NoRun
  <2>6. runtime[r].phase # "closed"
    BY <1>1, <2>5 DEF ProcessOK, RunOK, None
  <2>7. runs'[r] = x /\ runtime'[r] = runtime[r]
    BY <1>1, <2>2 DEF Typed
  <2>8. ProcessOK(r, n)'
    BY <2>3, <2>4, <2>6, <2>7 DEF ProcessOK, Starting, None
  <2> QED
    BY <1>3, <2>2, <2>3, <2>5, <2>6, <2>8, RunWritten DEF Ended
<1>4. QED
  BY <1>2, <1>3

\* Attaching the plan keeps it.
LEMMA AttachPlanStep ==
    ASSUME IInv, NEW r \in RunIds, NEW plan \in Plans[r], AttachPlan(r, plan)
    PROVE  IInv'
<1> DEFINE p == call[r]
<1>1. /\ p \in Processes /\ p # Idle /\ p.pc = "attachPlan"
      /\ Typed /\ RunOK(r) /\ ProcessOK(r, p) /\ GraphOK(graph) /\ IndexOK(index)
  BY AtIsProcess DEF AttachPlan, Pcs
<1>2. runs[r].status = "started" /\ runs[r].task = p.task /\ runs[r] # NoRun
  BY <1>1 DEF ProcessOK, Starting
<1>3. PICK n : n = IF plan = None
                     THEN [p EXCEPT !.pc = "readGraph", !.command = "start"]
                     ELSE [p EXCEPT !.pc = "initRuntime"]
  OBVIOUS
<1>4. /\ call' = [call EXCEPT ![r] = n] /\ sidecar' = [sidecar EXCEPT ![r] = plan]
      /\ UNCHANGED <<graph, runs, index, runtime, verdict, upsets>>
  BY <1>1, <1>3 DEF AttachPlan, Transition, Go
<1>5. n \in Processes /\ n.task = p.task /\ n.checkFailed = p.checkFailed
  BY <1>1, <1>3 DEF Processes, ProcessesAt, Requestable, Pcs, Commands
<1>6. (n.pc = "readGraph" /\ n.command = "start") \/ n.pc = "initRuntime"
  BY <1>1, <1>3 DEF Processes, ProcessesAt, Requestable
<1>7. runtime[r].phase # "closed"
  BY <1>1 DEF ProcessOK
<1>8. ProcessOK(r, n)'
  BY <1>1, <1>2, <1>4, <1>5, <1>6, <1>7 DEF ProcessOK, Starting, None
<1>9. Typed'
  <2>1. call' = [q \in RunIds |-> call'[q]]
    BY <1>1, <1>4 DEF Typed
  <2>2. plan \in {None, "open", "gated"}
    BY Shape
  <2>3. sidecar' \in [RunIds -> {None, "open", "gated"}]
    BY <1>1, <1>4, <2>2 DEF Typed
  <2> QED
    BY <1>1, <1>4, <2>1, <2>3 DEF Typed
<1>10. Grows /\ Others(r)
  BY <1>1, <1>2, <1>4 DEF Grows, Ended, GateOpen, Others, Typed
<1>11. RunOK(r)'
  BY <1>1, <1>2, <1>4 DEF RunOK
<1>12. GraphOK(graph)' /\ IndexOK(index)'
  <2>1. PICK g, i : g = graph /\ i = index
    OBVIOUS
  <2>2. GraphOK(g)' /\ IndexOK(i)'
    BY <1>1, <1>10, <2>1, GraphKeeps, IndexKeeps
  <2> QED
    BY <1>4, <2>1, <2>2
<1>13. QED
  BY <1>4, <1>8, <1>9, <1>10, <1>11, <1>12, OneOwner

\* The runtime of r is written; it is closed only if the run has finished.
LEMMA RuntimeWritten ==
    ASSUME IInv, NEW r \in RunIds, NEW y, NEW p,
           call' = [call EXCEPT ![r] = p], runtime' = [runtime EXCEPT ![r] = y],
           UNCHANGED <<graph, runs, index, sidecar, verdict, upsets>>,
           y = NoRuntime \/ ValidRuntime(y),
           y.phase = "closed" => runs[r].status = "finished",
           ProcessOK(r, p)'
    PROVE  IInv'
<1>1. Typed /\ RunOK(r) /\ GraphOK(graph) /\ IndexOK(index)
  BY DEF IInv
<1>2. runtime'[r] = y /\ \A q \in RunIds \ {r} : runtime'[q] = runtime[q]
  BY <1>1 DEF Typed
<1>3. Typed'
  <2>1. call' = [q \in RunIds |-> call'[q]] /\ runtime' = [q \in RunIds |-> runtime'[q]]
    BY <1>1 DEF Typed
  <2> QED
    BY <1>1, <2>1 DEF Typed
<1>4. Grows /\ Others(r)
  BY <1>2 DEF Grows, Ended, GateOpen, Others
<1>5. RunOK(r)'
  BY <1>1, <1>2 DEF RunOK, GateOpen
<1>6. GraphOK(graph)' /\ IndexOK(index)'
  <2>1. PICK g, i : g = graph /\ i = index
    OBVIOUS
  <2>2. GraphOK(g)' /\ IndexOK(i)'
    BY <1>1, <1>4, <2>1, GraphKeeps, IndexKeeps
  <2> QED
    BY <2>1, <2>2
<1>7. QED
  BY <1>3, <1>4, <1>5, <1>6, OneOwner

\* The first runtime of every mode is valid, and running.
LEMMA InitialIsValid ==
    ASSUME NEW mode \in Modes
    PROVE  ValidRuntime(InitialRuntime(mode)) /\ InitialRuntime(mode).phase = "running"
<1>1. \A q \in RolesOf(mode) : InitialRuntime(mode).roles[q] \in {"active", "pending"}
  BY DEF InitialRuntime
<1>2. DOMAIN InitialRuntime(mode).roles = RolesOf(mode)
  BY DEF InitialRuntime
<1>3. InitialRuntime(mode).phase = "running"
  BY DEF InitialRuntime
<1>4. QED
  BY <1>1, <1>2, <1>3 DEF ValidRuntime

\* Writing the first runtime keeps it.
LEMMA InitRuntimeStep ==
    ASSUME IInv, NEW r \in RunIds, InitRuntime(r)
    PROVE  IInv'
<1> DEFINE p == call[r]
           mode == IF sidecar[r] = "gated" THEN "solo_monitor" ELSE "solo"
<1>1. /\ p \in Processes /\ p # Idle /\ p.pc = "initRuntime" /\ Typed /\ ProcessOK(r, p)
  BY AtIsProcess DEF InitRuntime, Pcs
<1>2. PICK y, n : /\ y = InitialRuntime(mode)
                  /\ n = [p EXCEPT !.pc = "readGraph", !.command = "start"]
  OBVIOUS
<1>3. /\ call' = [call EXCEPT ![r] = n] /\ runtime' = [runtime EXCEPT ![r] = y]
      /\ UNCHANGED <<graph, runs, index, sidecar, verdict, upsets>>
  BY <1>1, <1>2 DEF InitRuntime, Transition
<1>4. ValidRuntime(y) /\ y.phase = "running"
  BY <1>2, InitialIsValid DEF Modes
<1>5. /\ n \in Processes /\ n.task = p.task /\ n.checkFailed = p.checkFailed
      /\ n.pc = "readGraph" /\ n.command = "start"
  BY <1>1, <1>2 DEF Processes, ProcessesAt, Requestable, Pcs, Commands
<1>6. runs'[r] = runs[r] /\ upsets' = upsets /\ runtime'[r] = y
  BY <1>1, <1>3 DEF Typed
<1>7. ProcessOK(r, n)'
  BY <1>1, <1>4, <1>5, <1>6 DEF ProcessOK, Starting, None
<1>8. QED
  BY <1>3, <1>4, <1>7, RuntimeWritten

-----------------------------------------------------------------------------
(* p2a_execute finish                                                      *)

\* The task is told what became of its run, or there is nothing left to do.
LEMMA SettledIsOK ==
    ASSUME Typed, NEW r \in RunIds, NEW p,
           p \in ProcessesAt(Pcs \cup {"settle"}), runs[r].task = p.task
    PROVE  ProcessOK(r, Settled(r, p))
<1>1. CASE ~p.underWay
  BY <1>1, IdleIsOK DEF Settled
<1>2. CASE p.underWay
  <2>1. PICK n : n = [p EXCEPT !.pc = "readGraph", !.requested = None, !.classed = FALSE,
                               !.checkFailed = FALSE, !.underWay = FALSE,
                               !.command = IF runs[r].status = "finished" THEN "done" ELSE "block"]
    OBVIOUS
  <2>2. /\ n \in Processes /\ n.pc = "readGraph" /\ n.task = p.task
        /\ n.checkFailed = FALSE
        /\ n.command = IF runs[r].status = "finished" THEN "done" ELSE "block"
    BY <2>1 DEF Processes, ProcessesAt, Requestable, Pcs, Commands
  <2>3. ProcessOK(r, n)
    BY <2>2 DEF ProcessOK, Starting, None
  <2> QED
    BY <1>2, <2>1, <2>3 DEF Settled
<1>3. QED
  BY <1>1, <1>2

\* The checks of finish keep it.
LEMMA BeginFinishStep ==
    ASSUME IInv, NEW r \in RunIds, NEW verify \in BOOLEAN, NEW requested \in Requestable,
           NEW classed \in BOOLEAN, BeginFinish(r, verify, requested, classed)
    PROVE  IInv'
<1>1. Typed /\ RunOK(r) /\ runs[r] # NoRun
  BY DEF IInv, BeginFinish
<1>2. PICK n : n = AfterBegin(r, verify, requested, classed)
  OBVIOUS
<1>3. call' = [call EXCEPT ![r] = n]
  BY <1>2 DEF BeginFinish
<1>4. runs[r].task \in Tasks
  BY <1>1 DEF Typed, RunFiles
<1>5. ProcessOK(r, n)
  <2>1. CASE runtime[r].phase = "closed"
    <3>1. PICK p : p = Finishing(r, "settle", requested, classed)
      OBVIOUS
    <3>2. p \in ProcessesAt(Pcs \cup {"settle"}) /\ p.task = runs[r].task
      BY <1>4, <3>1 DEF Finishing, Process, ProcessesAt, Requestable, Commands
    <3>3. n = Settled(r, p)
      BY <1>2, <2>1, <3>1 DEF AfterBegin
    <3> QED
      BY <1>1, <3>2, <3>3, SettledIsOK
  <2>2. CASE runtime[r].phase # "closed"
    <3>1. n = Finishing(r, IF verify THEN "verify" ELSE "finishRun", requested, classed)
      BY <1>2, <2>2 DEF AfterBegin
    <3>2. /\ n \in Processes /\ n.pc \in {"verify", "finishRun"} /\ n.checkFailed = FALSE
          /\ n.task = runs[r].task
      BY <1>4, <3>1 DEF Finishing, Process, Processes, ProcessesAt, Requestable, Pcs, Commands
    <3> QED
      BY <1>1, <2>2, <3>2 DEF ProcessOK, Starting
  <2> QED
    BY <2>1, <2>2
<1>6. QED
  BY <1>3, <1>5, OnlyProcess DEF BeginFinish

\* So does a finish that is given, or given again.
LEMMA FinishAskedStep ==
    ASSUME IInv, NEW r \in RunIds,
           \/ \E asked \in Requests[r] : BeginFinish(r, asked.verify, asked.status, asked.classed)
           \/ FinishAgain(r)
    PROVE  IInv'
<1>1. ASSUME NEW asked \in Requests[r], BeginFinish(r, asked.verify, asked.status, asked.classed)
      PROVE  IInv'
  <2>1. asked \in RequestType
    BY Shape
  <2>2. asked.verify \in BOOLEAN /\ asked.status \in Requestable /\ asked.classed \in BOOLEAN
    BY <2>1 DEF RequestType, Requestable
  <2>3. QED
    BY <1>1, <2>2, BeginFinishStep
<1>2. ASSUME FinishAgain(r)
      PROVE  IInv'
  <2>1. /\ BeginFinish(r, FALSE, runs[r].status, runs[r].status = "blocked")
        /\ runs[r].status \in Requestable /\ (runs[r].status = "blocked") \in BOOLEAN
    BY <1>2 DEF FinishAgain, Unsettled, Requestable
  <2>2. QED
    BY <2>1, BeginFinishStep
<1>3. QED
  BY <1>1, <1>2

\* Verification keeps it: it only records its outcome.
LEMMA VerifyStep ==
    ASSUME IInv, NEW r \in RunIds, NEW passed \in BOOLEAN, Verify(r, passed)
    PROVE  IInv'
<1> DEFINE p == call[r]
<1>1. /\ p \in Processes /\ p # Idle /\ p.pc = "verify" /\ Typed /\ RunOK(r) /\ ProcessOK(r, p)
  BY AtIsProcess DEF Verify, Pcs
<1>2. runs[r] # NoRun /\ runs[r].task = p.task /\ runtime[r].phase # "closed"
  BY <1>1 DEF ProcessOK
<1>3. PICK x, n : /\ x = [runs[r] EXCEPT !.failedCheck = runs[r].failedCheck \/ ~passed]
                  /\ n = [p EXCEPT !.pc = "readIndex", !.then = "finishRun",
                                   !.checkFailed = ~passed]
  OBVIOUS
<1>4. /\ call' = [call EXCEPT ![r] = n] /\ runs' = [runs EXCEPT ![r] = x]
      /\ UNCHANGED <<graph, index, sidecar, runtime, verdict, upsets>>
  BY <1>1, <1>3 DEF Verify, Typed
<1>5. runs[r] \in [task : Tasks, status : RunStatuses, failedCheck : BOOLEAN]
  BY <1>1, <1>2 DEF Typed, RunFiles
<1>6. /\ x \in [task : Tasks, status : RunStatuses, failedCheck : BOOLEAN]
      /\ x.task = runs[r].task /\ x.status = runs[r].status
      /\ x.failedCheck = (runs[r].failedCheck \/ ~passed)
  BY <1>3, <1>5
<1>7. x \in RunFiles \ {NoRun}
  BY <1>6, Shape DEF RunFiles, NoRun
<1>8. /\ n \in Processes /\ n.pc = "readIndex" /\ n.then = "finishRun"
      /\ n.task = p.task /\ n.checkFailed = ~passed
  BY <1>1, <1>3 DEF Processes, ProcessesAt, Requestable, Pcs
<1>9. runs'[r] = x /\ runtime'[r] = runtime[r]
  BY <1>1, <1>4 DEF Typed
<1>10. ProcessOK(r, n)'
  BY <1>2, <1>6, <1>7, <1>8, <1>9 DEF ProcessOK, Starting, None
<1>11. x.status = "finished" =>
           (sidecar[r] = "gated" /\ ~x.failedCheck => verdict[r] = "confirm_done")
  BY <1>1, <1>6 DEF RunOK, GateOpen
<1>12. /\ runs[r].failedCheck => x.failedCheck
       /\ Ended(r) => x.status # "started"
       /\ runtime[r].phase = "closed" => x.status = "finished"
  BY <1>2, <1>6 DEF Ended
<1>13. QED
  BY <1>2, <1>4, <1>6, <1>7, <1>10, <1>11, <1>12, RunWritten

\* What the gate lets through as finished, its monitor has confirmed; a check
\* that failed is on the run's record.
LEMMA GateHolds ==
    ASSUME NEW r, NEW p \in Processes, p.checkFailed => runs[r].failedCheck,
           runs[r].failedCheck \in BOOLEAN, verdict[r] \in {None, "confirm_done", "rejected"},
           NEW classed, NEW status, status = FinishStatus(r, AfterGate(r, p), classed)
    PROVE  /\ status \in {"refused", "finished", "failed", "blocked"}
           /\ status = "finished" => GateOpen(r)
<1>1. p.requested \in {None, "finished", "failed", "blocked"}
  BY DEF Processes, ProcessesAt, Requestable
<1>2. CASE p.checkFailed
  BY <1>1, <1>2 DEF AfterGate, FinishStatus, GateOpen, None
<1>3. CASE ~p.checkFailed /\ sidecar[r] = "gated" /\ p.requested \in {None, "finished"}
  <2>1. AfterGate(r, p) = GateAnswer(r, p.requested)
    BY <1>3 DEF AfterGate
  <2>2. CASE verdict[r] = "confirm_done"
    BY <1>1, <2>1, <2>2 DEF GateAnswer, FinishStatus, GateOpen
  <2>3. CASE verdict[r] = "rejected"
    BY <2>1, <2>3 DEF GateAnswer, FinishStatus, None
  <2>4. CASE verdict[r] = None
    BY <2>1, <2>4 DEF GateAnswer, FinishStatus, None
  <2> QED
    BY <2>2, <2>3, <2>4
<1>4. CASE ~p.checkFailed /\ ~(sidecar[r] = "gated" /\ p.requested \in {None, "finished"})
  BY <1>1, <1>4 DEF AfterGate, FinishStatus, GateOpen
<1>5. QED
  BY <1>2, <1>3, <1>4

\* Ending the run keeps it: done is written only behind the gate.
LEMMA FinishRunStep ==
    ASSUME IInv, NEW r \in RunIds, FinishRun(r)
    PROVE  IInv'
<1> DEFINE p == call[r]
           asked == AfterGate(r, p)
           status == FinishStatus(r, asked, Classed(p, asked))
           then == IF asked = None /\ status = "failed" THEN "exit" ELSE "updateRuntime"
<1>1. /\ p \in Processes /\ p # Idle /\ p.pc = "finishRun"
      /\ Typed /\ RunOK(r) /\ ProcessOK(r, p)
  BY AtIsProcess DEF FinishRun, Pcs
<1>2. runs[r] # NoRun /\ runs[r].task = p.task /\ runtime[r].phase # "closed"
  BY <1>1 DEF ProcessOK
<1>3. runs[r] \in [task : Tasks, status : RunStatuses, failedCheck : BOOLEAN]
  BY <1>1, <1>2 DEF Typed, RunFiles
<1>4. /\ status \in {"refused", "finished", "failed", "blocked"}
      /\ status = "finished" => GateOpen(r)
  <2>1. verdict[r] \in {None, "confirm_done", "rejected"}
    BY <1>1 DEF Typed
  <2>2. p.checkFailed => runs[r].failedCheck
    BY <1>1 DEF ProcessOK
  <2> QED
    BY <1>1, <1>3, <2>1, <2>2, GateHolds
<1>t. then \in {"exit", "updateRuntime"}
  OBVIOUS
<1> HIDE DEF status, asked, then
<1>5. CASE status = "refused"
  <2>1. call' = [call EXCEPT ![r] = Idle] /\ UNCHANGED runs
    BY <1>5 DEF FinishRun, Exit, status, asked
  <2>2. UNCHANGED <<graph, index, sidecar, runtime, verdict, upsets>>
    BY DEF FinishRun
  <2> QED
    BY <2>1, <2>2, IdleIsOK, OnlyProcess
<1>6. CASE status # "refused"
  <2>1. PICK x, n : /\ x = [runs[r] EXCEPT !.status = status]
                    /\ n = [p EXCEPT !.pc = "readIndex", !.then = then, !.requested = None,
                                     !.classed = FALSE, !.checkFailed = FALSE]
    OBVIOUS
  <2>2. /\ call' = [call EXCEPT ![r] = n] /\ runs' = [runs EXCEPT ![r] = x]
        /\ UNCHANGED <<graph, index, sidecar, runtime, verdict, upsets>>
    BY <1>1, <1>6, <2>1 DEF FinishRun, WriteRun, status, asked, then
  <2>3. /\ x \in [task : Tasks, status : RunStatuses, failedCheck : BOOLEAN]
        /\ x.task = runs[r].task /\ x.status = status
        /\ x.failedCheck = runs[r].failedCheck
    BY <1>3, <1>4, <1>6, <2>1 DEF RunStatuses
  <2>4. x \in RunFiles \ {NoRun}
    BY <2>3, Shape DEF RunFiles, NoRun
  <2>5. /\ n \in Processes /\ n.pc = "readIndex" /\ n.then = then
        /\ n.task = p.task /\ n.checkFailed = FALSE
    BY <1>1, <1>t, <2>1 DEF Processes, ProcessesAt, Requestable, Pcs
  <2>6. runs'[r] = x /\ runtime'[r] = runtime[r]
    BY <1>1, <2>2 DEF Typed
  <2>8. ProcessOK(r, n)'
    BY <1>2, <1>t, <2>3, <2>4, <2>5, <2>6 DEF ProcessOK, Starting, None
  <2>9. x.status = "finished" =>
            (sidecar[r] = "gated" /\ ~x.failedCheck => verdict[r] = "confirm_done")
    BY <1>4, <2>3 DEF GateOpen
  <2>10. /\ runs[r].failedCheck => x.failedCheck
         /\ x.status # "started"
         /\ runtime[r].phase = "closed" => x.status = "finished"
    BY <1>2, <1>4, <2>3
  <2> QED
    BY <1>2, <2>2, <2>3, <2>4, <2>8, <2>9, <2>10, RunWritten
<1>7. QED
  BY <1>5, <1>6

\* Closing the runtime keeps it: its run has ended.
LEMMA UpdateRuntimeStep ==
    ASSUME IInv, NEW r \in RunIds, UpdateRuntime(r)
    PROVE  IInv'
<1> DEFINE p == call[r]
           done == runs[r].status = "finished"
           e == Event("owner", IF done THEN "status" ELSE "blocker",
                      IF done THEN "complete" ELSE "blocked",
                      IF done THEN "closed" ELSE "blocked", None, FALSE, None)
           after == AppendEvent(runtime[r], e)
<1>1. /\ p \in Processes /\ p # Idle /\ p.pc = "updateRuntime"
      /\ Typed /\ RunOK(r) /\ ProcessOK(r, p)
  BY AtIsProcess DEF UpdateRuntime, Pcs
<1>2. PICK n : n = Settled(r, p)
  OBVIOUS
<1>3. /\ call' = [call EXCEPT ![r] = n]
      /\ UNCHANGED <<graph, runs, index, sidecar, verdict, upsets>>
  BY <1>1, <1>2 DEF UpdateRuntime, Typed
<1>4. \/ runtime' = runtime
      \/ ValidRuntime(after) /\ runtime' = [runtime EXCEPT ![r] = after]
  BY <1>1 DEF UpdateRuntime, Typed
<1>5. after.phase = IF done THEN "closed" ELSE "blocked"
  BY DEF AppendEvent, Event, None
<1> HIDE DEF after
<1>6. PICK y : \/ y = runtime[r]
               \/ y = after /\ ValidRuntime(after)
      /\ runtime' = [runtime EXCEPT ![r] = y]
  <2>1. runtime = [runtime EXCEPT ![r] = runtime[r]]
    BY <1>1 DEF Typed
  <2> QED
    BY <1>4, <2>1
<1>7. (y = NoRuntime \/ ValidRuntime(y)) /\ (y.phase = "closed" => runs[r].status = "finished")
  BY <1>1, <1>5, <1>6 DEF RunOK
<1>8. ProcessOK(r, n)
  <2>1. runs[r].task = p.task
    BY <1>1 DEF ProcessOK
  <2>2. p \in ProcessesAt(Pcs \cup {"settle"})
    BY <1>1 DEF Processes, ProcessesAt, Requestable
  <2> QED
    BY <1>1, <1>2, <2>1, <2>2, SettledIsOK
<1>9. n.pc \in {"idle", "readGraph"}
  BY <1>1, <1>2 DEF Settled, Idle, Processes, ProcessesAt, Requestable
<1>10. ProcessOK(r, n)'
  BY <1>3, <1>8, <1>9 DEF ProcessOK, Starting
<1>11. QED
  BY <1>3, <1>6, <1>7, <1>10, RuntimeWritten

-----------------------------------------------------------------------------
(* The owners and the world                                                *)

\* A process that is killed leaves the files as they are.
LEMMA CrashStep ==
    ASSUME IInv, NEW r \in RunIds, Crash(r)
    PROVE  IInv'
<1>1. call' = [call EXCEPT ![r] = Idle] /\ upsets' = upsets + 1
  BY DEF Crash, Exit
<1>2. QED
  BY <1>1, IdleIsOK, OnlyProcess DEF Crash

\* A verdict of the monitor keeps it.
LEMMA WriteVerdictStep ==
    ASSUME IInv, NEW r \in RunIds, NEW v \in {"confirm_done", "rejected"}, WriteVerdict(r, v)
    PROVE  IInv'
<1>1. Typed /\ RunOK(r) /\ ProcessOK(r, call[r]) /\ GraphOK(graph) /\ IndexOK(index)
  BY DEF IInv
<1>2. /\ verdict' = [verdict EXCEPT ![r] = v] /\ verdict[r] # "confirm_done"
      /\ runs[r].status # "finished"
      /\ UNCHANGED <<graph, runs, index, sidecar, runtime, call, upsets>>
  BY DEF WriteVerdict
<1>3. PICK p : p = call[r]
  OBVIOUS
<1>4. call' = [call EXCEPT ![r] = p]
  BY <1>1, <1>2, <1>3 DEF Typed
<1>5. Typed'
  BY <1>1, <1>2 DEF Typed
<1>6. Grows /\ Others(r)
  BY <1>1, <1>2 DEF Grows, Ended, GateOpen, Others, Typed
<1>7. RunOK(r)'
  BY <1>1, <1>2 DEF RunOK
<1>8. ProcessOK(r, p)'
  BY <1>1, <1>2, <1>3, <1>6, ProcessKeeps
<1>9. GraphOK(graph)' /\ IndexOK(index)'
  <2>1. PICK g, i : g = graph /\ i = index
    OBVIOUS
  <2>2. GraphOK(g)' /\ IndexOK(i)'
    BY <1>1, <1>6, <2>1, GraphKeeps, IndexKeeps
  <2> QED
    BY <1>2, <2>1, <2>2
<1>10. QED
  BY <1>4, <1>5, <1>6, <1>7, <1>8, <1>9, OneOwner

\* Every step keeps the invariant.
LEMMA StepSound ==
    ASSUME IInv, Next
    PROVE  IInv'
<1>1. PICK r \in RunIds : \/ Begin(r) \/ Step(r) \/ Crash(r)
                          \/ \E v \in {"confirm_done", "rejected"} : WriteVerdict(r, v)
  BY DEF Next
<1>2. CASE Begin(r)
  BY <1>2, BeginStartStep, FinishAskedStep, TaskCommandStep DEF Begin
<1>3. CASE Step(r)
  BY <1>3, ReadGraphStep, WriteGraphStep, ReadIndexStep, WriteIndexStep, CreateRunStep,
     AttachPlanStep, InitRuntimeStep, VerifyStep, FinishRunStep, UpdateRuntimeStep DEF Step
<1>4. CASE Crash(r)
  BY <1>4, CrashStep
<1>5. CASE \E v \in {"confirm_done", "rejected"} : WriteVerdict(r, v)
  BY <1>5, WriteVerdictStep
<1>6. QED
  BY <1>1, <1>2, <1>3, <1>4, <1>5

\* So does a step that changes nothing.
LEMMA NothingSound ==
    ASSUME IInv, UNCHANGED vars
    PROVE  IInv'
<1>1. ASSUME NEW r \in RunIds
      PROVE  RunOK(r)' /\ ProcessOK(r, call[r])'
  BY DEF IInv, vars, RunOK, ProcessOK, GateOpen, GraphOK, IndexOK, Ended
<1>2. QED
  BY <1>1 DEF IInv, vars, Typed, GraphOK, IndexOK, Ended, GateOpen

-----------------------------------------------------------------------------
(* What the invariant gives                                                *)

\* The inductive invariant holds of every reachable state: what the files say and
\* what every process has read of them.
THEOREM FilesAreSound == Spec => []IInv
BY InitSound, StepSound, NothingSound, PTL DEF Spec

\* The invariant gives the type.
LEMMA SoundIsTyped ==
    ASSUME IInv
    PROVE  TypeOK
BY DEF IInv, Typed, RunOK, TypeOK, Graphs, RunFiles, Indexes, Statuses

\* The invariant says that the files agree.
LEMMA SoundAgree ==
    ASSUME IInv
    PROVE  FilesAgree
<1>1. FilesFollowTheRun
  BY DEF IInv, GraphOK, IndexOK, Ended, FilesFollowTheRun
<1>2. ClosedMeansFinished
  BY DEF IInv, RunOK, ClosedMeansFinished
<1>3. QED
  BY <1>1, <1>2 DEF FilesAgree

\* Only a write of the graph makes a task done: of the command of its finished
\* run, or of one that read the task as done.
LEMMA DoneStep ==
    ASSUME IInv, Next, NEW t \in Tasks, graph[t] = "in_progress", graph'[t] = "done"
    PROVE  \E r \in RunIds :
               /\ runs[r].task = t /\ runs[r].status # "started"
               /\ runs[r].status = "finished" \/ Restored(t)
               /\ sidecar[r] = "gated" /\ ~runs[r].failedCheck => verdict[r] = "confirm_done"
<1>1. PICK r \in RunIds : WriteGraph(r)
  <2>1. graph' # graph
    OBVIOUS
  <2>2. ASSUME NEW r \in RunIds
        PROVE  ~Begin(r) /\ ~Crash(r) /\ \A v : ~WriteVerdict(r, v)
    BY <2>1 DEF Begin, BeginStart, FinishAgain, BeginFinish, TaskCommand, Crash, WriteVerdict
  <2>3. ASSUME NEW r \in RunIds
        PROVE  /\ ~ReadGraph(r) /\ ~ReadIndex(r) /\ ~WriteIndex(r) /\ ~CreateRun(r)
               /\ \A plan : ~AttachPlan(r, plan)
    BY <2>1 DEF ReadGraph, ReadIndex, WriteIndex, CreateRun, AttachPlan
  <2>4. ASSUME NEW r \in RunIds
        PROVE  /\ ~InitRuntime(r) /\ ~FinishRun(r) /\ ~UpdateRuntime(r)
               /\ \A passed : ~Verify(r, passed)
    BY <2>1 DEF InitRuntime, Verify, FinishRun, UpdateRuntime
  <2> QED
    BY <2>2, <2>3, <2>4 DEF Next, Step
<1> DEFINE p == call[r]
<1>2. /\ p \in Processes /\ p.pc = "writeGraph" /\ RunOK(r) /\ ProcessOK(r, p)
  BY <1>1, AtIsProcess DEF WriteGraph, Pcs
<1>3. p.graph \in Graphs /\ GraphOK(p.graph) /\ p.task \in Tasks
  BY <1>2 DEF ProcessOK, Processes, ProcessesAt, Requestable
<1>4. p.command \in Commands \ {None}
  BY <1>2 DEF ProcessOK, Processes, ProcessesAt, Requestable
<1>5. graph' = [p.graph EXCEPT ![p.task] = StatusAfter(p.command)]
  BY <1>1 DEF WriteGraph
<1>6. CASE t # p.task
  <2>1. p.graph[t] = "done"
    BY <1>3, <1>5, <1>6 DEF Graphs
  <2>2. Restored(t)
    BY <1>2, <2>1 DEF Restored, At
  <2>3. PICK q \in RunIds : runs[q].task = t /\ Ended(q) /\ GateOpen(q)
    BY <1>3, <2>1 DEF GraphOK
  <2> QED
    BY <2>2, <2>3 DEF Ended, GateOpen
<1>7. CASE t = p.task
  <2>1. StatusAfter(p.command) = "done"
    BY <1>3, <1>5, <1>7 DEF Graphs
  <2>2. p.command = "done"
    BY <1>4, <2>1 DEF StatusAfter, Commands
  <2>3. runs[r].task = t /\ runs[r].status = "finished" /\ GateOpen(r)
    BY <1>2, <1>7, <2>2 DEF ProcessOK, RunOK
  <2> QED
    BY <2>3 DEF GateOpen
<1>8. QED
  BY <1>6, <1>7

\* Every file keeps its type, the runtimes pass their validator, and the verdicts
\* are of the kinds the gate knows.
THEOREM FilesKeepTheirType == Spec => []TypeOK
BY FilesAreSound, SoundIsTyped, PTL

\* The index names no run without a file and ends none that has not ended, a
\* closed runtime is that of a finished run, and with nothing done by hand a task
\* in progress has a run: whatever overlaps and wherever a process is killed.
THEOREM FilesAlwaysAgree == Spec => []FilesAgree
BY FilesAreSound, SoundAgree, PTL

\* No task in progress becomes done without a run that passed its gate.
THEOREM NothingPassesTheGateUnseen == Spec => DonePassedTheGate
<1> DEFINE A == \A t \in Tasks : graph[t] = "in_progress" /\ graph'[t] = "done" =>
                  \E r \in RunIds :
                      /\ runs[r].task = t /\ runs[r].status # "started"
                      /\ runs[r].status = "finished" \/ Restored(t)
                      /\ sidecar[r] = "gated" /\ ~runs[r].failedCheck
                           => verdict[r] = "confirm_done"
<1>1. IInv /\ [Next]_vars => [A]_vars
  BY DoneStep
<1>2. QED
  BY FilesAreSound, <1>1, PTL DEF Spec, DonePassedTheGate
=============================================================================
