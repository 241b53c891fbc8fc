------------------------------ MODULE TaskRuns -------------------------------
(***************************************************************************)
(* Supervised execution of the tasks of one graph.  Every command is a     *)
(* process of its own: p2a_execute start and finish run p2a_runs and       *)
(* p2a_tasks as children, and all of them read whole files, change what    *)
(* they have read and write it back, without a lock.  Commands on          *)
(* different runs may overlap, and a process may be killed between two     *)
(* steps; the commands on one run come one at a time, from its owner.      *)
(***************************************************************************)
EXTENDS OrchestrationRuntime

CONSTANTS Tasks, Deps,   \* the tasks and, for each, the set it depends on
          RunIds,        \* each run has one owner, who gives its commands
          Plans,         \* for each, the plans its start may attach: None, "open", "gated"
          Requests,      \* for each, what a finish may be given: whether to verify, a
                         \* --status or None, and whether a --failure-class: RequestType
          Upset,         \* the owners who may be interrupted, or act by hand
          MaxUpsets      \* how often: crashes and p2a_tasks commands by hand

RequestType == [verify : BOOLEAN, status : {None, "finished", "failed", "blocked"},
                classed : BOOLEAN]

ASSUME Shape ==
    /\ None \notin Tasks
    /\ Deps \in [Tasks -> SUBSET Tasks]
    /\ Plans \in [RunIds -> SUBSET {None, "open", "gated"}]
    /\ Requests \in [RunIds -> SUBSET RequestType]
    /\ Upset \subseteq RunIds
    /\ MaxUpsets \in Nat

VARIABLES graph,      \* task-graph.json: the status of each task
          runs,       \* <run>.json
          index,      \* run-index.json: what it says of each run
          sidecar,    \* <run>.orchestration.json: none, or whether it gates
          runtime,    \* <run>.orchestration-runtime.json, or NoRuntime
          verdict,    \* <run>.monitor-verdict.json, as its human wrote it
          call,       \* the process each owner is running
          upsets

vars == <<graph, runs, index, sidecar, runtime, verdict, call, upsets>>

TaskStatuses == {"todo", "in_progress", "done", "blocked"}
RunStatuses  == {"started", "finished", "failed", "blocked"}
NoRun        == [task |-> None, status |-> None, failedCheck |-> FALSE]
NoRuntime    == [phase |-> None]
NotRead      == <<>>
Idle         == [pc |-> "idle"]

TypeOK ==
    /\ graph \in [Tasks -> TaskStatuses]
    /\ runs \in [RunIds -> {NoRun} \cup
                    [task : Tasks, status : RunStatuses, failedCheck : BOOLEAN]]
    /\ index \in [RunIds -> {None} \cup RunStatuses]
    /\ sidecar \in [RunIds -> {None, "open", "gated"}]
    /\ \A r \in RunIds : runtime[r] = NoRuntime \/ ValidRuntime(runtime[r])
    /\ verdict \in [RunIds -> {None, "confirm_done", "rejected"}]

Init ==
    /\ graph = [t \in Tasks |-> "todo"]
    /\ runs = [r \in RunIds |-> NoRun]
    /\ index = [r \in RunIds |-> None]
    /\ sidecar = [r \in RunIds |-> None]
    /\ runtime = [r \in RunIds |-> NoRuntime]
    /\ verdict = [r \in RunIds |-> None]
    /\ call = [r \in RunIds |-> Idle]
    /\ upsets = 0

-----------------------------------------------------------------------------
(* Processes                                                               *)

At(r, pc) == call[r].pc = pc
Go(r, pc) == call' = [call EXCEPT ![r].pc = pc]
Exit(r)   == call' = [call EXCEPT ![r] = Idle]
Transition(r, command) ==
    call' = [call EXCEPT ![r].pc = "readGraph", ![r].command = command]

\* A new process.  underWay is whether it read, when it began, that its task is
\* in progress; classed, whether it was given a --failure-class; then, what it does
\* once the run and its index entry are written.
Process(pc, task, underWay, requested, classed) ==
    [pc |-> pc, task |-> task, underWay |-> underWay, requested |-> requested,
     classed |-> classed, checkFailed |-> FALSE, then |-> None, index |-> NotRead, graph |-> NotRead,
     command |-> None]

-----------------------------------------------------------------------------
(* p2a_tasks                                                               *)

IsReady(g, t) == g[t] = "todo" /\ \A d \in Deps[t] : g[d] = "done"

MayTransition(g, t, command) ==
    CASE command = "start" -> IsReady(g, t)
      [] command = "done"  -> g[t] = "in_progress"
      [] OTHER             -> TRUE

StatusAfter(command) ==
    CASE command = "start" -> "in_progress"
      [] command = "done"  -> "done"
      [] command = "block" -> "blocked"
      [] command = "todo"  -> "todo"

\* The child reads the graph and refuses, or changes one task of what it read.
ReadGraph(r) ==
    /\ At(r, "readGraph")
    /\ IF MayTransition(graph, call[r].task, call[r].command)
         THEN call' = [call EXCEPT ![r].pc = "writeGraph", ![r].graph = graph]
         ELSE Exit(r)
    /\ UNCHANGED <<graph, runs, index, sidecar, runtime, verdict, upsets>>

WriteGraph(r) ==
    /\ At(r, "writeGraph")
    /\ graph' = [call[r].graph EXCEPT ![call[r].task] = StatusAfter(call[r].command)]
    /\ Exit(r)
    /\ UNCHANGED <<runs, index, sidecar, runtime, verdict, upsets>>

\* An owner resets a task, or takes one whose start was interrupted.
TaskCommand(r, t, command) ==
    /\ At(r, "idle") /\ r \in Upset /\ upsets < MaxUpsets
    /\ upsets' = upsets + 1
    /\ call' = [call EXCEPT ![r] =
                   [Process("readGraph", t, FALSE, None, FALSE) EXCEPT !.command = command]]
    /\ UNCHANGED <<graph, runs, index, sidecar, runtime, verdict>>

-----------------------------------------------------------------------------
(* p2a_runs: writeRun writes the run and then its entry in the index       *)

\* The index is read whole, and written whole a moment later.
ReadIndex(r) ==
    /\ At(r, "readIndex")
    /\ call' = [call EXCEPT ![r].pc = "writeIndex", ![r].index = index]
    /\ UNCHANGED <<graph, runs, index, sidecar, runtime, verdict, upsets>>

WriteIndex(r) ==
    /\ At(r, "writeIndex")
    /\ index' = [call[r].index EXCEPT ![r] = runs[r].status]
    /\ IF call[r].then = "exit"
         THEN Exit(r)
         ELSE call' = [call EXCEPT ![r].pc = call[r].then, ![r].then = None,
                                   ![r].index = NotRead]
    /\ UNCHANGED <<graph, runs, sidecar, runtime, verdict, upsets>>

\* What the process was asked is of no more use to it.
WriteRun(r, run, then) ==
    /\ runs' = [runs EXCEPT ![r] = run]
    /\ call' = [call EXCEPT ![r] = [@ EXCEPT !.pc = "readIndex", !.then = then,
                                      !.requested = None, !.classed = FALSE,
                                      !.checkFailed = FALSE]]

-----------------------------------------------------------------------------
(* p2a_execute start                                                       *)

\* Mutant of BeginStart: the task is taken before there is a run.
BeginStartWithTask(r, t) ==
    /\ At(r, "idle")
    /\ IsReady(graph, t)
    /\ call' = [call EXCEPT ![r] =
                   [Process("readGraph", t, FALSE, None, FALSE) EXCEPT !.command = "start"]]
    /\ UNCHANGED <<graph, runs, index, sidecar, runtime, verdict, upsets>>

BeginStart(r, t) ==
    /\ At(r, "idle")
    /\ IsReady(graph, t)
    /\ call' = [call EXCEPT ![r] = Process("createRun", t, FALSE, None, FALSE)]
    /\ UNCHANGED <<graph, runs, index, sidecar, runtime, verdict, upsets>>

\* A run file that exists ends the child, and the start, without a change.
CreateRun(r) ==
    /\ At(r, "createRun")
    /\ IF runs[r] = NoRun
         THEN WriteRun(r, [task |-> call[r].task, status |-> "started", failedCheck |-> FALSE],
                       "attachPlan")
         ELSE Exit(r) /\ UNCHANGED runs
    /\ UNCHANGED <<graph, index, sidecar, runtime, verdict, upsets>>

\* The plan the start was given, if any, becomes the sidecar; then the runtime.
AttachPlan(r, plan) ==
    /\ At(r, "attachPlan")
    /\ sidecar' = [sidecar EXCEPT ![r] = plan]
    /\ IF plan = None THEN Transition(r, "start") ELSE Go(r, "initRuntime")
    /\ UNCHANGED <<graph, runs, index, runtime, verdict, upsets>>

InitRuntime(r) ==
    /\ At(r, "initRuntime")
    /\ runtime' = [runtime EXCEPT ![r] =
                      InitialRuntime(IF sidecar[r] = "gated" THEN "solo_monitor" ELSE "solo")]
    /\ Transition(r, "start")
    /\ UNCHANGED <<graph, runs, index, sidecar, verdict, upsets>>

-----------------------------------------------------------------------------
(* p2a_execute finish                                                      *)

Finishing(r, pc, requested, classed) ==
    Process(pc, runs[r].task, graph[runs[r].task] = "in_progress", requested, classed)

\* The task follows its run, if it was in progress when the process p began.
Settled(r, p) ==
    IF ~p.underWay THEN Idle
    ELSE [p EXCEPT !.pc = "readGraph", !.requested = None, !.classed = FALSE,
                   !.checkFailed = FALSE, !.underWay = FALSE,
                   !.command = IF runs[r].status = "finished" THEN "done" ELSE "block"]

\* Mutant of AfterBegin: a closed runtime ends the command before the task is told.
AfterBeginStopsAtClosed(r, verify, requested, classed) ==
    IF runtime[r].phase = "closed" THEN Idle
    ELSE Finishing(r, IF verify THEN "verify" ELSE "finishRun", requested, classed)

\* A runtime that is closed leaves only the transition of the task to be done.
AfterBegin(r, verify, requested, classed) ==
    IF runtime[r].phase = "closed"
      THEN Settled(r, Finishing(r, "settle", requested, classed))
      ELSE Finishing(r, IF verify THEN "verify" ELSE "finishRun", requested, classed)

BeginFinish(r, verify, requested, classed) ==
    /\ At(r, "idle")
    /\ runs[r] # NoRun
    /\ call' = [call EXCEPT ![r] = AfterBegin(r, verify, requested, classed)]
    /\ UNCHANGED <<graph, runs, index, sidecar, runtime, verdict, upsets>>

\* The child records the results, and tells the parent whether one failed.
Verify(r, passed) ==
    /\ At(r, "verify")
    /\ runs' = [runs EXCEPT ![r].failedCheck = @ \/ ~passed]
    /\ call' = [call EXCEPT ![r].pc = "readIndex", ![r].then = "finishRun",
                            ![r].checkFailed = ~passed]
    /\ UNCHANGED <<graph, index, sidecar, runtime, verdict, upsets>>

\* Mutant of GateAnswer: a verdict of any kind lets the run finish.
GateTakesAnyVerdict(r, requested) == IF verdict[r] = None THEN "refused" ELSE requested

\* What the monitor makes of the request: nothing to decide on is an error, and
\* a verdict that is not accepted blocks the run.
GateAnswer(r, requested) ==
    CASE verdict[r] = "confirm_done" -> requested
      [] verdict[r] = "rejected"     -> "blocked"
      [] verdict[r] = None           -> "refused"

\* The gate is asked only when no check of this finish has failed.
AfterGate(r, p) ==
    IF p.checkFailed THEN IF p.requested = None THEN "failed" ELSE p.requested
    ELSE IF sidecar[r] = "gated" /\ p.requested \in {None, "finished"}
           THEN GateAnswer(r, p.requested)
           ELSE p.requested

\* What is asked to fail, or blocked by the monitor, has a failure class.
Classed(p, asked) ==
    p.classed \/ asked = "failed" \/ (asked = "blocked" /\ p.requested # "blocked")

\* Without a request the child derives the status from the checks of the run; it
\* refuses a run that fails or is blocked without a class, or finishes with one.
FinishStatus(r, asked, classed) ==
    LET status == IF asked # None THEN asked
                  ELSE IF runs[r].failedCheck THEN "failed" ELSE "finished"
    IN IF classed <=> status \in {"failed", "blocked"} THEN status ELSE "refused"

\* A failure the parent did not ask for ends it as soon as the child has written it.
FinishRun(r) ==
    /\ At(r, "finishRun")
    /\ LET asked  == AfterGate(r, call[r])
           status == FinishStatus(r, asked, Classed(call[r], asked))
       IN IF status = "refused"
            THEN Exit(r) /\ UNCHANGED runs
            ELSE WriteRun(r, [runs[r] EXCEPT !.status = status],
                          IF asked = None /\ status = "failed" THEN "exit" ELSE "updateRuntime")
    /\ UNCHANGED <<graph, index, sidecar, runtime, verdict, upsets>>

\* The runtime is closed or blocked; one that cannot be closed stays as it is.
UpdateRuntime(r) ==
    /\ At(r, "updateRuntime")
    /\ LET done == runs[r].status = "finished"
           e    == Event("owner", IF done THEN "status" ELSE "blocker",
                         IF done THEN "complete" ELSE "blocked",
                         IF done THEN "closed" ELSE "blocked", None, FALSE, None)
       IN runtime' = IF \/ runtime[r].phase \in {None, "closed"}
                        \/ ~ValidRuntime(AppendEvent(runtime[r], e))
                       THEN runtime
                       ELSE [runtime EXCEPT ![r] = AppendEvent(@, e)]
    /\ call' = [call EXCEPT ![r] = Settled(r, @)]
    /\ UNCHANGED <<graph, runs, index, sidecar, verdict, upsets>>

-----------------------------------------------------------------------------
(* The owners and the world                                                *)

\* The monitor writes a verdict, and may come round to accepting.
WriteVerdict(r, v) ==
    /\ sidecar[r] = "gated" /\ runs[r].status # "finished"
    /\ verdict[r] # v /\ verdict[r] # "confirm_done"
    /\ verdict' = [verdict EXCEPT ![r] = v]
    /\ UNCHANGED <<graph, runs, index, sidecar, runtime, call, upsets>>

Crash(r) ==
    /\ ~At(r, "idle") /\ r \in Upset /\ upsets < MaxUpsets
    /\ upsets' = upsets + 1
    /\ Exit(r)
    /\ UNCHANGED <<graph, runs, index, sidecar, runtime, verdict>>

Step(r) ==
    \/ ReadGraph(r) \/ WriteGraph(r) \/ ReadIndex(r) \/ WriteIndex(r)
    \/ CreateRun(r)
    \/ \E plan \in Plans[r] : AttachPlan(r, plan)
    \/ InitRuntime(r)
    \/ \E passed \in BOOLEAN : Verify(r, passed)
    \/ FinishRun(r) \/ UpdateRuntime(r)

\* A run that was finished and whose task was not told.
Unsettled(r) ==
    runs[r].status \in {"finished", "failed", "blocked"} /\ graph[runs[r].task] = "in_progress"

\* Its owner finishes it again, to the same status.
FinishAgain(r) ==
    Unsettled(r) /\ BeginFinish(r, FALSE, runs[r].status, runs[r].status = "blocked")

Begin(r) ==
    \/ \E t \in Tasks : BeginStart(r, t)
    \/ \E asked \in Requests[r] : BeginFinish(r, asked.verify, asked.status, asked.classed)
    \/ r \in Upset /\ FinishAgain(r)
    \/ \E t \in Tasks, command \in {"todo", "start", "block"} : TaskCommand(r, t, command)

Next == \E r \in RunIds :
    \/ Begin(r)
    \/ Step(r)
    \/ Crash(r)
    \/ \E v \in {"confirm_done", "rejected"} : WriteVerdict(r, v)

Spec == Init /\ [][Next]_vars

\* Nothing is asked of the owners who are never interrupted: they may stop halfway.
Fairness == \A r \in Upset : WF_vars(Step(r)) /\ SF_vars(FinishAgain(r))

-----------------------------------------------------------------------------
(* What the files of a run may be relied on for                            *)

\* The order in which the files are written survives every interruption and
\* overlap: the index names no run that has no file, and calls none finished
\* that is not; with no task taken by hand, one is in progress only if a run was
\* made for it.
FilesFollowTheRun ==
    /\ \A r \in RunIds : index[r] # None => runs[r] # NoRun
    /\ \A r \in RunIds : index[r] \notin {None, "started"} => runs[r].status # "started"
    /\ upsets = 0 =>
           \A t \in Tasks : graph[t] = "in_progress" => \E r \in RunIds : runs[r].task = t

\* A closed runtime belongs to a run that finished, and stays so: nothing that
\* is finished again, whatever it is asked to become, reopens it.
ClosedMeansFinished ==
    \A r \in RunIds : runtime[r].phase = "closed" => runs[r].status = "finished"

\* The files of a run agree: its index entry, its task and its runtime.
FilesAgree == FilesFollowTheRun /\ ClosedMeansFinished

\* Some command is about to write back a graph it read when the task was done.
Restored(t) == \E r \in RunIds : At(r, "writeGraph") /\ call[r].graph[t] = "done"

\* No task in progress becomes done but by a run of its own that was ended; if
\* that run is gated and passed its checks, its monitor has confirmed it.  The
\* run is a finished one, unless the step only restores what the task was.
DonePassedTheGate ==
    [][\A t \in Tasks : graph[t] = "in_progress" /\ graph'[t] = "done" =>
           \E r \in RunIds :
               /\ runs[r].task = t /\ runs[r].status # "started"
               /\ runs[r].status = "finished" \/ Restored(t)
               /\ sidecar[r] = "gated" /\ ~runs[r].failedCheck => verdict[r] = "confirm_done"]_vars

\* A task whose finish was interrupted, at any step, can still be settled by
\* finishing its run again.
InterruptedFinishSettles ==
    \A r \in Upset : Unsettled(r) ~> ~Unsettled(r)

\* "If ... verification, or a required monitor gate fails, ... do not mark it
\* `done`": a run behind a gate finishes only when its monitor has confirmed it.
GatedRunsAreConfirmed ==
    \A r \in RunIds :
        sidecar[r] = "gated" /\ runs[r].status = "finished" => verdict[r] = "confirm_done"
=============================================================================
