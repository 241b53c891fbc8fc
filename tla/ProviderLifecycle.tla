-------------------------- MODULE ProviderLifecycle --------------------------
(***************************************************************************)
(* The local embedding provider of one process: a thread that initializes  *)
(* it once, a shutdown that may come at any time, and callers that read    *)
(* its three atomic fields one after the other.  No lock protects them;    *)
(* what callers may rely on follows from the order of the writes.          *)
(*                                                                         *)
(* There is one active embedding set (ActiveProfile), so the field that    *)
(* holds its id is either published or not, like the one with the model.   *)
(***************************************************************************)
CONSTANTS
    Tasks,       \* jobs that workers are processing
    Searches     \* semantic searches

ASSUME ConstantsAssumption == Tasks \cap Searches = {}

Callers == Tasks \cup Searches

VARIABLES
    state,       \* providerState
    model,       \* is initializedModel set?
    set,         \* is resolvedEmbeddingSetId set?
    scheduled,   \* initializationScheduled
    init,        \* next statement of the initialization
    destroy,     \* next statement of destroy, or whether it has run
    pc,          \* next statement of each caller
    outcome      \* how each caller's last call ended

vars == <<state, model, set, scheduled, init, destroy, pc, outcome>>

fields == <<state, model, set>>

Init ==
    /\ state = "INITIALIZING"
    /\ model = FALSE /\ set = FALSE /\ scheduled = FALSE
    /\ init = "idle"
    /\ destroy = "idle"
    /\ pc = [c \in Callers |-> "idle"]
    /\ outcome = [c \in Callers |-> "none"]

-----------------------------------------------------------------------------
(* Initialization.                                                         *)

\* The executor takes the initialization, or refuses it: after a shutdown
\* always, and whenever it cannot start its thread.
ScheduleInitialization ==
    /\ ~scheduled
    /\ scheduled' = TRUE
    /\ \/ destroy # "over" /\ init' = "queued"
       \/ init' = "clearing model"
    /\ UNCHANGED <<fields, destroy, pc, outcome>>

StartInitialization ==
    /\ init = "queued"
    /\ init' = "loading"
    /\ UNCHANGED <<fields, scheduled, destroy, pc, outcome>>

\* The active set is resolved, artifacts are verified, the model is created
\* and warmed up: everything before the first field is written.
FinishLoading ==
    /\ init = "loading"
    /\ init' = "publishing model"
    /\ UNCHANGED <<fields, scheduled, destroy, pc, outcome>>

LoadingFails ==
    /\ init = "loading"
    /\ init' = "clearing model"
    /\ UNCHANGED <<fields, scheduled, destroy, pc, outcome>>

\* VirtualMachineErrors, OutOfMemoryError among them, are thrown again.
LoadingDies ==
    /\ init = "loading"
    /\ init' = "dead"
    /\ UNCHANGED <<fields, scheduled, destroy, pc, outcome>>

\* Mutant of PublishModel: READY is the first of the three writes.
PublishStateFirst ==
    /\ init = "publishing model"
    /\ state' = "READY"
    /\ model' = TRUE
    /\ init' = "publishing set"
    /\ UNCHANGED <<set, scheduled, destroy, pc, outcome>>

PublishModel ==
    /\ init = "publishing model"
    /\ model' = TRUE
    /\ init' = "publishing set"
    /\ UNCHANGED <<state, set, scheduled, destroy, pc, outcome>>

PublishSet ==
    /\ init = "publishing set"
    /\ set' = TRUE
    /\ init' = "publishing state"
    /\ UNCHANGED <<state, model, scheduled, destroy, pc, outcome>>

PublishState ==
    /\ init = "publishing state"
    /\ state' = "READY"
    /\ init' = "over"
    /\ UNCHANGED <<model, set, scheduled, destroy, pc, outcome>>

\* transitionToUnavailable.
ClearModel ==
    /\ init = "clearing model"
    /\ model' = FALSE
    /\ init' = "clearing set"
    /\ UNCHANGED <<state, set, scheduled, destroy, pc, outcome>>

ClearSet ==
    /\ init = "clearing set"
    /\ set' = FALSE
    /\ init' = "becoming unavailable"
    /\ UNCHANGED <<state, model, scheduled, destroy, pc, outcome>>

BecomeUnavailable ==
    /\ init = "becoming unavailable"
    /\ state' = "UNAVAILABLE"
    /\ init' = "over"
    /\ UNCHANGED <<model, set, scheduled, destroy, pc, outcome>>

-----------------------------------------------------------------------------
(* Shutdown.  The state keeps its value.                                   *)

DestroyModel ==
    /\ destroy = "idle"
    /\ model' = FALSE
    /\ destroy' = "clearing set"
    /\ UNCHANGED <<state, set, scheduled, init, pc, outcome>>

DestroySet ==
    /\ destroy = "clearing set"
    /\ set' = FALSE
    /\ destroy' = "stopping"
    /\ UNCHANGED <<state, model, scheduled, init, pc, outcome>>

\* shutdownNow drops what has not started; what runs is interrupted, which
\* may make the loading fail and does not stop the writes that follow it.
StopExecutor ==
    /\ destroy = "stopping"
    /\ destroy' = "over"
    /\ init' = IF init = "queued" THEN "over" ELSE init
    /\ UNCHANGED <<fields, scheduled, pc, outcome>>

-----------------------------------------------------------------------------
(* Callers.                                                                *)

Goto(c, statement) ==
    /\ pc' = [pc EXCEPT ![c] = statement]
    /\ UNCHANGED <<fields, scheduled, init, destroy, outcome>>

End(c, how) ==
    /\ pc' = [pc EXCEPT ![c] = "idle"]
    /\ outcome' = [outcome EXCEPT ![c] = how]
    /\ UNCHANGED <<fields, scheduled, init, destroy>>

\* ProviderUnavailableException: a search is answered with it, a task asks why.
Refuse(c) == IF c \in Tasks THEN Goto(c, "explaining") ELSE End(c, "unavailable")

\* A task that is not to run gives its claim back; before the claim there is none.
Return(c) == End(c, IF c \in Searches THEN "unavailable" ELSE "returned")

Ask(c) == pc[c] = "idle" /\ Goto(c, "gate")

\* The gate reads the state, then the target: requireReadyTarget once for a
\* semantic search, currentActiveTarget and canInferFor for a task.
CheckState(c) ==
    \/ /\ pc[c] = "gate"
       /\ IF state = "READY" THEN Goto(c, "target") ELSE Return(c)
    \/ /\ pc[c] = "second gate"
       /\ IF state = "READY" THEN Goto(c, "second target") ELSE Return(c)

CheckTarget(c) ==
    \/ /\ pc[c] = "target"
       /\ IF set THEN Goto(c, IF c \in Tasks THEN "second gate" ELSE "embed") ELSE Return(c)
    \/ /\ pc[c] = "second target"
       /\ IF set THEN Goto(c, "embed") ELSE Return(c)

\* embed reads state and model again.
Embed(c) ==
    /\ pc[c] = "embed"
    /\ IF state = "READY" THEN Goto(c, "model") ELSE Refuse(c)

TakeModel(c) ==
    /\ pc[c] = "model"
    /\ IF model THEN Goto(c, "inference") ELSE Refuse(c)

InferenceSucceeds(c) == pc[c] = "inference" /\ Goto(c, "tag")

InferenceFails(c) == pc[c] = "inference" /\ Refuse(c)

\* The result carries the target of now; it must be the one of the gate.
Tag(c) ==
    /\ pc[c] = "tag"
    /\ IF set THEN End(c, "used") ELSE Return(c)

\* handleProviderFailure: a failure of a provider that is not READY is free.
Explain(c) ==
    /\ pc[c] = "explaining"
    /\ End(c, IF state = "READY" THEN "charged" ELSE "returned")

-----------------------------------------------------------------------------
Initialize ==
    \/ StartInitialization \/ FinishLoading \/ LoadingFails \/ LoadingDies
    \/ PublishModel \/ PublishSet \/ PublishState
    \/ ClearModel \/ ClearSet \/ BecomeUnavailable

Destroy == DestroyModel \/ DestroySet \/ StopExecutor

Call(c) ==
    \/ Ask(c) \/ CheckState(c) \/ CheckTarget(c) \/ Embed(c) \/ TakeModel(c)
    \/ InferenceSucceeds(c) \/ InferenceFails(c) \/ Tag(c) \/ Explain(c)

Next == ScheduleInitialization \/ Initialize \/ Destroy \/ \E c \in Callers : Call(c)

Spec == Init /\ [][Next]_vars

\* The thread of the executor runs; reading files and loading a model end.
FairSpec == Spec /\ WF_vars(Initialize)

-----------------------------------------------------------------------------
(* Properties.                                                             *)

TypeOK ==
    /\ state \in {"INITIALIZING", "READY", "UNAVAILABLE"}
    /\ model \in BOOLEAN /\ set \in BOOLEAN /\ scheduled \in BOOLEAN
    /\ init \in {"idle", "queued", "loading", "publishing model", "publishing set",
                 "publishing state", "clearing model", "clearing set",
                 "becoming unavailable", "over", "dead"}
    /\ destroy \in {"idle", "clearing set", "stopping", "over"}
    /\ pc \in [Callers -> {"idle", "gate", "target", "second gate", "second target",
                           "embed", "model", "inference", "tag", "explaining"}]
    /\ outcome \in [Callers -> {"none", "used", "returned", "charged", "unavailable"}]

\* Fields and statements have their types, and whoever has seen READY, even long ago
\* and even once only, finds model and set until the shutdown begins: nobody is
\* turned away behind the gate, and no attempt of a job is charged, for a provider
\* that is only starting.
GatePromisesTheProvider ==
    /\ []TypeOK
    /\ [][\A c \in Callers :
             /\ pc[c] \in {"target", "second gate", "second target", "embed", "model", "tag"}
             /\ pc'[c] \in {"idle", "explaining"} /\ outcome'[c] # "used"
             => destroy # "idle"]_vars

\* The state is decided once, however often the application gets ready.
StateIsDecidedOnce == [][state # "INITIALIZING" => state' = state]_vars

\* Every scheduled initialization makes the provider READY or UNAVAILABLE, unless
\* the server is stopped before or the thread dies of a VirtualMachineError.
InitializationSettles ==
    scheduled ~> (state # "INITIALIZING" \/ destroy # "idle" \/ init = "dead")
=============================================================================
