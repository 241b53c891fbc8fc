# Plan2Agent Memory in TLA+

This directory specifies the parts of the Plan2Agent Memory Server, of its dashboard and of
the Plan2Agent harness kept in the same repository whose correctness depends on order: which
process does what first, what a transaction saw before it waited, what a crash leaves behind,
which file is written before which, what a late answer meets. Each module is written from the
source files named in `PROJECT.json` (`map` gives file and lines for every
definition) and is checked by TLC; the `*Proofs` modules are checked by TLAPS.

Kotlin paths below are relative to
`src/src/main/kotlin/com/github/silbaram/plan2agent/memory/`, migrations to
`src/src/main/resources/db/migration/`, dashboard paths to `src/dashboard/src/` and scripts
(`*.mjs`) to `src/.plan2agent/scripts/`.

## 1. The system

The server is a headless REST service (Spring Boot, JDBC) over PostgreSQL with
pgvector. Clients write projects, iterations, document snapshots, chunks, task
graphs, tasks, runs and an artifact relation graph. Chunks are embedded in the
background by workers; search reads the result. A read-only dashboard (React)
talks to the server through a small Node backend-for-frontend (BFF). Beside the server, the
harness is a set of command-line scripts that plan and supervise the work of agents on a
project: artifacts with gates, iterations, task graphs, runs, orchestration, and proposals for
improvement. All of its state is in files.

Several server processes may share one database. There is no other shared state:
processes meet only in PostgreSQL, under READ COMMITTED, through row locks, unique
indexes, `FOR UPDATE SKIP LOCKED`, advisory locks and compare-and-set updates. Commands of
the harness meet only in files, which they read, change and write back whole, without locks.
The dashboard shares nothing with either but the REST interface.

| Component | State it keeps | Operations | Talks to |
|---|---|---|---|
| Embedding job queue (`PostgresEmbeddingJobStoreAdapter`, V3 schema) | `embedding_jobs`: status, attempts, lease owner and token, next attempt | enqueue, claim, recover expired leases, release, mark succeeded / retrying / failed, retry failed, list | worker, document writes, reconciler, REST |
| Embedding worker (`EmbeddingJobWorker`, `EmbeddingJobCompletionService`) | in each process: claimed jobs and the futures of the poll | poll, process, complete, back off | queue, provider, active profile, chunk and embedding stores |
| Backfill reconciler (`ActiveEmbeddingBackfillReconciler` and its store) | a cursor in memory per process | scan a page of chunks, repair job and typed mirror, measure coverage | queue, active profile |
| Active embedding profile (`PostgresActiveEmbeddingProfileResolver`, V2 schema) | `embedding_sets`, one active pointer | bootstrap under an advisory lock, resolve, require | worker, reconciler, search, document writes |
| Embedding provider (`TransformersEmbeddingProviderLifecycle`) | state INITIALIZING / READY / UNAVAILABLE, the target, a model handle | initialise on a thread, embed, become unavailable, destroy | worker, semantic search |
| Document and chunk writes (`WriteUseCaseServices`, `PostgresStoreAdapters`, `PostgresRunChunkAdapters`) | `documents`, `document_chunks`, `chunk_embeddings` | save snapshot, save with `paragraph-2000` chunking, save chunks | queue, active profile |
| Planning writes (same files) | `projects`, `iterations`, `task_graphs`, `tasks`, `runs` | idempotent upserts, canonical id resolution | dashboard reads, graph |
| Artifact graph (`PostgresArtifactGraphAdapter`) | `artifact_nodes`, `artifact_edges` per iteration | replace snapshot, trace from a root | dashboard |
| Chunker (`Paragraph2000DocumentChunker`) | none | cut a document at paragraph, newline and length boundaries | document writes |
| Search (`ReadUseCaseServices`, `SemanticSearchUseCaseService`, `PostgresSearchAdapters`) | none; cursors held by the client | keyword, vector, semantic and hybrid search, artifact lists, keyset cursors | active profile, provider |
| Dashboard reads (`PostgresDashboardReadAdapter`) | none | page projects, iterations, artifacts | dashboard |
| Dashboard BFF (`bff/server.ts`) | in-flight requests with a timer and a buffer each | allow-listed read-only proxy with time and size limits | server |
| Dashboard data access (`data-access/api.ts`) | calls waiting | decode answers, map failures to codes | BFF |
| Dashboard tree (`artifact-tree/ArtifactTree.tsx`) | lists loaded, disclosure, tab stop, focus | expand, page, move the focus | data access, shell |
| Dashboard search and trace (`search/`, `trace/`) | the address | parse, serialise, redirect, submit, page; lay out a graph | data access |
| Dashboard shell and viewer (`dashboardShell.tsx`, `artifact-viewer/`) | the address, the artifact loaded | select, load, show gates and linked work | data access |
| Harness: orchestration (`p2a_orchestrate.mjs`) | a plan and a runtime file per run | plan, record, next-role, mark-role, failure-policy | runs, gates |
| Harness: tasks and runs (`p2a_execute.mjs`, `p2a_runs.mjs`, `p2a_tasks.mjs`) | task graph, run files, index, sidecars | start, verify, finish, move a task | orchestration |
| Harness: iterations (`p2a_iteration.mjs`, `p2a_iteration_state.mjs`) | `iterations/`, `current-spec.json`, `status.md` | init, open, draft, promote, diff-tasks, close, compose | gates, tasks |
| Harness: proposals (`p2a_proposals.mjs`) | proposals, reviews, curations, drafts, approvals | mine, review, curate, draft-patch, approve-draft | runs, task graph |
| Harness: artifact gates (`validate_artifacts.mjs`) | none | validate intake, spec, graph, review, plan, runtime | all of the harness |
| Security, observability, configuration | counters | token check, metrics, property binding | all |

### What is hard here

* **Leases.** A job is claimed with a lease and processed outside any
  transaction. The lease may expire, another process may claim the job, finish
  it or give it up, and only then the first inference returns. The only thing
  between that answer and a wrong row is the compare-and-set on owner, token and
  attempt count, in the same transaction as the vector rows.
* **Crashes.** A process may die with running leases, with tasks queued in its
  executor, or between two statements of a transaction.
* **Counters of attempts.** A claim charges an attempt, a release refunds one,
  a recovery gives up when they are used up. Refund, charge and recovery race.
* **Readiness changes.** The provider may be lost between claim and inference;
  work must be handed back and not counted as a failure.
* **Concurrent writes of the same thing.** Idempotency is decided by a read and
  then again by a unique index. Between the two somebody else may commit: then the
  insert waits, and finds the row, a different row, or nothing because the other
  transaction rolled back.
* **Jobs for chunks.** A chunk without a job is never embedded. Writes enqueue
  in the same transaction, and the reconciler adopts what is older than the queue.
* **Deletes.** Deleting a document cascades to chunks, embeddings and jobs, also
  to a job that is being processed.
* **Bootstrap.** Two processes starting on an empty database must agree on one
  embedding set.
* **Paging.** Cursors must neither skip nor repeat while rows are inserted, and a cursor kept
  in an address must not meet another search.
* **Several files.** A harness command writes several files one after the other and may be
  killed in between; the next command should be able to finish the work, or else refuse it
  (after a death in `init` or `open` a person has to repair the files, section 8).
* **Hints.** The owner of a run asks what to do next and does it later, when other roles
  have spoken since, or somebody has recorded a result by hand.
* **Derivation again.** A task graph is derived from a spec that changes while its tasks are
  being done.
* **Late answers.** In the browser an answer may arrive for something no longer shown, and
  the item with the focus may vanish before anyone looks.

### Properties that make the components correct

| Component | Properties |
|---|---|
| Queue and worker | a chunk has an embedding exactly when its job succeeded; a running generation is known to one task only; a job is given up only with its attempts used up or its chunk unreadable; success is final; every chunk settles; the whole refines a two-state promise per chunk |
| Document writes | versions are dense and a request happens at once or not at all; chunks and jobs stay consistent with their document; what was answered is stored and queued; requests end |
| Profile | at most one active set, and it is the fixed profile; a partial or foreign pointer is never used; processes agree |
| Provider | whoever has seen READY finds model and target until the shutdown; the state is decided once; initialization settles |
| Reconciler | no chunk is left for ever without what it lacks, whatever the page size, the locks and the cursor; pages are disjoint; coverage adds up |
| Planning writes | a graph keeps its canonical id and everybody is answered it; a run id keeps its meaning; requests end |
| Graph | a snapshot is replaced as a whole; trace returns each node once with its shortest depth |
| BFF, data access | the user is told what happened, an answered call holds nothing, every call is answered |
| Tree | one tab stop, and the focus follows it |
| Search, trace routes | a cursor stays with its search, a redirect changes nothing, a submit is never silent; the layout shows the answer |
| Shell and viewer | all panes show one version of one artifact; a gate is approved only where an approval is recorded |
| Orchestration | finishing is offered only when everyone is through whom no record by hand marked or passed over, and nothing is open; a blocker is never lost; what is planned is accepted; runs end |
| Tasks and runs | index, run, runtime and graph agree; done means confirmed; finishing again settles |
| Iterations | closed means closed and never written again; a chain composes without conflict; every change is planned once; numbers keep their work; a failed init leaves no half in use |
| Proposals | approved work has one task; decisions survive unless a mine is told to overwrite; candidates are earned |
| Artifact gates | the hand-off is settled; graphs are refused exactly for cycles and unknown tasks |
| Chunker | chunks are within the limit, in order, cover the content, and their ids are a function of document, index and text |
| Search | a page boundary loses or repeats no row that exists throughout; one search never mixes two embedding sets |

## 2. Modules

| Module | Models | Role |
|---|---|---|
| `EmbeddingJobs` | job table, worker, completion transaction, provider readiness, reconciler's adoption, retry endpoint | detailed specification |
| `EmbeddingQueue` | the promise made to each chunk | abstract specification |
| `EmbeddingJobsProofs` | theorems about `EmbeddingJobs`, its refinement included, and `Backfill` | proofs |
| `Backfill` | the reconciler's pages and cursors, beside writers and the worker | detailed specification |
| `DocumentWrites` | snapshot and chunk requests at statement granularity | detailed specification |
| `DocumentHistory` | an append-only history of contents with their queued chunks | abstract specification |
| `ActiveProfile` | resolving, requiring and bootstrapping the active embedding set | detailed specification |
| `WritesProofs` | theorems about `ActiveProfile` and `DocumentWrites`, its refinement included | proofs |
| `ProviderLifecycle` | initialization, shutdown and callers of the embedding provider | detailed specification |
| `GraphTrace` | the recursive query of a trace, and breadth-first search | functions and their reference |
| `GraphTraceProofs` | theorem about `GraphTrace`, and lemmas for induction | proofs, used by the others |
| `ArtifactGraph` | replacement of graph snapshots, and traces in three statements | detailed specification, uses `GraphTrace` |
| `PlanningWrites` | requests that save task graphs, tasks and runs, at statement granularity | detailed specification |
| `ServicesProofs` | theorems about `ProviderLifecycle`, `ArtifactGraph` and `PlanningWrites` | proofs |
| `OrchestrationRuntime` | what commands compute from a runtime file | functions, used by the next and by `TaskRuns` |
| `Orchestration` | a supervised run, its roles and its owner | detailed specification |
| `OrchestrationPlan` | plans, from tasks, options and providers | detailed specification |
| `ArtifactGates` | the files of a plan and the validator | detailed specification |
| `OrchestrationProofs` | theorems about `Orchestration`, `OrchestrationPlan` and `ArtifactGates` | proofs |
| `TaskRuns` | start, finish and task commands as reads and writes of files | detailed specification, uses `OrchestrationRuntime` |
| `TaskRunsProofs` | theorems about `TaskRuns` | proofs |
| `IterationLifecycle` | iterations, the active pointer, closing and composing | detailed specification |
| `SemanticDiff` | the task graph derived from a changed spec | detailed specification |
| `Proposals` | from run logs to approved maintenance tasks | detailed specification |
| `IterationLifecycleProofs` | theorems about `IterationLifecycle`, `SemanticDiff` and `Proposals` | proofs |
| `BffRequest` | one call through browser, BFF and backend | detailed specification |
| `ArtifactTree` | the tree and its roving focus | detailed specification |
| `SearchNavigation` | the search page, whose state is its address | detailed specification |
| `BrowseReader` | the browse page with the viewer in it | detailed specification |
| `TraceView` | the trace page: its address, layout and hierarchy | detailed specification, uses `GraphTrace` |
| `DashboardProofs` | theorems about `BffRequest`, `ArtifactTree`, `SearchNavigation`, `BrowseReader` and `TraceView` | proofs |
| `MCEmbeddingJobs` | `EmbeddingJobs`, `Backfill` | instances for TLC |
| `MCWrites` | `ActiveProfile`, `DocumentWrites` | instances for TLC |
| `MCServices` | `ProviderLifecycle`, `ArtifactGraph`, `PlanningWrites` | instances for TLC |
| `MCOrchestration` | `Orchestration`, `OrchestrationPlan`, `ArtifactGates` | instances for TLC |
| `MCTaskRuns` | `TaskRuns` | instance for TLC |
| `MCIterationLifecycle` | `IterationLifecycle`, `SemanticDiff`, `Proposals` | instances for TLC |
| `MCDashboard` | `BffRequest`, `ArtifactTree`, `SearchNavigation`, `BrowseReader`, `TraceView` | instances for TLC |

An `MC` module holds several components that do not share state. A constant variable `focus`
says which of them a behaviour runs; the others stay as they started. So the state space is the
sum of those of the components and not their product, and each property speaks of the behaviours
of its component. Where liveness needs a smaller instance than safety, the same component has two
values of `focus`. An `MC` module extends its components, so the names of two components of one module differ
(`SavesInit`, `GraphNext`, `DiffSpec` and so on), and a property is the definition of the component itself: the same the theorem
states of the specification of the component.

### EmbeddingJobs

State: `chunk`, `embedding` and `job` are the committed rows of three tables;
`tasks` are the `process()` calls a worker has submitted, each with its own copy of
the claimed row (`gen`, `attempt`) and its place in the code; `poll` is where the
scheduled method stands; `provider` is the lifecycle state of the embedding provider.

* A job is identified by its chunk. The table is unique on (chunk, embedding set)
  and workers claim for the active set only.
* Each SQL statement is one action. The completion transaction is three
  (`BeginCompletion`, `InsertEmbedding`, `CompleteJob`), because its `now()` is read
  at the beginning and its insert may wait for another transaction's row.
* Time is nondeterministic: a lease is live or expired. `OrphanLeaseExpires` ends the
  lease of a task that no longer exists; `LeaseExpiresEarly` ends one in use, which
  stands for a slow inference, a batch longer than its lease (leases are counted from
  the claim, tasks wait for a thread), or clocks that disagree.
* A legacy chunk has neither job nor vector here. Chunks that were embedded before the queue
  existed and are queued later are in `Backfill`.
* `poll()` waits for its futures in order. When one fails the rest of the batch stays
  in the executor and the next poll starts (`AbandonPoll`, `awaited = FALSE`).
* A crash (`Crash`) forgets the memory of a process and keeps the database.

`ProviderLost` covers a failed initialisation and `destroy()` while tasks drain. The
second keeps the state READY while the model is gone, so the next inference fails and
the failure is charged: `InferenceFails` needs no other cause.

### DocumentWrites

State: the committed rows (`documents`, `chunks`, `jobs`), the uncommitted rows of each
open transaction (`newDocs`, `newChunks`, `newJobs`) and the local variables of the
request. A statement sees what is committed when it starts and what its own
transaction wrote. An insert into a unique index waits while another transaction
holds an uncommitted row under the same key (`WaitsFor`); then it finds the row,
is refused, or goes on. PostgreSQL breaks cycles of waits (`BreakDeadlock`).
`Interrupt` is a lost connection or process at any statement. `stage` is the next statement of a
client; a loop over chunks keeps in `todo` the positions it has still to come to, and takes
the least (`NextChunk`). The names of the module differ from those of `ActiveProfile`
(`WritesInit`, `Advance`, `RollBack` and so on), so that `MCWrites` can extend both.

One logical scope is modelled. Validation of requests that never reach a write (unknown
project, chunks of another document, duplicate ids inside a batch) is left out:
`Batches` holds bodies that pass it. An active embedding set is assumed, as its
absence refuses every chunk write.

### ActiveProfile

State: `sets` and `active` are the committed rows of `embedding_sets` and the pointer of
`embedding_active_profiles`; `newSet` and `newActive` are what an open transaction has
inserted and nobody else sees; `lock` is the holder of the transaction-scoped
advisory lock; `pc`, `call`, `found` and `answer` belong to each caller. The calls are
`resolve` (provider initialisation and every poll), `require` (a chunk write) and `find` (the
reconciler); they differ in what they accept and in whether they may bootstrap.
`Init` takes its tables from `Databases`, any the schema admits (`Legal`), the corrupt ones
included: a pointer at a set of another profile, a set without a pointer. The lock is
released by `Commit` and `Rollback` only, and for a chunk write these come when its whole
request ends.

### ProviderLifecycle

State: the three atomic fields of the provider (`state`, `model`, `set`), the next statement of
the initialization thread and of `destroy`, and of each caller. Every read and every write
of a field is a step of its own, as no lock covers two of them. A task passes two gates
(`currentActiveTarget`, `canInferFor`), a search one (`requireReadyTarget`); both then
call `embed`, which reads the state and the model again, and look at the target once more
(`Tag`). The executor may refuse the initialization, and `shutdownNow` drops it
while it is queued; one that runs goes on and may publish after `destroy` has cleared the fields.
The resolution of the active set, the checksums and the loading of the model are one choice between
`FinishLoading`, `LoadingFails` and `LoadingDies` (an error of the virtual machine).

### Backfill

State: the rows of four tables that matter for the active set (`stored`, `job`, `vector`,
`mirror`), the row locks other transactions hold (`locked`), the cursor of each process and
the progress of each reconciling thread. `ReadCursor`, `ScanPage`, `WritePage` and `SetCursor`
are `reconcileNow`; the one SQL statement is two steps, because between its row locks and its
commit other threads scan and skip what it holds. `LosePage` is a failed statement, which
leaves the cursor alone, and `Restart` a new process, whose cursor is null. Writers and deletions
are `Lock` and `Unlock`; the worker is `Claim`, `Complete` and `GiveBack`, without
leases (they are in `EmbeddingJobs`). A completion that finds an equal vector keeps it and does not
look at its mirror; a vector of another dimension fails it.

### GraphTrace and ArtifactGraph

`GraphTrace` has no state. `Walks` is the recursive common table expression (all simple
paths, one level further than asked), `Depths` its `GROUP BY`, `Trace` the split into
answer and `truncated`. `Ball` and `Reference` say independently what a trace should find.

`ArtifactGraph`: `nodes` and `edges` are committed rows; `seen` and `newNodes` are what an
open transaction has deleted and inserted. `Ask` is the validation and the moment the
`DELETE` starts, hence what it sees; `DeleteScope` is its end, after waiting for the rows
that others are deleting. Rows inserted by others in between stay. `InsertNode` may wait for
an uncommitted row or an uncommitted deletion under its key, and is refused by a committed
one. Edges need no statement of their own: their nodes are new, so they clash with
nothing; edge ids are taken to be fresh. A `DELETE` locks its rows at once in the model, so
two of them that lock common rows in different orders do not deadlock here; the
deadlocks of inserts are there. A trace is `ResolveRoot`, `WalkGraph`,
`CollectEdges`, each on the state of its moment.

### PlanningWrites

State: `stored` holds the committed rows of three tables, `own` what each open transaction
has written to the one table it works on; `todo` and `ready` are the rows it has still to look up
and to write, `result` the ids it will answer. The three requests share their shape: check
(`CheckGraph`, `CheckTasks`, `CheckRun`: what the use case reads and refuses), look up
(`ResolveGraph`, `ResolveTask`, `ResolveRun`: what the store adapter reads before it writes) and
`WriteRow`, the upsert. `Target` is the arbiter of `ON CONFLICT`: graphs are found by their source
key, tasks and runs by their id; a clash under the other unique index is an error. A task graph is
looked up twice, by use case and adapter, and both are modelled. The two queries of one lookup are one
step: a row committed between them is met again by the upsert. A row stands for its
identity and for what a later request compares: the hash of a graph, the graph and dependencies
of a task, the task of a run. `known` is a history variable.

Left out: the optional source document of a graph, which is only required to exist, and the checks
of project and iteration, which never change once stored.

### OrchestrationRuntime and Orchestration

`OrchestrationRuntime` has no variables: `AppendEvent` is `appendRuntimeEvent` with everything it
derives (questions asked and answered, the phase, what is blocked and what needs the user), `NextRole`
the scheduler's hint, `MarkRoleEvent` the event of mark-role, `PolicyAction` the failure policy and
`ValidRuntime` the validator every write passes. `Orchestration` gives the runtime file (`rt`) to an
owner, who asks for a hint, acts on it later, and finishes the run, and to roles that ask, object
and are sent back in between. Each command is one step here, as the owner records what the roles
report; a command that dies halfway is in `TaskRuns`.

`Record` is the `record` command, and mark-role with a `--phase`: any event of `Recorded`, with the role status
and the phase it is given, or the phase its type stands for. So a verification or a verdict recorded while a role still works makes
the run ready, as `nextPhaseForEvent` does. `byHand` remembers the roles such events have marked or, by a phase,
passed over (`PassedOver`), until mark-role completes them; `ReadyMeansEveryoneIsDone` speaks of the others. What it says of
open questions, decisions and blockers, and `BlockerStopsTheRun` of blockers, has no such exception.

### OrchestrationPlan

`Plan` is the plan command: it selects a ready task, the mode, the roles, their profiles and providers
(`Built`), refuses what providers cannot do (`CapableRole`, `ReviewerCompatible`) and validates the
result with the check that every later reader applies (`ValidPlan`). `Progress` moves the tasks.
The text of a task counts only for the specialist it calls for; an option is given or left to the
command (`LeftOut`), and `Profiles` are the provider profiles the project may have.

### ArtifactGates

State: what intake, spec, task graph, review and status document hold of what the gates look at.
People and agents write them in any order (external), and `ValidRoot` and `HandoffReady` say
what the validator answers. `Visit` is the recursive walk of `detectCycles`, a function of what is being visited, what is
still to do and what is visited; `CyclesAreFound` compares its answer (`Cyclic`) with `Reaches`, which says by closed sets that a task depends on another.

### TaskRuns

State: `graph`, `runs`, `index`, `sidecar`, `runtime` and `verdict` are files; `call` is the process
each owner is running, with its place in the code, what it has read and what it was asked for. A start
creates the run, indexes it, attaches the plan and the runtime, and then starts the task; a finish
verifies, asks the gate, finishes the run, updates the runtime and settles the task. The graph and
the index are read and written in separate steps, so commands on different runs overwrite each other.
`Crash` ends a command at any point.

`Requests` says what each owner may ask of a finish: whether it verifies, a `--status`, a `--failure-class`. `FinishStatus` is what the
child makes of it: it refuses a class that does not go with the status, requested or derived, and writes a failure it derived from the
checks itself when a class is there for it. The parent did not ask for that failure and exits at once, so runtime and task
wait for the next finish. `FinishAgain` is an owner in `Upset` who finishes an unsettled run again to the status it has; it is a step of `Begin`, whatever `Requests` holds.

### IterationLifecycle

State: `current` and `status` are current-spec.json and status.md, `iter` the directories, `todo` the
writes a command has decided on and still has to make. A command reads and decides in one step and then
writes file by file; it may die in between (`Die`), and a file operation of init may fail (`Fail`). The writes of `InitProject`
are those of applyPlan to the last, the README of the maintenance directory (`Readme`), so `Fail` may come
when current-spec.json and status.md are written already: init moves the gates back and leaves both files, and every
command refuses what they name. A spec is the set of changes it carries. `Author` and
`ApproveTasks` are what people and agents do between the commands.

### SemanticDiff

State: the change of each field of the spec, as the area its words put it in, and the tasks of the
graph. `DeriveTasks` derives the graph: groups per area (by their position in the list of areas), tasks reused by fit, new numbers, dependencies.
p2a_tasks moves tasks in between, and `EditSpec` edits the spec. `PromoteDraft` puts a graph in place that a person or an agent wrote
(`Authored`), with any areas, titles and numbers that pass the validator; `promoted` remembers that the graph is such a one. The words of the spec are abstracted to the area they
score for, any an editor may choose, and those of a title to the areas the first word of whose label is in it (`words`): that is
what the title point of reusableTaskScore looks at. The title of a derived task is the label of its area, except that of
verification (`TitleWords`); a title somebody wrote may name any area.

### Proposals

State: the logs of the runs, and every file the commands make of them. A file whose name is a hash of what it
says is its own identity. `Mine` leaves a proposal that is on file as it is, unless it is told to `--overwrite` (`Written`); `ApproveDraft` writes the task graph and leaves the approval file to
`WriteApproval`; `DieApproving` may come between.

### BffRequest

State per call: what the browser sees (`client`), where the handler is (`bff`), its timer, the exchange
with the backend (`conn`, `got`), the error it is about to catch, and the answer. `happened` is a history
variable. `Send` is the request with all the checks that may refuse it, in the order of the code
(`Faults`, `Refusal`); `Headers`, `Chunk`, `Complete` and `Break` are what the backend does; `TimerFires` and
`Catch` are the time limit and the handler's catch; `Deliver` is what the browser makes of the answer.

### ArtifactTree, SearchNavigation, BrowseReader, TraceView

`ArtifactTree`: a node is the path of names to it. `Arrives`, `Fails` and `Forget` change what a list holds;
every change schedules the check (`Commit`), and `Reconcile` is the microtask. `focus` is the focus of the
document, which the browser moves to the body (`Lost`) when its element goes.

`SearchNavigation`: `Parse`, `Serialize`, `KeyOf` and `FromForm` are the functions of searchUrlState.ts over
parameters that are absent, empty, junk or good. `Redirect`, `Submit`, `NextPage`, `Back` and `EditAddress` are
what changes the address. `Sent` is what a search sends of its inputs, since only a hybrid one sends the fusion. The key of the inputs is an injective function here; in the code it is a
hash of 32 bits.

`BrowseReader`: `SelectArtifact` and `Open` change the address, `RunEffect` asks for what it names and aborts what was
asked before, `Answered` delivers, and the panes are functions of the state (`Reader`, `Context`, `GateShown`, `LinkedWork`).

`TraceView`: the graph, as edges are stored, and the direction and depth of the address. `OpenTrace` and `ChangeSettings` change the
address; what is shown are `Position`, `Drawn` and `NodeHierarchy` of the answer `GraphTrace` gives.

## 3. Runs

| Run | Instance | Question | Result |
|---|---|---|---|
| `jobs` | queue: 2 processes, a legacy and an unreadable chunk, 2 attempts, 1 thread; batches of 1 with 2 disturbances, and batches of 2 with 1; reconciler: 2 threads with one cursor, 2 chunks, pages of 1, 2 locks or mishaps | Do rows, leases and embeddings stay consistent when leases are lost, workers crash, chunks go and operators retry; are pages disjoint and alive; does the queue implement its promise, and every chunk settle and get what it lacks? | holds |
| `writes` | profile: 3 callers, 3 set ids, 7 databases, four of them corrupt; documents: 2 clients, 3 requests, 3 contents, 3 document ids, a captured document with one of its two chunks stored | Do all callers agree on one set and corruption fail closed; do concurrent, interrupted and deadlocked writes add up to an append-only history; does every request end? | holds |
| `services` | provider: 1 task, 1 search; graph: 2 clients, 1 reader, 3 requests, 5 snapshots; planning: 2 clients, 3 requests, 5 graphs, 5 batches, 4 runs | Does the gate promise a model and a target; are snapshots whole, scopes separate, undisturbed traces exact; do graphs and runs keep their identity; does everything settle? | holds |
| `orchestration` | run: every mode, 2 questions, 1 concern, 1 redo; run by hand, and its end: 1 question, 1 event of 12 recorded by hand; plan: 3 tasks, every option; gates: 1 decision, 1 question, 6 graphs | Is finishing offered only when all are through who were not passed over by hand, is trouble never lost, are plans accepted, is the hand-off settled, and do runs end? | holds |
| `task_runs` | 2 tasks in a chain, 2 runs, one gated, 1 crash or command by hand; the gated run is finished with and without checks, without a status, as failed, as blocked, and with a failure class | Do the files of a run agree, is done confirmed, and does finishing again settle? | holds |
| `iteration` | iterations: 3, 1 death, 1 failure, 1 `--force`; closes: the same with 2; tasks: 2 fields, 3 edits, 2 derivations or promotions of a written draft, 2 moves; proposals: 2 runs, 2 approvers, 1 death, 1 overwrite | Is history final, do chains compose, is every change planned once, do numbers keep their work, is approved work tracked, and is interrupted work completed? | holds |
| `dashboard` | calls: 1, limit of 2 chunks, 1 crash; tree: 3 nodes in 2 levels; search: 1 text, 1 setting, 3 pages; reader: 4 artifacts in 2 iterations, 1 write; trace: 4 nodes, every set of 8 edges, depths 1 to 3 | Is the user told the truth and nothing held; does the tab stop stay and the focus follow; does a cursor keep its search; is one artifact shown; is the traversal breadth-first and the layout faithful? | holds |
| `documents_repeated_chunk` | 2 clients, 2 requests | Is a repeated chunk hash always answered with the stored chunk (README.md:785)? | violated |
| `graph_replaced` | 2 clients, 2 requests | Does a scope hold one snapshot (README.md:868)? | violated |
| `planning_dependencies` | 2 clients, 3 requests | Do tasks depend on tasks of their own graph only, as the tests demand? | violated |
| `task_runs_gate` | as `task_runs`, every finish verifies and may be asked to finish | Does a gated run finish only when confirmed (batch-execution.md:54)? | violated |
| `diff_tasks_force` | as `iteration`, tasks, without a draft | Does a graph keep its tasks once one was worked on (replacement-and-promotion.md:13)? | violated |

Several properties are conjunctions of named parts, each stated and commented in its module:
`JobsAreConsistent` joins the types, `EmbeddedIffSucceeded`, `LeaseNamesItsTask`, `LeaseFieldsMatchStatus` and
`RetryingHasAttemptsLeft`; `ProgressIsKept` joins `SuccessIsFinal` and `GivesUpOnlyWhenExhausted`; and so on.

Bounds. `MaxDisturbances` counts mishaps (crashes, leases lost early, contract
violations, lost providers, operator retries). Two are enough to lose a lease and crash
the process that took it over, or to retry what failed because of a lost lease. Two
attempts separate the first failure from the last. Two processes are enough since a
statement names at most two parties, the caller and the lease owner. In
`DocumentWrites`, `PlanningWrites` and `ArtifactGraph`, three requests let two clients race while the
third meets what they left behind, and requests that store the same rows in opposite orders make two
wait for each other; the instances whose liveness is checked have two requests.

In `Backfill`, pages of one chunk among two make every page a full one and every cursor matter;
two locks let both chunks be skipped, or one chunk twice. One process
is the hard case: with a second process, whose cursor starts elsewhere, a chunk that the first
has left behind would be found by the other. A task and a search are enough for
`ProviderLifecycle`, as callers do not interact; the proof covers any number.

Two questions make the choice of the one that an answer settles matter; one redo makes every role
complete, incomplete and complete again. One event by hand is met by every scheduled step before and after it; the kinds in `RecordedDef`
are a result that moves the phase, verdicts, roles marked out of turn, the phase set ahead, back and to the end, and trouble added or answered,
and the proof covers any number of events of any kind. Three tasks cover each mode, and one that waits for two
others each way of being ready. In `ArtifactGates` what can go wrong with a second decision or
question goes wrong with the first, as each is judged by itself. Two runs are the least that
overwrite each other's task in the graph; a second crash meets what the first left. No finish of `task_runs` is asked
for the status `finished` by its owner's choice: over a failed check without a verdict such a run can only be finished again as failed, which is
the disagreement `task_runs_gate` shows; to finish again a run that finished is there (`FinishAgain`). Three iterations are the least that
compose a stale one between two others; with one death each command is killed at each of its
writes. Three edits change a field, change it back, and change it into another area, with graphs
derived in between. The draft of `iteration` has two tasks under areas of their own whose titles name other areas; `diff_tasks_force` has none, so that
it is `diff-tasks` which replaces the tasks there. Two runs are what a candidate on repeated failures needs.

Calls through the BFF share nothing, so one is enough; a limit of two chunks has answers below, at
and above it. In `ArtifactTree` three nodes give each kind of neighbour the code looks for: next,
previous, parent, first; of two parents the closer one is covered by the proof. Three pages let a cursor be kept, carried forward and lost in the middle.
A task and its twin of the same name make linked work ambiguous; one write separates the version
read from the one stored. Eight edges between four nodes are enough for cycles beside paths of different lengths.

Deadlock is checked in `jobs` and `orchestration`. It is off where the system may stop: when
requests, writes, deaths or commands are used up.

In the model as in the code an `OutOfMemoryError` while the model is loaded (`LoadingDies`) is
thrown again before `transitionToUnavailable`, so the provider stays INITIALIZING until the process
is restarted: later ready events find `initializationScheduled` set. `InitializationSettles` excepts
it by name. Callers are turned away as they are for UNAVAILABLE; what differs is the reported state.

`planning_dependencies` shows that a batch which sends a stored task again under a new id, and
another task that depends on that new id, is accepted: the new id belongs to the batch. `saveAll` then
stores the first under the id it already had, and the second keeps a dependency on an id
that no task has. A task that moves to a graph of another iteration leaves dependencies behind in the
same way, and runs whose iteration is no longer that of their task. The window in which a
run id can change its meaning is that of overlapping first writes; `IdentitiesLast` says
that a run which was stored all along since a request began is not moved by it.

`graph_replaced` shows two overlapping replacements of one scope: the
second `DELETE` starts before the first transaction commits, so it does not see the first's
rows, and when ids and keys of the two snapshots differ nothing refuses the second's rows.
Both snapshots remain in the scope, each complete. When they share a key the second
request is refused by the unique index instead, which surfaces as a server error.
The next undisturbed replacement repairs the scope (`LoneReplacementReplacesAll`, a part of `ReplacementTakesItsScope`).

`documents_repeated_chunk` shows a race: request A reads the existing chunks and finds no row
with hash h; request B stores h under another chunk id and commits; A's
`saveAll` now returns B's row, and `newlySavedChunks.first { it.id == chunk.id }` finds
no row with A's id. The request ends in `NoSuchElementException`, which the REST layer
maps to 404, while the documentation promises the existing chunk. Nothing wrong is stored.

`task_runs_gate` shows a `finish` that verifies and is asked for the status `finished`: when the verification
fails, runFinish does not ask the gate (p2a_execute.mjs:889), and the requested status stands. The run
is finished, its task done, and no verdict was ever given. With no requested status the same finish is
`failed`, as it should be.

`diff_tasks_force` shows a task that was started and whose change is then edited away: `diff-tasks --force` derives the
graph anew and the task is gone, its run history without it. The document calls the command the
check that run history forbids a replacement; the code looks at no status and no run.

## 4. Fairness

* `EmbeddingJobs`: weak fairness of the poll's steps, the tasks of a process, the
  reconciler, backoff and orphaned leases: `@Scheduled` methods run again after
  each run, a fixed thread pool always takes the next task, and clocks advance. `Restart`
  is fair because without a provider nothing can be embedded; the README of the server
  tells the operator to restart. No request, deletion or disturbance is fair. Fairness
  of a task step is stated for all tasks of a process together, because one thread may
  serve them in any order.
* `ProviderLifecycle`: the initialization thread runs and file access ends. Shutdown and callers
  are not fair.
* `Backfill`: the schedule calls `reconcileNow` again and again, and transactions end. The worker,
  the writers and mishaps are not fair; without a bound on locks a chunk that is locked at every
  scan would be skipped for ever.
* `ActiveProfile`: statements end, and PostgreSQL serves those who wait for an advisory lock in
  turn, hence strong fairness of `AcquireBootstrapLock`.
* `ArtifactGraph`: statements that do not wait end, and a cycle of waits is broken.
* `DocumentWrites` and `PlanningWrites`: a statement that does not wait ends, and PostgreSQL's
  deadlock detector aborts a member of each cycle. Interrupts are not fair.
* `Orchestration`: the owner keeps acting on the hints. Roles, which may ask and object, are not fair, nor is what is recorded by hand. `RunsEnd` is
  checked with one event by hand; a runtime closed by hand is left out of what it promises, as a finish then leaves the run as it is.
* `TaskRuns`: an owner who was interrupted finishes the run again to the status it has, again and again until it takes
  (strong fairness, as the other owner's commands come in between), and processes run to their end. The step is one of
  `Next` in every state where a task is unsettled and its owner idle, so the condition schedules it and excludes no crash.
* `IterationLifecycle` and `Proposals`: a command runs to its end unless it is killed, and who was
  interrupted gives the command again.
* `BffRequest`: timers fire and the event loop runs what is ready. Nothing is expected of the backend.

The `MC` modules state these conditions for the component a behaviour runs, as antecedents of the
liveness properties (`EveryRequestEnds`, `EverythingSettles`, `RunsEnd` and the like).

## 5. Proofs

Every safety property that a passing run checks, invariant or action property, is also the statement of a
theorem, for all values of the constants under the named assumptions of the modules (`ConstantsAssumption`,
`WritesAssumption` and so on). What remains with TLC is liveness (at the end of this section).

### The queue and the reconciler (`EmbeddingJobsProofs`)

For all sets of chunks and processes, finite or not, and all values of the bounds:

* `JobsStayConsistent`: the invariant `JobsAreConsistent`, whose parts are theorems of their own
  (`TypeCorrect`, `EmbeddedExactlyWhenSucceeded`, `LeasesNameTheirTasks`, `LeaseFieldsAlwaysMatch`,
  `RetriesHaveAttemptsLeft`), from the inductive invariant `Inv` (`InvariantHolds`);
* `ProgressNeverUndone`: the action property `ProgressIsKept`, from `SuccessNeverUndone` and
  `GivingUpIsJustified`;
* `QueueKeepsItsPromise`: `ImplementsQueue`, the refinement of `EmbeddingQueue`;
* `BackfillStaysConsistent`: `BackfillIsConsistent`.

The argument. `EmbeddedIffSucceeded` is not inductive by itself: a completion commits when
`Holds(t)`, and one must know that no other task holds the same generation, otherwise
two completions could both pass the compare-and-set. `LeaseNamesItsTask` says so: a
generation belongs to one task, and while it runs, the row's attempt count is the one
the task copied. It needs that a task never outlives its row in a way that lets a later
row reuse the generation (`OutlivedJobsAreDeleted`: the row disappears only with the
chunk, and a deleted chunk never returns) and that jobs exist only for stored chunks
(`JobsHaveChunks`). `RetryingHasAttemptsLeft` and `GivesUpOnlyWhenExhausted` compare a
decision made from the task's copy with the row at the time of the write; they need
`DecisionsAreBacked` and again `LeaseNamesItsTask`. Each action is one step of the
proof, with one step per conjunct it can disturb.

For the reconciler `PagesAreApart` is the inductive form of disjoint pages: a page holds stored chunks that
nobody has locked. The coverage adds up because its counts partition the stored chunks
(`CoveragePartitions`), which needs that a chunk that is gone has left no job (`JobsHaveTheirChunks`).

### Profile and documents (`WritesProofs`)

For any number of callers, `CallersServedAlike`: callers and
tables keep their types, everybody who is answered is answered the active set (`CallersAgree`), and
only a corrupt database refuses (`OnlyCorruptionRefuses`); and `CorruptionFailsClosed`: a corrupt
database is never completed nor used. The inductive invariant
relates the lock to the place of its holder: rows not yet committed belong to the holder only,
and whoever decided to bootstrap did so on tables that nobody has changed since.

For any number of clients, any batches, any splitting of contents
and any stored past that keeps the keys (`WritesAssumption`):

* `DocumentsStayConsistent`: `DocumentsAreConsistent`, that is dense versions, the unique and foreign
  keys of chunks, a job with every chunk, and true answers;
* `HistoryIsImplemented`: `ImplementsHistory`, the refinement of `DocumentHistory`.

What is committed says too little by itself: a commit could bring in a version twice, or a chunk
under a key that is taken. The inductive invariant (`WritesAreSound`) therefore speaks of
what is not committed yet: one transaction at most holds a new snapshot (`OneWriter`), and its version is
one above all others (`Inserted`); the rows of all open transactions keep the unique keys
together with the committed ones (`Keys`), which is what waiting is for; and each
transaction knows its snapshot, lists only what is stored, and has queued what its loop is through
with (`OnDocument`, `Storing`, `Queueing`). A step of one client disturbs no other, as tables
only grow (`SoundIsKept`). For the refinement, no step but a commit can be seen; the versions of
a table that is dense are unique (`VersionsAreUnique`, by counting), so the history is a
sequence, and a commit appends to it or leaves it (`HistoryGrows`).

### Provider, graph and planning (`ServicesProofs`)

For any number of tasks and searches, `GateKeepsItsPromise` and
`DecidedOnce`. The invariant has three parts beside the types: `Once` (one
initialization at most, and it writes the state last), `Published` (in the state READY and before
the shutdown, model and set are published) and `BehindTheGate` (a caller
behind a gate has seen READY, which is then still so). No one of them is inductive alone.

For any scopes, snapshots, queries, clients and readers:

* `GraphStaysConsistent` (`GraphIsConsistent`). That a stored snapshot is there as a whole survives a
  commit only if what a `DELETE` has seen is itself made of whole snapshots (`SeenSound`), if what is inserted are
  the first rows of the body and clash with nothing that stays (`InsertsSound`), and if two open
  replacements keep apart (`Disjoint`). `NodesAreSound` joins them over what is committed.
* `ReplacementsTakeTheirScope` (`ReplacementTakesItsScope`), from the same invariant (`GraphInv`): when nobody else
  replaces the scope, what was seen is all of the scope.
* `UndisturbedTracesAreExact` (`UndisturbedTraceIsExact`): as long as nothing was committed since its first
  statement, what a trace has found is what the present graph would give (`ExactInv`), and
  every node found is a stored row (`TracesMeetStoredRows`). That the query itself is a
  breadth-first search is the theorem of `GraphTraceProofs`.

For any clients, batches, graphs and runs, `RowsStayKeyed` and `IdentitiesHold` (`IdentitiesLast`). An upsert
decides by ids and keys at once, so the invariant (`SavesInv`) keeps both unique, in each
table (`TablesAreKeyed`), in what each transaction sees, and between what two have written (`Apart`). `GraphSound`
says that a graph is looked up and written under the key that was asked for, and that the row written and
a stored one are the same graph by id when they are by key; `RunSound` that a run which stayed
as the request knew it is written as it is.

### Traces, and induction (`GraphTraceProofs`)

`TracesAreBreadthFirst`: for every graph, root, direction and depth, `Trace` gives what `Reference` gives. The
walks of the recursive query are simple paths with their length, the balls of the reference forget
paths. A walk stays in the ball of its length (`WalksStayInBalls`), and a node of a ball that is in no
smaller one is the end of a walk (`ShortestWalksExist`: the walk to its neighbour
cannot have met it before). So least depths are distances (`DepthsAreDistances`).

The library's induction theorems take an operator as a parameter, which the provers used here cannot
instantiate. Induction over numbers is done by the least counterexample instead: `LeastNumber` comes from
`WFMin` of WellFoundedInduction, and `AllNumbers`, `Iterated` (an iterated function has its
values step by step), `Counted` and `RecursionByMeasure` (a recursive function whose calls
weigh less has the value its definition names) follow. The proofs about folds and recursive functions rest on these.

### The dashboard (`DashboardProofs`)

`CallsAlwaysEndWell` (`CallsEndWell`), for any number of calls, any limit and any number of crashes. Calls share only the process, so the
invariant speaks of one call at a time (`Sound`), as a predicate of its values alone: each action
has one lemma that shows its call sound afterwards, and `OneCall` carries the others over. What
is shown is not inductive by itself. The invariant adds that an exchange still in progress has
nothing to its name, that what the handler is about to catch is the first thing that went wrong
(`ErrorIsTrue`), that the answer waiting for the browser is already true, and that a call whose
result is shown is not in progress any more. The crash is one step of every call.

`TabstopIsKept` (`TreeKeepsItsTabstop`), for every tree of projects. `TreeInv` says that the check is due or the active
item is shown, and that the item which had the focus last is the active one or the focus is about to go there.
It rests on what a list of shown items is (`InOrderIsTheSet`, `ItemsAreShown`) and on `ForgettingHidesNothing`
and `ClosestIsAnItem`: what takes the place of a lost item is shown.

`CursorsAreKept` (`CursorsKeepTheirSearch`) and `SearchesAreNeverLost` (`SearchIsNotLost`), for any texts and settings. An address is sealed
(`Sealed`) when the key beside its cursor is missing or that of the inputs the cursor was issued for; every address the
program writes is, and so is what a person may type in the model. The redirect happens once because reading what was
written gives what was meant (`RoundTrip`).

`ReadingStaysWhole` (`ReadingIsOfOneArtifact`): viewer and page each hold an answer as a whole, and of one artifact both hold one version (`ReaderInv`).

`TracesAreShownWhole` (`ViewIsTheTrace`) and `GraphsAreTracedBreadthFirst` (`TraceIsBreadthFirst`), for any graph and any order of its edges:
the places of two nodes differ because those of one column are counted in a strict order, and the marks are those of the edges met so far,
by induction on the order (`HierarchyIsMarked`).

### Orchestration, plans and gates (`OrchestrationProofs`)

For any number of questions, concerns, roles sent back and events recorded by hand, of any type, role, status and phase,
`RuntimeStaysConsistent` (`RuntimeIsConsistent`: the file passes the validator, trouble stops the
run, retries are justified) and `ReadyRunsAreDone` (`ReadyMeansEveryoneIsDone`). The inductive
invariant (`RunIsSound`) has the shape of the file, `TroubleIsKept` (blockers and rejections are
in `status.blocked`, which nothing clears), `PhaseFollowsRoles` (the phase runs no further
ahead than the roles) and `HintStillHolds`: an old hint still tells the truth about the roles before
the one it names, which is why an owner may act on it. All but the first speak of the roles outside `byHand`: an event by hand may put any role or phase out of
step, and adds exactly those it has to `byHand` (`RecordStep`). That a blocker, an open question or an open decision stops the run needs none of this.

`BuiltPlansAreAccepted` (`PlansAreAccepted`): whatever the tasks, options and profiles, the plan that is built passes the check of its
readers. It needs no history; the work is that roles, profiles and providers chosen one by one fit together (`ChosenForTheirRoles`).

`GatesLetNothingThrough` (`GatesHold`): the hand-off is settled, and the recursive walk refuses exactly the graphs with a cycle or an
unknown task. `Visit` is a recursive function, and `Weight` shows that its calls end: one task more on the way outweighs all it brings
to do (`WalksGetLighter`, `VisitIsDefined`). By induction on the weight every answer is `Truthful`: a cycle that is answered is one when the tasks
on the way depend on those to do; where none is answered everything visited is settled, that is, no visited task reaches itself. `Reaches` says
that a task is in every set that is closed under dependencies and holds the first ones, so it needs no recursion.

### Tasks and runs (`TaskRunsProofs`)

For any number of tasks, runs, owners and deaths, `FilesAlwaysAgree` (`FilesAgree`)
and `NothingPassesTheGateUnseen` (`DonePassedTheGate`). Every process holds copies of files it
has read and writes them whole later. The invariant (`FilesAreSound`) says the same of a copy as of the
file (`GraphOK`, `IndexOK`), and survives because of what is never undone (`Grows`): a run keeps its
task, what has ended stays ended, an open gate stays open. `ProcessOK` ties each step of a command
to its run. The assumption `Shape` on the constants is what the command line allows.

### Iterations, derived tasks and proposals (`IterationLifecycleProofs`)

For any number of iterations, deaths and failing file operations:

* `HistoryStaysFinal` (`HistoryIsFinal`: the pointer leaves only what is closed in every file, and what
  is behind it is never written). The invariant (`WritesAreAimed`) is about the writes still to come: they are all for the
  active iteration, or for the first, or for one that is being opened while the active one is closed.
* `IterationsStayInAgreement` (`IterationsAgree`), with `FailedInitIsNotUsed` (`NoHalfInitIsUsed`) as one half: of the nine writes of init,
  what has been moved and which pointers are written is a function of how many are left (`GatesTogether`); one that fails behind the pointers leaves
  them naming an iteration without a spec, which no command takes up (`Resolvable`). The other half, that chains compose without conflict, needs `Chained`: what is composed ascends
  (`Ordered`), what compose would add comes behind it (`AddsBehind`), and only the first spec is a baseline by its own name,
  with no other written in between (`FirstBaselines`). None of this holds between two writes of an `open`, so the invariant also lists what
  its remaining writes are (`OpeningOf`), and what those of the other commands may do (`WorkWrites`).

`TasksPlanEveryChange` (`EveryChangeIsPlanned`) and `NumbersAreKept` (`NumbersKeepTheirWork`), for any fields, areas and old tasks. The fold over the groups is
followed group by group (`GoodAcc`: the slots so far have distinct numbers and areas, one for each group). A number is an old one that
fits (`FitsAreEarned`), by its title alone only if it was promoted, or lies above every old one (`NewIdsAreNew`). The invariant (`DiffInv`) says of a promoted
graph that it is `Sound`, as its validator saw to that and moves keep it, and of a derived one that it is `Arranged`: its dependencies are those of its areas, and its titles name them;
then the tasks in the order of their areas give closed sets that show that nothing waits for itself (`ArrangedIsSound`).

`ProposalsStayEarned` (`ProposalsAreEarned`) and `DecisionsAreKept` (`DecisionsSurviveMining`: a decision is taken back only by a mine that was told to
overwrite, and then the same proposal is open again), for any runs, outcomes, approvers and numbers of overwrites. `EarnedInv` follows a candidate back through
curation and review to proposals that were on file together, whose logs are still there; `TrackedInv` says that a draft has one task, and that an
approval, written or about to be, names that task.

### What proving changed

* `DonePassedTheGate` used to ask for a *finished*
  run of a task that becomes done; that is false with three runs, although the run with two had
  passed: a command that has read the graph while the task was done may write it back
  after the task was reset by hand and started again, and after the finished run was ended
  again as blocked. The task is then done by a stale write, not by its gate. The property now
  names that case (`Restored`) and still asks there for a run that ended and passed its gate.
* `IdentitiesLast` used to say that a request which begins after a run was stored cannot move it. That is false: while the later request looks the run
  up, two first writers that overlap may displace the run and put it back, and the request writes what it found in between. TLC confirms it. The property now
  speaks of a run that was stored all along since the request began.
* `ReadyMeansEveryoneIsDone`, `NoHalfInitIsUsed`, `NumbersKeepTheirWork` and `DecisionsSurviveMining` once had no exceptions. They are false without them when a result is
  recorded by hand, the last write of init fails, a draft somebody wrote is derived again, or `mine` is told to overwrite; each now names its case and says what still holds there.
* `Cyclic` was written with a recursive operator and compared with a transitive closure that TLC enumerates. Both are now definitions
  the provers can use; they agree with the former ones on every graph of three tasks, `Cyclic` on every one of four.

### Only model-checked

Liveness: `EveryStoredChunkSettles`, `BackfillSettles`, `EveryRequestEnds`, `EverythingSettles`, `RunsEnd`, `InterruptedFinishSettles`,
`InterruptedWorkCompletes` and `CallsAreAnswered`. They need fairness and with it `ENABLED`, which the provers used do not handle.

## 6. Plan

Done, the most consequential first: the queue and its promise; document writes and their history; the profile; the provider; the reconciler; the
planning writes; graph and trace; the dashboard; the harness, each modelled, checked and proved as above.

Left open:

* Liveness is checked on instances only.
* Four hazards have no property: pages of a hybrid search while rows are written (ranks are computed anew for each page, and nothing is promised); the
  doubling delay of a retry (a function of one number, with no state); two commands that write one runtime file at once (the owner is meant to be one; see section 8);
  an `open` that dies between current-spec.json and status.md (it is in the model, and every later command refuses; see section 8).
* The parts of section 7.

## 7. Not modelled

* Search and dashboard reads: read-only queries, one statement each. Their ranking is that of PostgreSQL
  and pgvector; pages of a search that is disturbed by writes are promised nothing.
* The cut points of the chunker and the delay of a retry: functions of one text, and of one number.
* In the harness: prompts, hand-off texts, the runner doctor, listings, git collection, markdown and the wording
  of generated tasks; the checks of single fields in the validators.
* In the dashboard: markup, themes, Markdown, the query library's cache, the parameters of the trace address.
* REST DTOs and their mapping, JSON support and configuration hold no state. Docker, build scripts and CI are
  packaging. Security is out of scope.

See `components` in `PROJECT.json` for the status and reason of each part.

## 8. Observations

Met while modelling, and no disagreement with a document: behaviour a maintainer may want to know.

* `init` that is killed between two moves leaves `iterations/` behind, and init then refuses
  (p2a_iteration.mjs:339); `open` that is killed between current-spec.json and status.md leaves a pair that every later
  command refuses (p2a_iteration_state.mjs:182). Both are repaired by hand. A close can be given again.
* `init` whose last write fails (the maintenance README, p2a_iteration.mjs:2336) moves the gates back, but current-spec.json and status.md stay and name
  an iteration that has been emptied. Every later command refuses the project, and init too, because `iterations/` is there.
* A verification, a verdict, a role status or a phase recorded by hand can make a run ready while roles are pending or at work
  (p2a_orchestrate.mjs:1216); the prompts offer `record` beside mark-role. What is open still stops it.
* Of a runtime that was closed by hand `p2a_execute finish` leaves the run started and says that nothing is to be done.
* A finish with `--failure-class` and no status, over a check that failed in an earlier command, writes the run as failed and exits before it has told runtime and task
  (p2a_execute.mjs:907); another finish as failed settles them.
* `diff-tasks --force` over tasks somebody wrote may give the number and status of one to work of another area because its title contains the first
  word of that area's label (p2a_iteration.mjs:1777).
* A start that is killed after the run was made leaves a started run whose task is still todo; another start of the task makes a second run.
* A runtime that cannot be closed, because a question is open, stays open after its run has finished; execute prints a warning.
* A command that read the graph while a task was done writes it back whole: when the task has meanwhile been reset by hand
  and is being worked on again, it is done once more (`Restored` in `TaskRuns`).
* Two commands that record events at once lose one of them, as the runtime file is rewritten whole.
* A run that `next-role` calls ready after `skipped` reviewers is ready; the monitor's acceptance is needed only if there is one.
* The artifact of the task and run documents shown beside a spec is found by name within an iteration; of two that go by the same name none is linked.
* The key that ties a cursor to its search in the address is a hash of 32 bits, and the page number beside it is not checked.
