---------------------------- MODULE EmbeddingJobs ----------------------------
(***************************************************************************)
(* The durable embedding queue: the embedding_jobs table, the writes that  *)
(* fill it, and the worker processes that drain it under leases.           *)
(*                                                                         *)
(* A job is identified by its chunk: the table is unique on (chunk, set)   *)
(* and every worker claims for the one active embedding set, so the set is *)
(* left out.  Every SQL statement is one step; the completion transaction, *)
(* the only one that spans statements, is three.  Clocks are left out: a   *)
(* lease is either live or expired, and when it expires is the             *)
(* environment's choice, which covers every lease duration, every speed of *)
(* inference and every skew between the JVM's clock and the database's.    *)
(***************************************************************************)
EXTENDS Integers, FiniteSets

CONSTANTS
    Chunks,           \* document chunks, one potential job each
    Legacy,           \* chunks stored before the queue existed: no job yet
    Unreadable,       \* chunks whose stored row the domain model rejects
    Procs,            \* server processes, each with one worker
    NoOwner,          \* the NULL lease_owner
    MaxAttempts,      \* properties.maxAttempts
    BatchSize,        \* properties.claimBatchSize
    Concurrency,      \* properties.concurrency
    MaxDisturbances   \* bound on crashes, lost leases and other mishaps

ASSUME ConstantsAssumption ==
    /\ Legacy \subseteq Chunks
    /\ Unreadable \subseteq Chunks
    /\ NoOwner \notin Procs
    /\ MaxAttempts \in Nat \ {0}
    /\ BatchSize \in Nat \ {0}
    /\ Concurrency \in Nat \ {0}
    /\ MaxDisturbances \in Nat

VARIABLES
    chunk,        \* document_chunks: absent, stored or deleted
    embedding,    \* committed row of chunk_embeddings for the active set?
    job,          \* embedding_jobs: the row of each chunk
    provider,     \* the embedding provider of each process
    poll,         \* progress of each process's scheduled poll()
    tasks,        \* process() calls submitted to the workers' executors
    disturbances  \* mishaps so far, at most MaxDisturbances

vars == <<chunk, embedding, job, provider, poll, tasks, disturbances>>

Statuses == {"none", "pending", "running", "retrying", "succeeded",
             "permanently_failed"}

JobRow == [status  : Statuses,
           attempt : Nat,                   \* attempt_count
           gen     : Nat,                   \* lease_generation
           owner   : Procs \cup {NoOwner},  \* lease_owner
           expired : BOOLEAN,               \* lease_expires_at <= now()
           due     : BOOLEAN]               \* next_attempt_at <= now()

\* A row whose lease, if it has one, is live.
Row(status, attempt, gen, owner, due) ==
    [status |-> status, attempt |-> attempt, gen |-> gen, owner |-> owner,
     expired |-> FALSE, due |-> due]

NoJob == Row("none", 0, 0, NoOwner, FALSE)

PendingJob == Row("pending", 0, 0, NoOwner, TRUE)

\* Where a process() call stands: waiting for an executor thread, inside the
\* provider, about to write its outcome, or in the completion transaction.
Stages == {"queued", "inferring", "releasing", "deferring", "rejecting",
           "completing", "inserting", "inserted", "matched", "refused"}

Task == [proc    : Procs,
         chunk   : Chunks,
         gen     : Nat,       \* job.leaseGeneration as claimed
         attempt : Nat,       \* job.attemptCount as claimed
         at      : Stages,
         live    : BOOLEAN,   \* lease unexpired when the transaction began
         awaited : BOOLEAN]   \* poll() still holds its future

-----------------------------------------------------------------------------
(* The rows that the statements of the job store write.                    *)

\* Mutant of Claimed: a claim that does not open a new generation.
ClaimedSameGeneration(row, p) == Row("running", row.attempt + 1, row.gen, p, row.due)

Claimed(row, p) == Row("running", row.attempt + 1, row.gen + 1, p, row.due)

Recovered(row) == Row("pending", row.attempt, row.gen, NoOwner, TRUE)

\* attempt_count = GREATEST(attempt_count - 1, 0)
Released(row) ==
    Row("pending", IF row.attempt > 0 THEN row.attempt - 1 ELSE 0, row.gen,
        NoOwner, TRUE)

Deferred(row) == Row("retrying", row.attempt, row.gen, NoOwner, FALSE)

Succeeded(row) == Row("succeeded", row.attempt, row.gen, NoOwner, row.due)

Rejected(row) == Row("permanently_failed", row.attempt, row.gen, NoOwner, row.due)

Revived(row) == Row("pending", 0, row.gen, NoOwner, TRUE)

BackedOff(row) == Row(row.status, row.attempt, row.gen, row.owner, TRUE)

TimedOut(row) ==
    [status |-> row.status, attempt |-> row.attempt, gen |-> row.gen,
     owner |-> row.owner, expired |-> TRUE, due |-> row.due]

\* Mutant of Holds: neither owner nor generation is compared.
HoldsWhileRunning(t) == job[t.chunk].status = "running"

\* The condition every outcome shares: WHERE status = 'running' AND
\* lease_owner = :owner AND lease_generation = :leaseGeneration.
Holds(t) ==
    /\ job[t.chunk].status = "running"
    /\ job[t.chunk].owner = t.proc
    /\ job[t.chunk].gen = t.gen

Due == {c \in Chunks : job[c].status \in {"pending", "retrying"} /\ job[c].due}

TasksOf(p) == {t \in tasks : t.proc = p}

Orphan(c) == \A t \in tasks : ~(t.chunk = c /\ t.gen = job[c].gen)

Disturb == /\ disturbances < MaxDisturbances
           /\ disturbances' = disturbances + 1

\* The task at another stage of process().
Moved(t, at, live, awaited) ==
    [proc |-> t.proc, chunk |-> t.chunk, gen |-> t.gen, attempt |-> t.attempt,
     at |-> at, live |-> live, awaited |-> awaited]

At(t, stage) == Moved(t, stage, t.live, t.awaited)

Become(t, u) == tasks' = (tasks \ {t}) \cup {u}

Finish(t) == tasks' = tasks \ {t}

\* An exception leaves process(): the future fails, and poll() will rethrow.
Throw(t) ==
    /\ Finish(t)
    /\ poll' = [poll EXCEPT ![t.proc] = IF t.awaited THEN "failing" ELSE @]

-----------------------------------------------------------------------------
Init ==
    /\ chunk = [c \in Chunks |-> IF c \in Legacy THEN "stored" ELSE "absent"]
    /\ embedding = [c \in Chunks |-> FALSE]
    /\ job = [c \in Chunks |-> NoJob]
    /\ provider = [p \in Procs |-> "initializing"]
    /\ poll = [p \in Procs |-> "idle"]
    /\ tasks = {}
    /\ disturbances = 0

(* Filling the queue.                                                      *)

\* saveDocumentChunks: one transaction stores the chunk, or finds it, and
\* enqueues its job unless it has one.
SaveChunk(c) ==
    /\ chunk[c] \in {"absent", "stored"}
    /\ chunk' = [chunk EXCEPT ![c] = "stored"]
    /\ job' = [job EXCEPT ![c] = IF @.status = "none" THEN PendingJob ELSE @]
    /\ UNCHANGED <<embedding, provider, poll, tasks, disturbances>>

\* The reconciler enqueues a stored chunk with neither embedding nor job.
Backfill(c) ==
    /\ chunk[c] = "stored"
    /\ ~embedding[c]
    /\ job[c].status = "none"
    /\ job' = [job EXCEPT ![c] = PendingJob]
    /\ UNCHANGED <<chunk, embedding, provider, poll, tasks, disturbances>>

\* Deleting a chunk cascades to its embedding and its job.  It waits for a
\* transaction whose uncommitted embedding holds a key lock on the chunk.
DeleteChunk(c) ==
    /\ chunk[c] = "stored"
    /\ \A t \in tasks : t.chunk = c => t.at # "inserted"
    /\ chunk' = [chunk EXCEPT ![c] = "deleted"]
    /\ embedding' = [embedding EXCEPT ![c] = FALSE]
    /\ job' = [job EXCEPT ![c] = NoJob]
    /\ UNCHANGED <<provider, poll, tasks, disturbances>>

\* POST /api/embedding-jobs/{id}/retry: only a permanent failure is revived.
RetryFailed(c) ==
    /\ Disturb
    /\ job[c].status = "permanently_failed"
    /\ job' = [job EXCEPT ![c] = Revived(@)]
    /\ UNCHANGED <<chunk, embedding, provider, poll, tasks>>

-----------------------------------------------------------------------------
(* The scheduled poll of a process.                                        *)

\* Mutant of RecoverExpiredLeases: jobs out of attempts are left running.
RecoverOnlyWithAttemptsLeft(p) ==
    /\ poll[p] = "idle"
    /\ poll' = [poll EXCEPT ![p] = "recovered"]
    /\ job' = [c \in Chunks |->
                 IF /\ job[c].status = "running" /\ job[c].expired
                    /\ job[c].attempt < MaxAttempts
                 THEN Recovered(job[c]) ELSE job[c]]
    /\ UNCHANGED <<chunk, embedding, provider, tasks, disturbances>>

\* recoverExpiredLeases: whoever's lease it was, whatever the provider does.
RecoverExpiredLeases(p) ==
    /\ poll[p] = "idle"
    /\ poll' = [poll EXCEPT ![p] = "recovered"]
    /\ job' = [c \in Chunks |->
                 IF job[c].status = "running" /\ job[c].expired
                 THEN Recovered(job[c]) ELSE job[c]]
    /\ UNCHANGED <<chunk, embedding, provider, tasks, disturbances>>

\* currentActiveTarget found a ready target; claimDueForEmbeddingSet takes due
\* rows, fewer than it could when SKIP LOCKED passes over some; each claim is
\* submitted to the executor.
ClaimDue(p) ==
    /\ poll[p] = "recovered"
    /\ provider[p] = "ready"
    /\ \E claim \in SUBSET Due \ {{}} :
          /\ Cardinality(claim) <= BatchSize
          /\ job' = [c \in Chunks |-> IF c \in claim THEN Claimed(job[c], p)
                                                     ELSE job[c]]
          /\ tasks' = tasks \cup
                {[proc |-> p, chunk |-> c, gen |-> job[c].gen + 1,
                  attempt |-> job[c].attempt + 1, at |-> "queued",
                  live |-> FALSE, awaited |-> TRUE] : c \in claim}
    /\ poll' = [poll EXCEPT ![p] = "waiting"]
    /\ UNCHANGED <<chunk, embedding, provider, disturbances>>

\* currentActiveTarget is null, or nothing is due.
SkipPoll(p) ==
    /\ poll[p] = "recovered"
    /\ provider[p] # "ready" \/ Due = {}
    /\ poll' = [poll EXCEPT ![p] = "idle"]
    /\ UNCHANGED <<chunk, embedding, job, provider, tasks, disturbances>>

\* Every future of the batch has completed.
FinishPoll(p) ==
    /\ poll[p] = "waiting"
    /\ \A t \in TasksOf(p) : ~t.awaited
    /\ poll' = [poll EXCEPT ![p] = "idle"]
    /\ UNCHANGED <<chunk, embedding, job, provider, tasks, disturbances>>

\* future.get() rethrows: the rest of the batch stays in the executor, and
\* the next poll runs beside it.
AbandonPoll(p) ==
    /\ poll[p] = "failing"
    /\ poll' = [poll EXCEPT ![p] = "idle"]
    /\ tasks' = (tasks \ TasksOf(p)) \cup
                {Moved(t, t.at, t.live, FALSE) : t \in TasksOf(p)}
    /\ UNCHANGED <<chunk, embedding, job, provider, disturbances>>

-----------------------------------------------------------------------------
(* process(): one claimed job on an executor thread.                       *)

\* A thread takes the task; canInferFor and the chunk lookup.
StartTask(t) ==
    /\ t.at = "queued"
    /\ Cardinality({u \in TasksOf(t.proc) : u.at # "queued"}) < Concurrency
    /\ \/ /\ provider[t.proc] # "ready"
          /\ Become(t, At(t, "releasing"))
       \/ /\ provider[t.proc] = "ready"
          /\ chunk[t.chunk] = "deleted"
          /\ Finish(t)
       \/ /\ provider[t.proc] = "ready"
          /\ chunk[t.chunk] # "deleted"
          /\ Become(t, At(t, IF t.chunk \in Unreadable THEN "rejecting"
                                                       ELSE "inferring"))
    /\ UNCHANGED <<chunk, embedding, job, provider, poll, disturbances>>

\* embedDocuments answers with a valid vector for the expected target.
InferenceSucceeds(t) ==
    /\ t.at = "inferring"
    /\ provider[t.proc] = "ready"
    /\ Become(t, At(t, "completing"))
    /\ UNCHANGED <<chunk, embedding, job, provider, poll, disturbances>>

\* A contract violation, another target or an invalid vector.
InferenceViolatesContract(t) ==
    /\ Disturb
    /\ t.at = "inferring"
    /\ provider[t.proc] = "ready"
    /\ Become(t, At(t, "releasing"))
    /\ UNCHANGED <<chunk, embedding, job, provider, poll>>

\* A retryable provider failure, which is also what a provider closed under
\* the call raises: destroy() drops the model but the state stays READY, so
\* handleProviderFailure keeps the attempt charged.  Its other branches need a
\* provider that leaves READY or fails unretryably, and no adapter does.
InferenceFails(t) ==
    /\ t.at = "inferring"
    /\ Become(t, At(t, IF t.attempt >= MaxAttempts THEN "rejecting" ELSE "deferring"))
    /\ UNCHANGED <<chunk, embedding, job, provider, poll, disturbances>>

\* An outcome statement: it changes the row only under the caller's lease, and
\* its lease_expires_at > now() reads the clock at the statement.
Outcome(t, row) ==
    /\ job' = IF Holds(t) /\ ~job[t.chunk].expired
              THEN [job EXCEPT ![t.chunk] = row] ELSE job
    /\ Finish(t)
    /\ UNCHANGED <<chunk, embedding, provider, poll, disturbances>>

ReleaseClaim(t) == t.at = "releasing" /\ Outcome(t, Released(job[t.chunk]))

MarkRetrying(t) == t.at = "deferring" /\ Outcome(t, Deferred(job[t.chunk]))

MarkPermanentlyFailed(t) ==
    t.at = "rejecting" /\ Outcome(t, Rejected(job[t.chunk]))

\* The completion transaction begins.  PostgreSQL's now() is the start of the
\* transaction, so the lease is judged here however long the inserts take.
\* A committed embedding with the same vector is accepted; with another one,
\* requireIdempotentEmbedding throws.
BeginCompletion(t) ==
    /\ t.at = "completing"
    /\ \/ /\ ~embedding[t.chunk]
          /\ Become(t, Moved(t, "inserting", ~job[t.chunk].expired, t.awaited))
          /\ UNCHANGED poll
       \/ /\ embedding[t.chunk]
          /\ Become(t, Moved(t, "matched", ~job[t.chunk].expired, t.awaited))
          /\ UNCHANGED poll
       \/ /\ embedding[t.chunk]
          /\ Throw(t)
    /\ UNCHANGED <<chunk, embedding, job, provider, disturbances>>

\* INSERT INTO chunk_embeddings waits for another transaction's uncommitted row
\* of the same chunk.  The database refuses a duplicate and a chunk that is gone.
InsertEmbedding(t) ==
    /\ t.at = "inserting"
    /\ \A u \in tasks : u.chunk = t.chunk => u.at # "inserted"
    /\ Become(t, At(t, IF chunk[t.chunk] = "deleted" \/ embedding[t.chunk]
                       THEN "refused" ELSE "inserted"))
    /\ UNCHANGED <<chunk, embedding, job, provider, poll, disturbances>>

\* The DataIntegrityViolationException is forgiven if the chunk is gone by now.
ExplainRefusal(t) ==
    /\ t.at = "refused"
    /\ \/ /\ chunk[t.chunk] = "deleted"
          /\ Finish(t)
          /\ UNCHANGED poll
       \/ /\ chunk[t.chunk] # "deleted"
          /\ Throw(t)
    /\ UNCHANGED <<chunk, embedding, job, provider, disturbances>>

\* Mutant of CompleteJob: a stale completion keeps its embedding.
CompleteJobNoRollback(t) ==
    /\ t.at \in {"inserted", "matched"}
    /\ embedding' = [embedding EXCEPT ![t.chunk] = TRUE]
    /\ IF Holds(t) /\ t.live
       THEN job' = [job EXCEPT ![t.chunk] = Succeeded(@)]
       ELSE UNCHANGED job
    /\ Finish(t)
    /\ UNCHANGED <<chunk, provider, poll, disturbances>>

\* markSucceeded under the lease commits the embedding with it; a stale lease
\* raises StaleEmbeddingJobCompletionException, which rolls the insert back.
CompleteJob(t) ==
    /\ t.at \in {"inserted", "matched"}
    /\ IF Holds(t) /\ t.live
       THEN /\ job' = [job EXCEPT ![t.chunk] = Succeeded(@)]
            /\ embedding' = [embedding EXCEPT ![t.chunk] = TRUE]
       ELSE UNCHANGED <<job, embedding>>
    /\ Finish(t)
    /\ UNCHANGED <<chunk, provider, poll, disturbances>>

\* Any other exception, at any point (the database is unreachable): the open
\* transaction, if there is one, rolls back.
TaskThrows(t) ==
    /\ Disturb
    /\ t.at # "queued"
    /\ Throw(t)
    /\ UNCHANGED <<chunk, embedding, job, provider>>

TaskStep(t) ==
    \/ StartTask(t)
    \/ InferenceSucceeds(t)
    \/ InferenceFails(t)
    \/ ReleaseClaim(t)
    \/ MarkRetrying(t)
    \/ MarkPermanentlyFailed(t)
    \/ BeginCompletion(t)
    \/ InsertEmbedding(t)
    \/ ExplainRefusal(t)
    \/ CompleteJob(t)

-----------------------------------------------------------------------------
(* Providers, processes and time.                                          *)

ProviderReady(p) ==
    /\ provider[p] = "initializing"
    /\ provider' = [provider EXCEPT ![p] = "ready"]
    /\ UNCHANGED <<chunk, embedding, job, poll, tasks, disturbances>>

\* Initialization fails for good, or the provider bean is destroyed while the
\* executor still drains.
ProviderLost(p) ==
    /\ Disturb
    /\ \/ /\ provider[p] = "initializing"
          /\ provider' = [provider EXCEPT ![p] = "unavailable"]
       \/ /\ provider[p] = "ready"
          /\ provider' = [provider EXCEPT ![p] = "closed"]
    /\ UNCHANGED <<chunk, embedding, job, poll, tasks>>

\* A process stops and comes back: its memory is gone, its leases are not.
Reboot(p) ==
    /\ provider' = [provider EXCEPT ![p] = "initializing"]
    /\ poll' = [poll EXCEPT ![p] = "idle"]
    /\ tasks' = tasks \ TasksOf(p)
    /\ UNCHANGED <<chunk, embedding, job>>

Crash(p) == Disturb /\ Reboot(p)

\* The operator restarts a server whose provider is gone.
Restart(p) ==
    /\ provider[p] \in {"unavailable", "closed"}
    /\ Reboot(p)
    /\ UNCHANGED disturbances

\* A lease whose worker is gone runs out ...
OrphanLeaseExpires(c) ==
    /\ job[c].status = "running" /\ ~job[c].expired
    /\ Orphan(c)
    /\ job' = [job EXCEPT ![c] = TimedOut(@)]
    /\ UNCHANGED <<chunk, embedding, provider, poll, tasks, disturbances>>

\* ... and so may one that is still being worked on.
LeaseExpiresEarly(c) ==
    /\ Disturb
    /\ job[c].status = "running" /\ ~job[c].expired
    /\ ~Orphan(c)
    /\ job' = [job EXCEPT ![c] = TimedOut(@)]
    /\ UNCHANGED <<chunk, embedding, provider, poll, tasks>>

BackoffElapses(c) ==
    /\ job[c].status = "retrying" /\ ~job[c].due
    /\ job' = [job EXCEPT ![c] = BackedOff(@)]
    /\ UNCHANGED <<chunk, embedding, provider, poll, tasks, disturbances>>

-----------------------------------------------------------------------------
ChunkStep(c) ==
    \/ SaveChunk(c) \/ Backfill(c) \/ DeleteChunk(c) \/ RetryFailed(c)
    \/ OrphanLeaseExpires(c) \/ LeaseExpiresEarly(c) \/ BackoffElapses(c)

ProcStep(p) ==
    \/ RecoverExpiredLeases(p) \/ ClaimDue(p) \/ SkipPoll(p)
    \/ FinishPoll(p) \/ AbandonPoll(p)
    \/ ProviderReady(p) \/ ProviderLost(p) \/ Crash(p) \/ Restart(p)

Next ==
    \/ \E c \in Chunks : ChunkStep(c)
    \/ \E p \in Procs : ProcStep(p)
    \/ \E t \in tasks : \/ TaskStep(t)
                        \/ InferenceViolatesContract(t)
                        \/ TaskThrows(t)

Spec == Init /\ [][Next]_vars

\* The scheduler keeps polling, executor threads keep running, statements end,
\* time passes, the reconciler runs, and an operator restarts a dead provider.
\* Requests, deletions and every disturbance are free to happen or not.
Fairness ==
    /\ \A p \in Procs :
          /\ WF_vars(RecoverExpiredLeases(p))
          /\ WF_vars(ClaimDue(p))
          /\ WF_vars(SkipPoll(p))
          /\ WF_vars(FinishPoll(p))
          /\ WF_vars(AbandonPoll(p))
          /\ WF_vars(ProviderReady(p))
          /\ WF_vars(Restart(p))
          /\ WF_vars(\E t \in TasksOf(p) : TaskStep(t))
    /\ \A c \in Chunks :
          /\ WF_vars(Backfill(c))
          /\ WF_vars(OrphanLeaseExpires(c))
          /\ WF_vars(BackoffElapses(c))

FairSpec == Spec /\ Fairness

-----------------------------------------------------------------------------
(* Properties.                                                             *)

\* Every variable keeps its type.
TypeOK ==
    /\ chunk \in [Chunks -> {"absent", "stored", "deleted"}]
    /\ embedding \in [Chunks -> BOOLEAN]
    /\ job \in [Chunks -> JobRow]
    /\ provider \in [Procs -> {"initializing", "ready", "unavailable", "closed"}]
    /\ poll \in [Procs -> {"idle", "recovered", "waiting", "failing"}]
    /\ tasks \subseteq Task
    /\ disturbances \in 0..MaxDisturbances

\* A chunk has an embedding in the active set exactly when its job succeeded,
\* whatever stale workers attempt: the completion transaction commits both or,
\* when the lease was lost, neither.
EmbeddedIffSucceeded ==
    \A c \in Chunks : embedding[c] <=> job[c].status = "succeeded"

\* A lease names one task.  No two tasks carry the same generation of a job;
\* no task carries a generation the job has not reached; and while a job runs,
\* the task of its generation belongs to the lease's owner and remembers the
\* row's attempt count, so what it decides from its copy is what the row says.
LeaseNamesItsTask ==
    /\ \A t, u \in tasks : t.chunk = u.chunk /\ t.gen = u.gen => t = u
    /\ \A t \in tasks :
          LET row == job[t.chunk]
          IN row.status # "none" =>
                /\ t.gen <= row.gen
                /\ row.status = "running" /\ t.gen = row.gen =>
                      row.owner = t.proc /\ row.attempt = t.attempt

\* The CHECK constraint ck_embedding_jobs_state_leases never rejects a write,
\* and a running job has been charged, so that a release gives back exactly
\* the attempt its claim took.
LeaseFieldsMatchStatus ==
    \A c \in Chunks :
        /\ job[c].status = "running" <=> job[c].owner # NoOwner
        /\ job[c].expired => job[c].status = "running"
        /\ job[c].status = "running" => job[c].attempt > 0

\* A job waits for a retry only while attempts are left: the decision is made
\* from the task's copy of attempt_count, the row is written later.
RetryingHasAttemptsLeft ==
    \A c \in Chunks : job[c].status = "retrying" => job[c].attempt < MaxAttempts

\* The five together: rows, leases, tasks and embeddings tell one story.
JobsAreConsistent ==
    /\ TypeOK
    /\ EmbeddedIffSucceeded
    /\ LeaseNamesItsTask
    /\ LeaseFieldsMatchStatus
    /\ RetryingHasAttemptsLeft

\* Success is final: neither a late worker, nor lease recovery, nor the retry
\* endpoint reopens a succeeded job or touches its embedding; only deleting
\* the chunk does.
SuccessIsFinal ==
    [][\A c \in Chunks :
          job[c].status = "succeeded" /\ chunk'[c] # "deleted" =>
              job'[c] = job[c] /\ embedding'[c]]_vars

\* A worker gives up only on a chunk it cannot read or on a job whose row has
\* used up its attempts when the failure is written, even if the row was
\* recovered, reclaimed or revived since the worker read it.
GivesUpOnlyWhenExhausted ==
    [][\A c \in Chunks :
          job[c].status = "running" /\ job'[c].status = "permanently_failed" =>
              c \in Unreadable \/ job[c].attempt >= MaxAttempts]_vars

\* No step takes back a success, and none gives up early.
ProgressIsKept == SuccessIsFinal /\ GivesUpOnlyWhenExhausted

\* Every stored chunk is settled: embedded, given up on, or deleted.  It needs
\* the poll to survive failed futures, leases of dead workers to be recovered,
\* retries to come due and the reconciler to adopt chunks that have no job.
Settled(c) ==
    \/ chunk[c] = "deleted"
    \/ job[c].status \in {"succeeded", "permanently_failed"}

EveryChunkSettles == \A c \in Chunks : chunk[c] = "stored" ~> Settled(c)

\* What makes the invariants above inductive.  A task outlives its job only
\* when the chunk is gone for good, so no later row can reuse its generation.
OutlivedJobsAreDeleted ==
    \A t \in tasks : job[t.chunk].status = "none" => chunk[t.chunk] = "deleted"

\* A job exists only for a stored chunk.
JobsHaveChunks ==
    \A c \in Chunks : job[c].status # "none" => chunk[c] = "stored"

\* And the branch a task took is backed by the attempt count it took it from.
DecisionsAreBacked ==
    \A t \in tasks :
        /\ t.at = "deferring" => t.attempt < MaxAttempts
        /\ t.at = "rejecting" => t.chunk \in Unreadable \/ t.attempt >= MaxAttempts

Inv ==
    /\ TypeOK
    /\ EmbeddedIffSucceeded
    /\ LeaseNamesItsTask
    /\ LeaseFieldsMatchStatus
    /\ RetryingHasAttemptsLeft
    /\ OutlivedJobsAreDeleted
    /\ JobsHaveChunks
    /\ DecisionsAreBacked

-----------------------------------------------------------------------------
(* What the queue promises to a reader of the chunks.                      *)

Promise ==
    [c \in Chunks |->
        CASE chunk[c] # "stored"                              -> chunk[c]
          [] chunk[c] = "stored" /\ job[c].status = "none"    -> "missing"
          [] job[c].status = "succeeded" /\ embedding[c]      -> "embedded"
          [] job[c].status = "permanently_failed" /\ ~embedding[c] -> "failed"
          [] job[c].status \in {"pending", "running", "retrying"} /\ ~embedding[c]
                                                              -> "owed"
          [] OTHER                                            -> "inconsistent"]

Queue == INSTANCE EmbeddingQueue WITH promise <- Promise

\* The queue implements its promise to every chunk, step by step.  That no chunk
\* stays missing and no debt open is EveryChunkSettles.
ImplementsQueue == Queue!Spec
=============================================================================
