------------------------------ MODULE Backfill -------------------------------
(***************************************************************************)
(* The reconciler of the active embedding set.  It scans chunks that have  *)
(* neither embedding nor job, or an embedding without its typed mirror, a  *)
(* page at a time behind a cursor that each process keeps in memory, and   *)
(* adds what is missing.  Rows that other transactions have locked are     *)
(* skipped.  Two threads of a process may reconcile at once, the one of    *)
(* the ready event and the scheduler's.                                    *)
(*                                                                         *)
(* Chunks are numbered in the order of their ids.  Everything is about the *)
(* one active set; embeddings of it come from the worker and from          *)
(* databases older than the queue or the mirror.  The snapshot of the      *)
(* statement and its row locks are taken as one step.                      *)
(***************************************************************************)
EXTENDS Naturals, FiniteSets, FiniteSetsExt

CONSTANTS
    Count,       \* number of chunks
    Threads,     \* threads that reconcile
    Processes,
    ProcessOf,   \* the process of each thread
    PageSize,    \* bound on the chunks of a page
    MaxEvents    \* bound on locks, crashes and lost pages

ASSUME BackfillAssumption ==
    /\ Count \in Nat /\ PageSize \in Nat /\ MaxEvents \in Nat
    /\ ProcessOf \in [Threads -> Processes]

ChunkIds == 1 .. Count

VARIABLES
    stored,      \* document_chunks
    jobStatus,   \* status of the chunk's embedding_jobs row, or none
    vector,      \* dimensions of its chunk_embeddings row, or none
    mirror,      \* chunks with a row in chunk_embedding_vectors_384
    locked,      \* chunks another transaction has locked
    cursor,      \* of each process, 0 for null
    pc,          \* of each thread
    after,       \* the cursor each thread has read; then the next one
    page,        \* candidates each thread's transaction has locked
    events

backfillVars == <<stored, jobStatus, vector, mirror, locked, cursor, pc, after, page, events>>

chunkRows == <<stored, jobStatus, vector, mirror>>

JobStatuses == {"none", "pending", "running", "retrying", "succeeded", "permanently_failed"}

\* The two reasons for a scan to stop at a chunk.
LacksJob(c) == vector[c] = "none" /\ jobStatus[c] = "none"

LacksMirror(c) == vector[c] = "384" /\ c \notin mirror

BackfillInit ==
    /\ stored \in SUBSET ChunkIds
    /\ vector \in [ChunkIds -> {"none", "384", "2"}]
    /\ \A c \in ChunkIds \ stored : vector[c] = "none"
    /\ jobStatus = [c \in ChunkIds |-> "none"]
    /\ mirror = {}
    /\ locked = {}
    /\ cursor = [p \in Processes |-> 0]
    /\ pc = [t \in Threads |-> "idle"]
    /\ after = [t \in Threads |-> 0]
    /\ page = [t \in Threads |-> {}]
    /\ events = 0

-----------------------------------------------------------------------------
(* Reconciling.                                                            *)

ReadCursor(t) ==
    /\ pc[t] = "idle"
    /\ after' = [after EXCEPT ![t] = cursor[ProcessOf[t]]]
    /\ pc' = [pc EXCEPT ![t] = "scanning"]
    /\ UNCHANGED <<chunkRows, locked, cursor, page, events>>

First(S, n) == {c \in S : Cardinality({d \in S : d < c}) < n}

PagesOfOthers(t) == UNION {page[u] : u \in Threads \ {t}}

\* Mutant of ScanPage: no FOR UPDATE.
ScanWithoutLock(t) ==
    /\ pc[t] = "scanning"
    /\ page' = [page EXCEPT ![t] =
          First({c \in stored : (LacksJob(c) \/ LacksMirror(c)) /\ c > after[t]}, PageSize)]
    /\ pc' = [pc EXCEPT ![t] = "writing"]
    /\ UNCHANGED <<chunkRows, locked, cursor, after, events>>

\* ORDER BY chunk_id LIMIT ... FOR UPDATE SKIP LOCKED: what is skipped does not
\* count towards the limit.
ScanPage(t) ==
    /\ pc[t] = "scanning"
    /\ page' = [page EXCEPT ![t] =
          First({c \in stored \ (locked \cup PagesOfOthers(t)) :
                    (LacksJob(c) \/ LacksMirror(c)) /\ c > after[t]}, PageSize)]
    /\ pc' = [pc EXCEPT ![t] = "writing"]
    /\ UNCHANGED <<chunkRows, locked, cursor, after, events>>

\* Mutant of WritePage: an empty page leaves the cursor where it is.
WritePageWithoutWrap(t) ==
    /\ pc[t] = "writing"
    /\ mirror' = mirror \cup {c \in page[t] : LacksMirror(c)}
    /\ jobStatus' = [c \in ChunkIds |->
          IF c \in page[t] /\ LacksJob(c) THEN "pending" ELSE jobStatus[c]]
    /\ after' = [after EXCEPT ![t] = IF page[t] = {} THEN @ ELSE Max(page[t])]
    /\ page' = [page EXCEPT ![t] = {}]
    /\ pc' = [pc EXCEPT ![t] = "advancing"]
    /\ UNCHANGED <<stored, vector, locked, cursor, events>>

\* The rest of the statement, and COMMIT.  An empty page starts over.
WritePage(t) ==
    /\ pc[t] = "writing"
    /\ mirror' = mirror \cup {c \in page[t] : LacksMirror(c)}
    /\ jobStatus' = [c \in ChunkIds |->
          IF c \in page[t] /\ LacksJob(c) THEN "pending" ELSE jobStatus[c]]
    /\ after' = [after EXCEPT ![t] = IF page[t] = {} THEN 0 ELSE Max(page[t])]
    /\ page' = [page EXCEPT ![t] = {}]
    /\ pc' = [pc EXCEPT ![t] = "advancing"]
    /\ UNCHANGED <<stored, vector, locked, cursor, events>>

SetCursor(t) ==
    /\ pc[t] = "advancing"
    /\ cursor' = [cursor EXCEPT ![ProcessOf[t]] = after[t]]
    /\ pc' = [pc EXCEPT ![t] = "idle"]
    /\ UNCHANGED <<chunkRows, locked, after, page, events>>

CountEvent == events' = events + 1 /\ events < MaxEvents

\* The page is rolled back; the exception leaves the cursor as it is.
LosePage(t) ==
    /\ pc[t] = "writing"
    /\ CountEvent
    /\ page' = [page EXCEPT ![t] = {}]
    /\ pc' = [pc EXCEPT ![t] = "idle"]
    /\ UNCHANGED <<chunkRows, locked, cursor, after>>

\* A process restarts; its cursor is null again.
RestartReconciler(p) ==
    /\ CountEvent
    /\ cursor' = [cursor EXCEPT ![p] = 0]
    /\ page' = [t \in Threads |-> IF ProcessOf[t] = p THEN {} ELSE page[t]]
    /\ pc' = [t \in Threads |-> IF ProcessOf[t] = p THEN "idle" ELSE pc[t]]
    /\ UNCHANGED <<chunkRows, locked, after>>

-----------------------------------------------------------------------------
(* Everybody else.                                                         *)

\* A transaction of a writer, or a deletion, locks the chunk.
Lock(c) ==
    /\ c \in stored \ (locked \cup UNION {page[t] : t \in Threads})
    /\ CountEvent
    /\ locked' = locked \cup {c}
    /\ UNCHANGED <<chunkRows, cursor, pc, after, page>>

\* It ends: with a job for the chunk, embedded or not, without the chunk and all
\* that refers to it, or with nothing.
Unlock(c) ==
    /\ c \in locked
    /\ locked' = locked \ {c}
    /\ \/ /\ jobStatus' = [jobStatus EXCEPT ![c] = IF @ = "none" THEN "pending" ELSE @]
          /\ UNCHANGED <<stored, vector, mirror>>
       \/ /\ stored' = stored \ {c}
          /\ jobStatus' = [jobStatus EXCEPT ![c] = "none"]
          /\ vector' = [vector EXCEPT ![c] = "none"]
          /\ mirror' = mirror \ {c}
       \/ UNCHANGED chunkRows
    /\ UNCHANGED <<cursor, pc, after, page, events>>

Claim(c) ==
    /\ c \notin locked
    /\ jobStatus[c] \in {"pending", "retrying"}
    /\ jobStatus' = [jobStatus EXCEPT ![c] = "running"]
    /\ UNCHANGED <<stored, vector, mirror, locked, cursor, pc, after, page, events>>

\* The completion inserts vector and mirror unless there is an equal vector, whose
\* mirror it does not look at; it fails if there is another one.
Complete(c) ==
    /\ c \notin locked
    /\ jobStatus[c] = "running" /\ vector[c] # "2"
    /\ jobStatus' = [jobStatus EXCEPT ![c] = "succeeded"]
    /\ vector' = [vector EXCEPT ![c] = "384"]
    /\ mirror' = IF vector[c] = "none" THEN mirror \cup {c} ELSE mirror
    /\ UNCHANGED <<stored, locked, cursor, pc, after, page, events>>

\* Released, recovered, retried, or given up.
GiveBack(c) ==
    /\ c \notin locked
    /\ jobStatus[c] = "running"
    /\ \E status \in {"pending", "retrying", "permanently_failed"} :
          jobStatus' = [jobStatus EXCEPT ![c] = status]
    /\ UNCHANGED <<stored, vector, mirror, locked, cursor, pc, after, page, events>>

-----------------------------------------------------------------------------
Reconcile(t) == ReadCursor(t) \/ ScanPage(t) \/ WritePage(t) \/ SetCursor(t)

BackfillNext ==
    \/ \E t \in Threads : Reconcile(t) \/ LosePage(t)
    \/ \E p \in Processes : RestartReconciler(p)
    \/ \E c \in ChunkIds : Lock(c) \/ Unlock(c) \/ Claim(c) \/ Complete(c) \/ GiveBack(c)

BackfillSpec == BackfillInit /\ [][BackfillNext]_backfillVars

\* The schedule runs reconcileNow again and again, and transactions end.
BackfillFairness ==
    /\ \A t \in Threads : WF_backfillVars(Reconcile(t))
    /\ \A c \in ChunkIds : WF_backfillVars(Unlock(c))

FairBackfillSpec == BackfillSpec /\ BackfillFairness

-----------------------------------------------------------------------------
(* Coverage, in one statement.                                             *)

WithStatus(status) == {c \in stored : jobStatus[c] = status}

SucceededChunks ==
    {c \in stored : \/ jobStatus[c] = "succeeded"
                    \/ jobStatus[c] = "none" /\ vector[c] # "none"}

MissingChunks == {c \in stored : LacksJob(c)}

-----------------------------------------------------------------------------
(* Properties.                                                             *)

BackfillTypeOK ==
    /\ stored \subseteq ChunkIds /\ locked \subseteq stored
    /\ jobStatus \in [ChunkIds -> JobStatuses]
    /\ vector \in [ChunkIds -> {"none", "384", "2"}]
    /\ mirror \subseteq {c \in stored : vector[c] = "384"}
    /\ cursor \in [Processes -> 0 .. Count]
    /\ pc \in [Threads -> {"idle", "scanning", "writing", "advancing"}]
    /\ after \in [Threads -> 0 .. Count]
    /\ page \in [Threads -> SUBSET ChunkIds]
    /\ events \in 0 .. MaxEvents

\* Until a page is written its chunks exist and wait for nobody, so the
\* statement can neither fail on a foreign key nor hang.
PagesHoldTheirChunks ==
    \A t \in Threads :
        page[t] \subseteq stored \ locked /\ page[t] \cap PagesOfOthers(t) = {}

\* README.md:232: eligibleTotal = pending + running + retrying + succeeded
\* + permanentlyFailed + missing.
CoverageAddsUp ==
    Cardinality(stored) =
        Cardinality(WithStatus("pending")) + Cardinality(WithStatus("running"))
        + Cardinality(WithStatus("retrying")) + Cardinality(SucceededChunks)
        + Cardinality(WithStatus("permanently_failed")) + Cardinality(MissingChunks)

\* Pages, rows and counts fit together at every moment of a reconciliation.
BackfillIsConsistent == BackfillTypeOK /\ PagesHoldTheirChunks /\ CoverageAddsUp

\* Whatever the page size, the cursors and the locks that were skipped, a chunk
\* gets what it lacks, or is deleted.
NothingStaysMissing ==
    \A c \in ChunkIds :
        c \in stored /\ (LacksJob(c) \/ LacksMirror(c))
            ~> ~(c \in stored /\ (LacksJob(c) \/ LacksMirror(c)))
=============================================================================
