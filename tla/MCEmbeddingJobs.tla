--------------------------- MODULE MCEmbeddingJobs ---------------------------
(***************************************************************************)
(* Instances of the queue and of the reconciler that fills it.  Each       *)
(* behaviour runs one of them, the others stay as they started:            *)
(*   "disturbed"  the queue with batches of one and all disturbances,      *)
(*   "batches"    the queue with batches of two and one disturbance, whose *)
(*                liveness is checked,                                     *)
(*   "backfill"   two threads of one process that reconcile.               *)
(***************************************************************************)
EXTENDS EmbeddingJobs, Backfill

CONSTANT Focus    \* the components to run

VARIABLE focus

\* All threads are of one process.
ProcessOfDef == [t \in Threads |-> CHOOSE p \in Processes : TRUE]

jobVars == vars

Batches == INSTANCE EmbeddingJobs WITH BatchSize <- 2, MaxDisturbances <- 1

MCInit == /\ focus \in Focus
          /\ Init
          /\ BackfillInit
          /\ focus # "backfill" => stored = {}

DisturbedStep == focus = "disturbed" /\ Next /\ UNCHANGED <<focus, backfillVars>>
BatchesStep == focus = "batches" /\ Batches!Next /\ UNCHANGED <<focus, backfillVars>>
BackfillStep == focus = "backfill" /\ BackfillNext /\ UNCHANGED <<focus, jobVars>>

MCSpec == MCInit /\ [][DisturbedStep \/ BatchesStep \/ BackfillStep]_<<focus, jobVars, backfillVars>>

\* Fairness as in EmbeddingJobs and Backfill, of the component that runs.
InBackfill(A) == focus = "backfill" /\ A
InBatches(A) == focus = "batches" /\ A

BatchesFairness ==
    /\ \A p \in Procs :
          /\ WF_jobVars(InBatches(Batches!RecoverExpiredLeases(p)))
          /\ WF_jobVars(InBatches(Batches!ClaimDue(p)))
          /\ WF_jobVars(InBatches(Batches!SkipPoll(p)))
          /\ WF_jobVars(InBatches(Batches!FinishPoll(p)))
          /\ WF_jobVars(InBatches(Batches!AbandonPoll(p)))
          /\ WF_jobVars(InBatches(Batches!ProviderReady(p)))
          /\ WF_jobVars(InBatches(Batches!Restart(p)))
          /\ WF_jobVars(InBatches(\E t \in Batches!TasksOf(p) : Batches!TaskStep(t)))
    /\ \A c \in Chunks :
          /\ WF_jobVars(InBatches(Batches!Backfill(c)))
          /\ WF_jobVars(InBatches(Batches!OrphanLeaseExpires(c)))
          /\ WF_jobVars(InBatches(Batches!BackoffElapses(c)))

\* Under the fairness of the queue every stored chunk settles.
EveryStoredChunkSettles == focus = "batches" /\ BatchesFairness => Batches!EveryChunkSettles

\* Under the fairness of the schedule nothing a chunk lacks stays missing.
BackfillSettles ==
    /\ focus = "backfill"
    /\ \A t \in Threads : WF_backfillVars(InBackfill(Reconcile(t)))
    /\ \A c \in ChunkIds : WF_backfillVars(InBackfill(Unlock(c)))
    => NothingStaysMissing
=============================================================================
