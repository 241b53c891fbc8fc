------------------------- MODULE EmbeddingJobsProofs -------------------------
(***************************************************************************)
(* Theorems about EmbeddingJobs for every set of chunks and processes, and *)
(* about Backfill for every number of chunks, threads and processes.       *)
(***************************************************************************)
EXTENDS EmbeddingJobs, Backfill, FiniteSetTheorems, WellFoundedInduction, TLAPS



\* What the statements of the job store write is a row of the table.
LEMMA RowsAreTyped ==
    ASSUME NEW row \in JobRow
    PROVE  /\ \A p \in Procs : Claimed(row, p) \in JobRow
           /\ Recovered(row) \in JobRow
           /\ Released(row) \in JobRow
           /\ Deferred(row) \in JobRow
           /\ Succeeded(row) \in JobRow
           /\ Rejected(row) \in JobRow
           /\ Revived(row) \in JobRow
           /\ TimedOut(row) \in JobRow
           /\ BackedOff(row) \in JobRow
BY DEF JobRow, Claimed, Recovered, Released, Deferred, Succeeded, Rejected,
       Revived, TimedOut, BackedOff, Row, Statuses

\* So are the rows of a chunk without a job and of a chunk just enqueued.
LEMMA FreshRowsAreTyped == NoJob \in JobRow /\ PendingJob \in JobRow
BY DEF JobRow, NoJob, PendingJob, Row, Statuses

\* A task that moves on is a task, and its identity stays.
LEMMA TasksAreTyped ==
    ASSUME NEW t \in Task, NEW at \in Stages, NEW l \in BOOLEAN, NEW a \in BOOLEAN
    PROVE  /\ Moved(t, at, l, a) \in Task
           /\ At(t, at) \in Task
           /\ Moved(t, t.at, t.live, a) \in Task
BY DEF Task, Moved, At

\* The fields of a task.
LEMMA TaskFields ==
    ASSUME NEW t \in Task
    PROVE  /\ t.proc \in Procs /\ t.chunk \in Chunks /\ t.gen \in Nat
           /\ t.attempt \in Nat /\ t.at \in Stages
           /\ t.live \in BOOLEAN /\ t.awaited \in BOOLEAN
BY DEF Task

\* The count of disturbances stays within its bound.
LEMMA DisturbIsBounded ==
    disturbances \in 0..MaxDisturbances /\ Disturb => disturbances' \in 0..MaxDisturbances
BY ConstantsAssumption DEF Disturb

\* In the initial states every variable has its type.
LEMMA InitType == Init => TypeOK
<1> SUFFICES ASSUME Init PROVE TypeOK
  OBVIOUS
<1>1. job \in [Chunks -> JobRow]
  BY FreshRowsAreTyped DEF Init
<1>2. disturbances \in 0..MaxDisturbances
  BY ConstantsAssumption DEF Init
<1> QED
  BY <1>1, <1>2 DEF Init, TypeOK

\* No step takes a variable out of its type.
LEMMA NextType == TypeOK /\ [Next]_vars => TypeOK'
<1> SUFFICES ASSUME TypeOK, [Next]_vars PROVE TypeOK'
  OBVIOUS
<1> USE DEF TypeOK
<1>1. ASSUME NEW c \in Chunks, SaveChunk(c) PROVE TypeOK'
  BY <1>1, FreshRowsAreTyped DEF SaveChunk
<1>2. ASSUME NEW c \in Chunks, Backfill(c) PROVE TypeOK'
  BY <1>2, FreshRowsAreTyped DEF Backfill
<1>3. ASSUME NEW c \in Chunks, DeleteChunk(c) PROVE TypeOK'
  BY <1>3, FreshRowsAreTyped DEF DeleteChunk
<1>4. ASSUME NEW c \in Chunks, RetryFailed(c) PROVE TypeOK'
  BY <1>4, RowsAreTyped, DisturbIsBounded DEF RetryFailed
<1>5. ASSUME NEW p \in Procs, RecoverExpiredLeases(p) PROVE TypeOK'
  BY <1>5, RowsAreTyped DEF RecoverExpiredLeases
<1>6. ASSUME NEW p \in Procs, ClaimDue(p) PROVE TypeOK'
  <2>1. PICK claim \in SUBSET Due :
           /\ job' = [c \in Chunks |-> IF c \in claim THEN Claimed(job[c], p)
                                                      ELSE job[c]]
           /\ tasks' = tasks \cup
                {[proc |-> p, chunk |-> c, gen |-> job[c].gen + 1,
                  attempt |-> job[c].attempt + 1, at |-> "queued",
                  live |-> FALSE, awaited |-> TRUE] : c \in claim}
    BY <1>6 DEF ClaimDue
  <2>2. job' \in [Chunks -> JobRow]
    BY <2>1, RowsAreTyped
  <2>3. ASSUME NEW c \in claim
        PROVE  [proc |-> p, chunk |-> c, gen |-> job[c].gen + 1,
                attempt |-> job[c].attempt + 1, at |-> "queued",
                live |-> FALSE, awaited |-> TRUE] \in Task
    <3>1. c \in Chunks /\ job[c].gen \in Nat /\ job[c].attempt \in Nat
      BY DEF Due, JobRow
    <3> QED
      BY <3>1 DEF Task, Stages
  <2>4. tasks' \subseteq Task
    BY <2>1, <2>3
  <2> QED
    BY <1>6, <2>2, <2>4 DEF ClaimDue
<1>7. ASSUME NEW p \in Procs, SkipPoll(p) \/ FinishPoll(p) PROVE TypeOK'
  BY <1>7 DEF SkipPoll, FinishPoll
<1>8. ASSUME NEW p \in Procs, AbandonPoll(p) PROVE TypeOK'
  <2>1. \A t \in TasksOf(p) : Moved(t, t.at, t.live, FALSE) \in Task
    BY TaskFields, TasksAreTyped DEF TasksOf
  <2>2. tasks' \subseteq Task
    BY <1>8, <2>1 DEF AbandonPoll
  <2> QED
    BY <1>8, <2>2 DEF AbandonPoll
<1>9. ASSUME NEW p \in Procs, ProviderReady(p) \/ ProviderLost(p) PROVE TypeOK'
  BY <1>9, DisturbIsBounded DEF ProviderReady, ProviderLost
<1>10. ASSUME NEW p \in Procs, Crash(p) \/ Restart(p) PROVE TypeOK'
  BY <1>10, DisturbIsBounded DEF Crash, Restart, Reboot
<1>11. ASSUME NEW c \in Chunks,
              OrphanLeaseExpires(c) \/ LeaseExpiresEarly(c) \/ BackoffElapses(c)
       PROVE  TypeOK'
  BY <1>11, RowsAreTyped, DisturbIsBounded
     DEF OrphanLeaseExpires, LeaseExpiresEarly, BackoffElapses
<1>12. ASSUME NEW t \in tasks, StartTask(t) PROVE TypeOK'
  <2>1. \A at \in Stages : At(t, at) \in Task
    BY TaskFields, TasksAreTyped
  <2> QED
    BY <1>12, <2>1 DEF StartTask, Become, Finish, Stages
<1>13. ASSUME NEW t \in tasks,
              InferenceSucceeds(t) \/ InferenceViolatesContract(t) \/ InferenceFails(t)
       PROVE  TypeOK'
  <2>1. \A at \in Stages : At(t, at) \in Task
    BY TaskFields, TasksAreTyped
  <2> QED
    BY <1>13, <2>1, DisturbIsBounded
       DEF InferenceSucceeds, InferenceViolatesContract, InferenceFails, Become, Stages
<1>14. ASSUME NEW t \in tasks,
              ReleaseClaim(t) \/ MarkRetrying(t) \/ MarkPermanentlyFailed(t)
       PROVE  TypeOK'
  BY <1>14, RowsAreTyped, TasksAreTyped
     DEF ReleaseClaim, MarkRetrying, MarkPermanentlyFailed, Outcome, Finish
<1>15. ASSUME NEW t \in tasks, BeginCompletion(t) PROVE TypeOK'
  <2>1. t \in Task /\ t.chunk \in Chunks /\ t.awaited \in BOOLEAN /\ t.proc \in Procs
    BY TaskFields
  <2>2. (~job[t.chunk].expired) \in BOOLEAN
    OBVIOUS
  <2>3. \A at \in Stages : Moved(t, at, ~job[t.chunk].expired, t.awaited) \in Task
    BY <2>1, <2>2, TasksAreTyped
  <2> QED
    BY <1>15, <2>1, <2>3 DEF BeginCompletion, Become, Throw, Finish, Stages
<1>16. ASSUME NEW t \in tasks, InsertEmbedding(t) \/ ExplainRefusal(t) PROVE TypeOK'
  <2>1. \A at \in Stages : At(t, at) \in Task
    BY TaskFields, TasksAreTyped
  <2> QED
    BY <1>16, <2>1 DEF InsertEmbedding, ExplainRefusal, Become, Throw, Finish, Stages
<1>17. ASSUME NEW t \in tasks, CompleteJob(t) PROVE TypeOK'
  <2>1. t.chunk \in Chunks
    BY TaskFields
  <2>2. Succeeded(job[t.chunk]) \in JobRow
    BY <2>1, RowsAreTyped
  <2> QED
    BY <1>17, <2>1, <2>2 DEF CompleteJob, Finish
<1>18. ASSUME NEW t \in tasks, TaskThrows(t) PROVE TypeOK'
  BY <1>18, DisturbIsBounded DEF TaskThrows, Throw, Finish
<1>19. CASE UNCHANGED vars
  BY <1>19 DEF vars
<1> QED
  BY <1>1, <1>2, <1>3, <1>4, <1>5, <1>6, <1>7, <1>8, <1>9, <1>10, <1>11, <1>12,
     <1>13, <1>14, <1>15, <1>16, <1>17, <1>18, <1>19
     DEF Next, ChunkStep, ProcStep, TaskStep

\* Every variable of every reachable state has its type.
THEOREM TypeCorrect == Spec => []TypeOK
BY InitType, NextType, PTL DEF Spec
-----------------------------------------------------------------------------
(* The invariant.  Most steps do one of three things: they let go of rows, *)
(* they move one task, or they touch a single row.                          *)

\* A row is left without a lease, as the outcome statements, the recovery of
\* leases and the retry endpoint leave it.
Freed(row, new) ==
    /\ row.status \notin {"none", "succeeded"}
    /\ new.status \in {"pending", "retrying", "permanently_failed"}
    /\ new.gen = row.gen
    /\ new.owner = NoOwner
    /\ ~new.expired
    /\ new.status = "retrying" => new.attempt < MaxAttempts

\* Freeing rows and ending tasks disturbs nothing.
LEMMA FreeingKeepsInv ==
    ASSUME Inv, TypeOK', UNCHANGED <<chunk, embedding>>, tasks' \subseteq tasks,
           \A c \in Chunks : job'[c] = job[c] \/ Freed(job[c], job'[c])
    PROVE  Inv'
<1>1. EmbeddedIffSucceeded'
  BY DEF Inv, EmbeddedIffSucceeded, Freed
<1>2. \A t \in tasks : t.chunk \in Chunks
  BY TaskFields DEF Inv, TypeOK
<1>3. LeaseNamesItsTask'
  BY <1>2 DEF Inv, LeaseNamesItsTask, Freed
<1>4. LeaseFieldsMatchStatus'
  BY DEF Inv, LeaseFieldsMatchStatus, Freed
<1>5. RetryingHasAttemptsLeft'
  BY DEF Inv, RetryingHasAttemptsLeft, Freed
<1>6. OutlivedJobsAreDeleted'
  BY <1>2 DEF Inv, OutlivedJobsAreDeleted, Freed
<1>7. DecisionsAreBacked' /\ JobsHaveChunks'
  BY DEF Inv, DecisionsAreBacked, JobsHaveChunks, Freed
<1> QED
  BY <1>1, <1>3, <1>4, <1>5, <1>6, <1>7 DEF Inv

\* Two states of one process() call.
SameTask(t, u) ==
    /\ u.proc = t.proc /\ u.chunk = t.chunk
    /\ u.gen = t.gen /\ u.attempt = t.attempt

\* Moving a task on disturbs nothing, as long as its decision is backed.
LEMMA MovingKeepsInv ==
    ASSUME Inv, TypeOK', UNCHANGED <<chunk, embedding, job>>,
           NEW t \in tasks, NEW u, SameTask(t, u), Become(t, u),
           u.at = "deferring" => t.attempt < MaxAttempts,
           u.at = "rejecting" => t.chunk \in Unreadable \/ t.attempt >= MaxAttempts
    PROVE  Inv'
<1>1. /\ EmbeddedIffSucceeded' /\ LeaseFieldsMatchStatus'
      /\ RetryingHasAttemptsLeft' /\ JobsHaveChunks'
  BY DEF Inv, EmbeddedIffSucceeded, LeaseFieldsMatchStatus, RetryingHasAttemptsLeft,
         JobsHaveChunks
<1>2. LeaseNamesItsTask'
  BY DEF Inv, LeaseNamesItsTask, Become, SameTask
<1>3. OutlivedJobsAreDeleted' /\ DecisionsAreBacked'
  BY DEF Inv, OutlivedJobsAreDeleted, DecisionsAreBacked, Become, SameTask
<1> QED
  BY <1>1, <1>2, <1>3 DEF Inv

\* Touching one row disturbs nothing, when the new row keeps the promise of a
\* row and no task can mistake it for its own.
LEMMA TouchingKeepsInv ==
    ASSUME Inv, TypeOK', UNCHANGED <<embedding, tasks>>,
           NEW c \in Chunks, NEW row \in JobRow, job' = [job EXCEPT ![c] = row],
           chunk[c] # "deleted", chunk' = [chunk EXCEPT ![c] = "stored"],
           job[c].status = "succeeded" <=> row.status = "succeeded",
           job[c].status = "none" => \A t \in tasks : t.chunk # c,
           row.status # "none",
           row.status = "running" =>
              /\ job[c].status = "running" /\ row.owner = job[c].owner
              /\ row.attempt = job[c].attempt,
           job[c].status # "none" => row.gen = job[c].gen,
           row.owner # NoOwner <=> row.status = "running",
           row.expired => row.status = "running",
           row.status = "retrying" => row.attempt < MaxAttempts
    PROVE  Inv'
<1> USE DEF Inv, TypeOK
<1>1. EmbeddedIffSucceeded'
  BY DEF EmbeddedIffSucceeded
<1>2. \A t \in tasks : t.chunk \in Chunks
  BY TaskFields
<1>3. LeaseNamesItsTask'
  BY <1>2 DEF LeaseNamesItsTask
<1>4. LeaseFieldsMatchStatus' /\ RetryingHasAttemptsLeft'
  BY DEF LeaseFieldsMatchStatus, RetryingHasAttemptsLeft
<1>5. OutlivedJobsAreDeleted'
  BY <1>2 DEF OutlivedJobsAreDeleted
<1>6. DecisionsAreBacked' /\ JobsHaveChunks'
  BY DEF DecisionsAreBacked, JobsHaveChunks
<1> QED
  BY <1>1, <1>3, <1>4, <1>5, <1>6

\* The invariant holds initially.
LEMMA InitInv == Init => Inv
BY InitType DEF Init, Inv, EmbeddedIffSucceeded, LeaseNamesItsTask,
   LeaseFieldsMatchStatus, RetryingHasAttemptsLeft, OutlivedJobsAreDeleted,
   JobsHaveChunks, DecisionsAreBacked, NoJob, Row

\* Every step keeps the invariant.
LEMMA NextInv == Inv /\ [Next]_vars => Inv'
<1> SUFFICES ASSUME Inv, [Next]_vars PROVE Inv'
  OBVIOUS
<1>t. TypeOK'
  BY NextType DEF Inv
<1>f. /\ \A c \in Chunks : job[c] \in JobRow
      /\ \A t \in tasks : t.proc \in Procs /\ t.chunk \in Chunks
  BY TaskFields DEF Inv, TypeOK
<1>r. \A c \in Chunks :
         /\ job[c].status = "running" <=> job[c].owner # NoOwner
         /\ job[c].expired => job[c].status = "running"
         /\ job[c].status = "retrying" => job[c].attempt < MaxAttempts
  BY DEF Inv, LeaseFieldsMatchStatus, RetryingHasAttemptsLeft
<1>s. \A c \in Chunks : job[c].status # "none" =>
         chunk[c] # "deleted" /\ chunk = [chunk EXCEPT ![c] = "stored"]
  BY DEF Inv, TypeOK, JobsHaveChunks
<1>1. ASSUME NEW c \in Chunks, SaveChunk(c) PROVE Inv'
  <2>1. CASE job[c].status = "none"
    <3>1. \A t \in tasks : t.chunk # c
      BY <1>1, <2>1 DEF SaveChunk, Inv, OutlivedJobsAreDeleted
    <3>2. /\ PendingJob \in JobRow
          /\ PendingJob.status = "pending" /\ PendingJob.owner = NoOwner
          /\ ~PendingJob.expired
      BY FreshRowsAreTyped DEF PendingJob, Row
    <3>3. job' = [job EXCEPT ![c] = PendingJob] /\ chunk[c] # "deleted"
      BY <1>1, <2>1 DEF SaveChunk
    <3> QED
      BY <1>1, <1>t, <2>1, <3>1, <3>2, <3>3, TouchingKeepsInv DEF SaveChunk
  <2>2. CASE job[c].status # "none"
    <3>1. job' = [job EXCEPT ![c] = job[c]] /\ chunk[c] # "deleted"
      BY <1>1, <2>2 DEF SaveChunk
    <3> QED
      BY <1>1, <1>t, <1>f, <1>r, <2>2, <3>1, TouchingKeepsInv DEF SaveChunk
  <2> QED
    BY <2>1, <2>2
<1>2. ASSUME NEW c \in Chunks, Backfill(c) PROVE Inv'
  <2>1. \A t \in tasks : t.chunk # c
    BY <1>2 DEF Backfill, Inv, OutlivedJobsAreDeleted
  <2>2. /\ PendingJob \in JobRow
        /\ PendingJob.status = "pending" /\ PendingJob.owner = NoOwner
        /\ ~PendingJob.expired
    BY FreshRowsAreTyped DEF PendingJob, Row
  <2>3. chunk' = [chunk EXCEPT ![c] = "stored"] /\ chunk[c] # "deleted"
    BY <1>2 DEF Backfill, Inv, TypeOK
  <2> QED
    BY <1>2, <1>t, <2>1, <2>2, <2>3, TouchingKeepsInv DEF Backfill
<1>3. ASSUME NEW c \in Chunks, DeleteChunk(c) PROVE Inv'
  <2> USE DEF Inv, TypeOK
  <2>1. \A d \in Chunks :
           IF d = c THEN ~embedding'[d] /\ job'[d] = NoJob /\ chunk'[d] = "deleted"
           ELSE embedding'[d] = embedding[d] /\ job'[d] = job[d] /\ chunk'[d] = chunk[d]
    BY <1>3 DEF DeleteChunk
  <2>2. /\ NoJob.status = "none" /\ NoJob.owner = NoOwner /\ ~NoJob.expired
    BY DEF NoJob, Row
  <2>3. tasks' = tasks
    BY <1>3 DEF DeleteChunk
  <2>4. EmbeddedIffSucceeded'
    BY <2>1, <2>2 DEF EmbeddedIffSucceeded
  <2>5. LeaseNamesItsTask'
    BY <1>f, <2>1, <2>2, <2>3 DEF LeaseNamesItsTask
  <2>6. LeaseFieldsMatchStatus' /\ RetryingHasAttemptsLeft'
    BY <2>1, <2>2 DEF LeaseFieldsMatchStatus, RetryingHasAttemptsLeft
  <2>7. OutlivedJobsAreDeleted' /\ DecisionsAreBacked' /\ JobsHaveChunks'
    BY <1>f, <2>1, <2>2, <2>3
       DEF OutlivedJobsAreDeleted, DecisionsAreBacked, JobsHaveChunks
  <2> QED
    BY <1>t, <2>4, <2>5, <2>6, <2>7
<1>4. ASSUME NEW c \in Chunks, RetryFailed(c) PROVE Inv'
  <2>1. Freed(job[c], Revived(job[c]))
    BY <1>4, <1>f DEF RetryFailed, Freed, Revived, Row, JobRow
  <2> QED
    BY <1>4, <1>t, <2>1, FreeingKeepsInv DEF RetryFailed, Inv, TypeOK
<1>5. ASSUME NEW p \in Procs, RecoverExpiredLeases(p) PROVE Inv'
  <2>1. ASSUME NEW c \in Chunks, job[c].status = "running"
        PROVE  Freed(job[c], Recovered(job[c]))
    BY <1>f, <2>1 DEF Freed, Recovered, Row, JobRow
  <2> QED
    BY <1>5, <1>t, <2>1, FreeingKeepsInv DEF RecoverExpiredLeases
<1>6. ASSUME NEW p \in Procs, ClaimDue(p) PROVE Inv'
  <2> DEFINE Ticket(c) == [proc |-> p, chunk |-> c, gen |-> job[c].gen + 1,
                           attempt |-> job[c].attempt + 1, at |-> "queued",
                           live |-> FALSE, awaited |-> TRUE]
  <2>1. PICK claim \in SUBSET Due :
           /\ job' = [c \in Chunks |-> IF c \in claim THEN Claimed(job[c], p)
                                                      ELSE job[c]]
           /\ tasks' = tasks \cup {Ticket(c) : c \in claim}
    BY <1>6 DEF ClaimDue
  <2>2. \A c \in claim :
           /\ c \in Chunks
           /\ job[c].status \in {"pending", "retrying"}
           /\ job'[c].status = "running" /\ job'[c].owner = p /\ ~job'[c].expired
           /\ job'[c].gen = job[c].gen + 1 /\ job'[c].attempt = job[c].attempt + 1
           /\ job[c].gen \in Nat /\ job[c].attempt \in Nat
    BY <1>f, <2>1 DEF Due, Claimed, Row, JobRow
  <2>3. \A c \in Chunks : c \notin claim => job'[c] = job[c]
    BY <2>1
  <2>4. chunk' = chunk /\ embedding' = embedding
    BY <1>6 DEF ClaimDue
  <2>5. \A c \in claim :
           /\ Ticket(c).proc = p /\ Ticket(c).chunk = c
           /\ Ticket(c).gen = job[c].gen + 1 /\ Ticket(c).attempt = job[c].attempt + 1
           /\ Ticket(c).at = "queued"
    OBVIOUS
  <2>6. \A t \in tasks' : t \in tasks \/ (t.chunk \in claim /\ t = Ticket(t.chunk))
    BY <2>1, <2>5
  <2>7. \A t \in tasks : t.chunk \in claim => t.gen \in Nat /\ t.gen <= job[t.chunk].gen
    BY <2>2, TaskFields DEF Inv, TypeOK, LeaseNamesItsTask
  <2> HIDE DEF Ticket
  <2>8. EmbeddedIffSucceeded'
    BY <2>2, <2>3, <2>4 DEF Inv, EmbeddedIffSucceeded
  <2>9. LeaseNamesItsTask'
    <3>1. ASSUME NEW t \in tasks', NEW u \in tasks', t.chunk = u.chunk, t.gen = u.gen
          PROVE  t = u
      BY <2>2, <2>5, <2>6, <2>7, <3>1 DEF Inv, LeaseNamesItsTask
    <3>2. ASSUME NEW t \in tasks', job'[t.chunk].status # "none"
          PROVE  /\ t.gen <= job'[t.chunk].gen
                 /\ job'[t.chunk].status = "running" /\ t.gen = job'[t.chunk].gen =>
                       job'[t.chunk].owner = t.proc /\ job'[t.chunk].attempt = t.attempt
      <4>1. CASE t.chunk \in claim /\ t = Ticket(t.chunk)
        BY <2>2, <2>5, <4>1
      <4>2. CASE t \in tasks /\ t.chunk \in claim
        BY <2>2, <2>7, <4>2
      <4>3. CASE t \in tasks /\ t.chunk \notin claim
        BY <1>f, <2>3, <3>2, <4>3 DEF Inv, LeaseNamesItsTask
      <4> QED
        BY <2>6, <4>1, <4>2, <4>3
    <3> QED
      BY <3>1, <3>2 DEF LeaseNamesItsTask
  <2>10. LeaseFieldsMatchStatus' /\ RetryingHasAttemptsLeft'
    BY <2>2, <2>3, ConstantsAssumption
       DEF Inv, LeaseFieldsMatchStatus, RetryingHasAttemptsLeft
  <2>11. OutlivedJobsAreDeleted' /\ DecisionsAreBacked' /\ JobsHaveChunks'
    BY <1>f, <2>2, <2>3, <2>4, <2>5, <2>6
       DEF Inv, OutlivedJobsAreDeleted, DecisionsAreBacked, JobsHaveChunks
  <2> QED
    BY <1>t, <2>8, <2>9, <2>10, <2>11 DEF Inv
<1>7. ASSUME NEW p \in Procs, SkipPoll(p) \/ FinishPoll(p) PROVE Inv'
  BY <1>7, <1>t, FreeingKeepsInv DEF SkipPoll, FinishPoll
<1>8. ASSUME NEW p \in Procs, AbandonPoll(p) PROVE Inv'
  <2> DEFINE Left(t) == Moved(t, t.at, t.live, FALSE)
  <2>1. \A t \in tasks : SameTask(t, Left(t)) /\ Left(t).at = t.at
    BY DEF Moved, SameTask
  <2>2. \A u \in tasks' : \E t \in tasks : (u = t /\ t.proc # p) \/ (u = Left(t) /\ t.proc = p)
    BY <1>8 DEF AbandonPoll, TasksOf
  <2> HIDE DEF Left
  <2>3. UNCHANGED <<chunk, embedding, job>>
    BY <1>8 DEF AbandonPoll
  <2>4. /\ EmbeddedIffSucceeded' /\ LeaseFieldsMatchStatus'
        /\ RetryingHasAttemptsLeft' /\ JobsHaveChunks'
    BY <2>3 DEF Inv, EmbeddedIffSucceeded, LeaseFieldsMatchStatus,
                RetryingHasAttemptsLeft, JobsHaveChunks
  <2>5. LeaseNamesItsTask'
    BY <2>1, <2>2, <2>3 DEF Inv, LeaseNamesItsTask, SameTask
  <2>6. OutlivedJobsAreDeleted' /\ DecisionsAreBacked'
    BY <2>1, <2>2, <2>3 DEF Inv, OutlivedJobsAreDeleted, DecisionsAreBacked, SameTask
  <2> QED
    BY <1>t, <2>4, <2>5, <2>6 DEF Inv
<1>9. ASSUME NEW p \in Procs,
             ProviderReady(p) \/ ProviderLost(p) \/ Crash(p) \/ Restart(p)
      PROVE  Inv'
  BY <1>9, <1>t, FreeingKeepsInv
     DEF ProviderReady, ProviderLost, Crash, Restart, Reboot
<1>10. ASSUME NEW c \in Chunks, OrphanLeaseExpires(c) \/ LeaseExpiresEarly(c)
       PROVE  Inv'
  <2>1. /\ job[c].status = "running" /\ job' = [job EXCEPT ![c] = TimedOut(job[c])]
        /\ UNCHANGED <<chunk, embedding, tasks>>
    BY <1>10 DEF OrphanLeaseExpires, LeaseExpiresEarly
  <2>2. TimedOut(job[c]) \in JobRow
    BY <1>f, RowsAreTyped
  <2>3. /\ TimedOut(job[c]).status = job[c].status
        /\ TimedOut(job[c]).attempt = job[c].attempt
        /\ TimedOut(job[c]).gen = job[c].gen
        /\ TimedOut(job[c]).owner = job[c].owner
    BY DEF TimedOut
  <2>4. chunk[c] # "deleted" /\ chunk' = [chunk EXCEPT ![c] = "stored"]
    BY <1>s, <2>1
  <2> QED
    BY <1>t, <1>r, <2>1, <2>2, <2>3, <2>4, TouchingKeepsInv
<1>11. ASSUME NEW c \in Chunks, BackoffElapses(c) PROVE Inv'
  <2>1. BackedOff(job[c]) \in JobRow
    BY <1>f, RowsAreTyped
  <2>2. /\ BackedOff(job[c]).status = job[c].status
        /\ BackedOff(job[c]).attempt = job[c].attempt
        /\ BackedOff(job[c]).gen = job[c].gen
        /\ BackedOff(job[c]).owner = job[c].owner
        /\ ~BackedOff(job[c]).expired
    BY DEF BackedOff, Row
  <2>3. chunk[c] # "deleted" /\ chunk' = [chunk EXCEPT ![c] = "stored"]
    BY <1>11, <1>s DEF BackoffElapses
  <2> QED
    BY <1>11, <1>t, <1>r, <2>1, <2>2, <2>3, TouchingKeepsInv DEF BackoffElapses
<1>12. ASSUME NEW t \in tasks, NEW at \in Stages \ {"deferring", "rejecting"},
              NEW live, Become(t, Moved(t, at, live, t.awaited)),
              UNCHANGED <<chunk, embedding, job>>
       PROVE  Inv'
  <2> DEFINE u == Moved(t, at, live, t.awaited)
  <2>1. SameTask(t, u) /\ u.at = at
    BY DEF SameTask, Moved
  <2> HIDE DEF u
  <2>2. Become(t, u)
    BY <1>12 DEF u
  <2> QED
    BY <1>12, <1>t, <2>1, <2>2, MovingKeepsInv
<1>13. ASSUME NEW t \in tasks, Become(t, At(t, "deferring")), t.attempt < MaxAttempts,
              UNCHANGED <<chunk, embedding, job>>
       PROVE  Inv'
  <2>1. SameTask(t, At(t, "deferring")) /\ At(t, "deferring").at = "deferring"
    BY DEF SameTask, At, Moved
  <2> QED
    BY <1>13, <1>t, <2>1, MovingKeepsInv
<1>14. ASSUME NEW t \in tasks, Become(t, At(t, "rejecting")),
              t.chunk \in Unreadable \/ t.attempt >= MaxAttempts,
              UNCHANGED <<chunk, embedding, job>>
       PROVE  Inv'
  <2>1. SameTask(t, At(t, "rejecting")) /\ At(t, "rejecting").at = "rejecting"
    BY DEF SameTask, At, Moved
  <2> QED
    BY <1>14, <1>t, <2>1, MovingKeepsInv
<1>15. ASSUME NEW t \in tasks, Finish(t), UNCHANGED <<chunk, embedding, job>>
       PROVE  Inv'
  BY <1>15, <1>t, FreeingKeepsInv DEF Finish
<1>16. ASSUME NEW t \in tasks, StartTask(t) PROVE Inv'
  <2>1. UNCHANGED <<chunk, embedding, job>>
    BY <1>16 DEF StartTask
  <2>2. CASE Become(t, At(t, "releasing"))
    BY <1>12, <2>1, <2>2 DEF At, Stages
  <2>3. CASE Finish(t)
    BY <1>15, <2>1, <2>3
  <2>4. CASE Become(t, At(t, "inferring"))
    BY <1>12, <2>1, <2>4 DEF At, Stages
  <2>5. CASE Become(t, At(t, "rejecting")) /\ t.chunk \in Unreadable
    BY <1>14, <2>1, <2>5
  <2> QED
    BY <1>16, <2>2, <2>3, <2>4, <2>5 DEF StartTask
<1>17. ASSUME NEW t \in tasks, InferenceSucceeds(t) \/ InferenceViolatesContract(t)
       PROVE  Inv'
  BY <1>12, <1>17 DEF InferenceSucceeds, InferenceViolatesContract, At, Stages
<1>18. ASSUME NEW t \in tasks, InferenceFails(t) PROVE Inv'
  <2>1. t.attempt \in Nat
    BY TaskFields DEF Inv, TypeOK
  <2>2. CASE t.attempt >= MaxAttempts
    BY <1>14, <1>18, <2>2 DEF InferenceFails
  <2>3. CASE t.attempt < MaxAttempts
    BY <1>13, <1>18, <2>1, <2>3, ConstantsAssumption DEF InferenceFails
  <2> QED
    BY <2>1, <2>2, <2>3, ConstantsAssumption
<1>19. ASSUME NEW t \in tasks,
              ReleaseClaim(t) \/ MarkRetrying(t) \/ MarkPermanentlyFailed(t)
       PROVE  Inv'
  <2> DEFINE row == job[t.chunk]
  <2>1. row \in JobRow /\ t.chunk \in Chunks
    BY <1>f
  <2>2. UNCHANGED <<chunk, embedding>> /\ tasks' \subseteq tasks
    BY <1>19 DEF ReleaseClaim, MarkRetrying, MarkPermanentlyFailed, Outcome, Finish
  <2>3. CASE job' = job
    BY <1>t, <2>2, <2>3, FreeingKeepsInv
  <2>4. CASE job' # job
    <3>1. PICK new \in {Released(row), Deferred(row), Rejected(row)} :
             /\ Holds(t) /\ job' = [job EXCEPT ![t.chunk] = new]
             /\ new = Deferred(row) => t.at = "deferring"
      BY <1>19, <2>4
         DEF ReleaseClaim, MarkRetrying, MarkPermanentlyFailed, Outcome,
             Released, Deferred, Rejected, Row
    <3>2. row.status = "running" /\ row.gen = t.gen
      BY <3>1 DEF Holds
    <3>3. new = Deferred(row) => new.attempt < MaxAttempts
      BY <3>1, <3>2 DEF Inv, DecisionsAreBacked, LeaseNamesItsTask, Deferred, Row
    <3>4. Freed(row, new)
      BY <3>1, <3>2, <3>3 DEF Freed, Released, Deferred, Rejected, Row
    <3>5. \A c \in Chunks : job'[c] = job[c] \/ Freed(job[c], job'[c])
      BY <2>1, <3>1, <3>4 DEF Inv, TypeOK
    <3> QED
      BY <1>t, <2>2, <3>5, FreeingKeepsInv
  <2> QED
    BY <2>3, <2>4
<1>20. ASSUME NEW t \in tasks, BeginCompletion(t) PROVE Inv'
  BY <1>12, <1>15, <1>20 DEF BeginCompletion, Throw, Stages
<1>21. ASSUME NEW t \in tasks, InsertEmbedding(t) PROVE Inv'
  BY <1>12, <1>21 DEF InsertEmbedding, At, Stages
<1>22. ASSUME NEW t \in tasks, ExplainRefusal(t) \/ TaskThrows(t) PROVE Inv'
  BY <1>15, <1>22 DEF ExplainRefusal, TaskThrows, Throw
<1>23. ASSUME NEW t \in tasks, CompleteJob(t) PROVE Inv'
  <2>1. CASE ~(Holds(t) /\ t.live)
    BY <1>15, <1>23, <2>1 DEF CompleteJob
  <2>2. CASE Holds(t) /\ t.live
    <3> USE DEF Inv, TypeOK
    <3>1. /\ t.chunk \in Chunks /\ chunk' = chunk /\ tasks' = tasks \ {t}
          /\ \A c \in Chunks : c # t.chunk => job'[c] = job[c] /\ embedding'[c] = embedding[c]
          /\ job'[t.chunk].status = "succeeded" /\ embedding'[t.chunk]
          /\ job'[t.chunk].owner = NoOwner /\ ~job'[t.chunk].expired
          /\ job'[t.chunk].gen = job[t.chunk].gen /\ job[t.chunk].status = "running"
      BY <1>f, <1>23, <2>2 DEF CompleteJob, Finish, Holds, Succeeded, Row
    <3>2. EmbeddedIffSucceeded'
      BY <3>1 DEF EmbeddedIffSucceeded
    <3>3. LeaseNamesItsTask'
      BY <1>f, <3>1 DEF LeaseNamesItsTask
    <3>4. LeaseFieldsMatchStatus' /\ RetryingHasAttemptsLeft'
      BY <3>1 DEF LeaseFieldsMatchStatus, RetryingHasAttemptsLeft
    <3>5. OutlivedJobsAreDeleted' /\ DecisionsAreBacked' /\ JobsHaveChunks'
      BY <1>f, <3>1 DEF OutlivedJobsAreDeleted, DecisionsAreBacked, JobsHaveChunks
    <3> QED
      BY <1>t, <3>2, <3>3, <3>4, <3>5
  <2> QED
    BY <2>1, <2>2
<1>24. CASE UNCHANGED vars
  BY <1>24, <1>t, FreeingKeepsInv DEF vars
<1> QED
  BY <1>1, <1>2, <1>3, <1>4, <1>5, <1>6, <1>7, <1>8, <1>9, <1>10, <1>11, <1>16,
     <1>17, <1>18, <1>19, <1>20, <1>21, <1>22, <1>23, <1>24
     DEF Next, ChunkStep, ProcStep, TaskStep

\* The invariant holds in every reachable state.
THEOREM InvariantHolds == Spec => []Inv
BY InitInv, NextInv, PTL DEF Spec

\* A chunk is embedded exactly when its job succeeded, for every number of
\* chunks, processes, attempts and mishaps.
THEOREM EmbeddedExactlyWhenSucceeded == Spec => []EmbeddedIffSucceeded
<1>1. Inv => EmbeddedIffSucceeded
  BY DEF Inv
<1> QED
  BY <1>1, InvariantHolds, PTL

\* A lease names one task, however leases expire and are taken over.
THEOREM LeasesNameTheirTasks == Spec => []LeaseNamesItsTask
<1>1. Inv => LeaseNamesItsTask
  BY DEF Inv
<1> QED
  BY <1>1, InvariantHolds, PTL

\* The lease columns agree with the status, as the CHECK constraint demands.
THEOREM LeaseFieldsAlwaysMatch == Spec => []LeaseFieldsMatchStatus
<1>1. Inv => LeaseFieldsMatchStatus
  BY DEF Inv
<1> QED
  BY <1>1, InvariantHolds, PTL

\* A job that waits for a retry has attempts left.
THEOREM RetriesHaveAttemptsLeft == Spec => []RetryingHasAttemptsLeft
<1>1. Inv => RetryingHasAttemptsLeft
  BY DEF Inv
<1> QED
  BY <1>1, InvariantHolds, PTL

\* The five together, as the runs check them.
THEOREM JobsStayConsistent == Spec => []JobsAreConsistent
<1>1. Inv => JobsAreConsistent
  BY DEF Inv, JobsAreConsistent
<1> QED
  BY <1>1, InvariantHolds, PTL

-----------------------------------------------------------------------------
(* The action properties and the refinement rest on what one step can do   *)
(* to the chunks.                                                          *)

Owed == {"pending", "running", "retrying"}

\* Nothing the abstract queue would notice happens to the chunk.
Quiet(c) ==
    /\ chunk'[c] = chunk[c]
    /\ embedding'[c] = embedding[c]
    /\ \/ job'[c] = job[c]
       \/ job[c].status \in Owed /\ job'[c].status \in Owed

\* The steps that it does notice.
Enqueued(c) ==
    /\ chunk[c] \in {"absent", "stored"} /\ chunk'[c] = "stored"
    /\ embedding'[c] = embedding[c]
    /\ job[c].status = "none" /\ job'[c].status = "pending"

Embedded(c) ==
    /\ chunk'[c] = chunk[c]
    /\ embedding'[c]
    /\ job[c].status = "running" /\ job'[c].status = "succeeded"

GivenUp(c) ==
    /\ chunk'[c] = chunk[c]
    /\ embedding'[c] = embedding[c]
    /\ job[c].status = "running" /\ job'[c].status = "permanently_failed"
    /\ c \in Unreadable \/ job[c].attempt >= MaxAttempts

Reopened(c) ==
    /\ chunk'[c] = chunk[c]
    /\ embedding'[c] = embedding[c]
    /\ job[c].status = "permanently_failed" /\ job'[c].status = "pending"

Dropped(c) ==
    /\ chunk[c] = "stored" /\ chunk'[c] = "deleted"
    /\ job'[c].status = "none"

\* A step is quiet for every chunk, or does one of these things to one chunk.
LEMMA WhatAStepDoes ==
    ASSUME Inv, [Next]_vars
    PROVE  \/ \A c \in Chunks : Quiet(c)
           \/ \E c \in Chunks :
                 /\ Enqueued(c) \/ Embedded(c) \/ GivenUp(c) \/ Reopened(c) \/ Dropped(c)
                 /\ \A d \in Chunks \ {c} : Quiet(d)
<1> DEFINE Goal ==
      \/ \A c \in Chunks : Quiet(c)
      \/ \E c \in Chunks :
            /\ Enqueued(c) \/ Embedded(c) \/ GivenUp(c) \/ Reopened(c) \/ Dropped(c)
            /\ \A d \in Chunks \ {c} : Quiet(d)
<1> USE DEF Inv, TypeOK
<1>1. ASSUME NEW c \in Chunks, SaveChunk(c) PROVE Goal
  <2>1. CASE job[c].status = "none"
    <3>1. Enqueued(c)
      BY <1>1, <2>1 DEF SaveChunk, Enqueued, PendingJob, Row
    <3>2. \A d \in Chunks \ {c} : Quiet(d)
      BY <1>1 DEF SaveChunk, Quiet
    <3> QED
      BY <3>1, <3>2
  <2>2. CASE job[c].status # "none"
    BY <1>1, <2>2 DEF SaveChunk, Quiet, JobsHaveChunks
  <2> QED
    BY <2>1, <2>2
<1>2. ASSUME NEW c \in Chunks, Backfill(c) PROVE Goal
  <2>1. Enqueued(c)
    BY <1>2 DEF Backfill, Enqueued, PendingJob, Row
  <2>2. \A d \in Chunks \ {c} : Quiet(d)
    BY <1>2 DEF Backfill, Quiet
  <2> QED
    BY <2>1, <2>2
<1>3. ASSUME NEW c \in Chunks, DeleteChunk(c) PROVE Goal
  <2>1. Dropped(c)
    BY <1>3 DEF DeleteChunk, Dropped, NoJob, Row
  <2>2. \A d \in Chunks \ {c} : Quiet(d)
    BY <1>3 DEF DeleteChunk, Quiet
  <2> QED
    BY <2>1, <2>2
<1>4. ASSUME NEW c \in Chunks, RetryFailed(c) PROVE Goal
  <2>1. Reopened(c)
    BY <1>4 DEF RetryFailed, Reopened, Revived, Row
  <2>2. \A d \in Chunks \ {c} : Quiet(d)
    BY <1>4 DEF RetryFailed, Quiet
  <2> QED
    BY <2>1, <2>2
<1>5. ASSUME NEW p \in Procs, RecoverExpiredLeases(p) PROVE Goal
  BY <1>5 DEF RecoverExpiredLeases, Quiet, Owed, Recovered, Row
<1>6. ASSUME NEW p \in Procs, ClaimDue(p) PROVE Goal
  <2>1. PICK claim \in SUBSET Due :
           job' = [c \in Chunks |-> IF c \in claim THEN Claimed(job[c], p) ELSE job[c]]
    BY <1>6 DEF ClaimDue
  <2>2. \A c \in Chunks : Claimed(job[c], p).status = "running"
    BY DEF Claimed, Row
  <2> QED
    BY <1>6, <2>1, <2>2 DEF ClaimDue, Quiet, Owed, Due
<1>7. ASSUME NEW c \in Chunks,
             OrphanLeaseExpires(c) \/ LeaseExpiresEarly(c) \/ BackoffElapses(c)
      PROVE  Goal
  BY <1>7 DEF OrphanLeaseExpires, LeaseExpiresEarly, BackoffElapses, Quiet, Owed,
              TimedOut, BackedOff, Row
<1>8. ASSUME NEW t \in tasks, ReleaseClaim(t) \/ MarkRetrying(t) PROVE Goal
  <2>1. t.chunk \in Chunks
    BY TaskFields
  <2> QED
    BY <1>8, <2>1 DEF ReleaseClaim, MarkRetrying, Outcome, Holds, Quiet, Owed,
                      Released, Deferred, Row
<1>9. ASSUME NEW t \in tasks, MarkPermanentlyFailed(t) PROVE Goal
  <2>1. t.chunk \in Chunks
    BY TaskFields
  <2>2. CASE job' = job
    BY <1>9, <2>2 DEF MarkPermanentlyFailed, Outcome, Quiet
  <2>3. CASE Holds(t) /\ job' = [job EXCEPT ![t.chunk] = Rejected(job[t.chunk])]
    <3>1. t.chunk \in Unreadable \/ job[t.chunk].attempt >= MaxAttempts
      BY <1>9, <2>3 DEF MarkPermanentlyFailed, DecisionsAreBacked, LeaseNamesItsTask, Holds
    <3>2. GivenUp(t.chunk)
      BY <1>9, <2>1, <2>3, <3>1
         DEF MarkPermanentlyFailed, Outcome, GivenUp, Holds, Rejected, Row
    <3>3. \A d \in Chunks \ {t.chunk} : Quiet(d)
      BY <1>9, <2>3 DEF MarkPermanentlyFailed, Outcome, Quiet
    <3> QED
      BY <2>1, <3>2, <3>3
  <2> QED
    BY <1>9, <2>2, <2>3 DEF MarkPermanentlyFailed, Outcome
<1>10. ASSUME NEW t \in tasks, CompleteJob(t) PROVE Goal
  <2>1. t.chunk \in Chunks
    BY TaskFields
  <2>2. CASE ~(Holds(t) /\ t.live)
    BY <1>10, <2>2 DEF CompleteJob, Quiet
  <2>3. CASE Holds(t) /\ t.live
    <3>1. Embedded(t.chunk)
      BY <1>10, <2>1, <2>3 DEF CompleteJob, Embedded, Holds, Succeeded, Row
    <3>2. \A d \in Chunks \ {t.chunk} : Quiet(d)
      BY <1>10, <2>3 DEF CompleteJob, Quiet
    <3> QED
      BY <2>1, <3>1, <3>2
  <2> QED
    BY <2>2, <2>3
<1>11. ASSUME UNCHANGED <<chunk, embedding, job>> PROVE Goal
  BY <1>11 DEF Quiet
<1>12. ASSUME NEW p \in Procs,
              \/ SkipPoll(p) \/ FinishPoll(p) \/ AbandonPoll(p) \/ ProviderReady(p)
              \/ ProviderLost(p) \/ Crash(p) \/ Restart(p)
       PROVE  UNCHANGED <<chunk, embedding, job>>
  BY <1>12 DEF SkipPoll, FinishPoll, AbandonPoll, ProviderReady, ProviderLost, Crash,
               Restart, Reboot
<1>13. ASSUME NEW t \in tasks,
              \/ StartTask(t) \/ InferenceSucceeds(t) \/ InferenceFails(t)
              \/ BeginCompletion(t) \/ InsertEmbedding(t) \/ ExplainRefusal(t)
              \/ InferenceViolatesContract(t) \/ TaskThrows(t)
       PROVE  UNCHANGED <<chunk, embedding, job>>
  BY <1>13 DEF StartTask, InferenceSucceeds, InferenceFails, BeginCompletion,
               InsertEmbedding, ExplainRefusal, InferenceViolatesContract, TaskThrows
<1>14. ASSUME UNCHANGED vars PROVE Goal
  BY <1>11, <1>14 DEF vars
<1> HIDE DEF Goal
<1>15. Goal
  BY <1>1, <1>2, <1>3, <1>4, <1>5, <1>6, <1>7, <1>8, <1>9, <1>10, <1>11, <1>12,
     <1>13, <1>14 DEF Next, ChunkStep, ProcStep, TaskStep
<1> QED
  BY <1>15 DEF Goal

\* Success is final, for every interleaving of every number of workers.
THEOREM SuccessNeverUndone == Spec => SuccessIsFinal
<1>1. Inv /\ [Next]_vars =>
         [\A c \in Chunks :
             job[c].status = "succeeded" /\ chunk'[c] # "deleted" =>
                job'[c] = job[c] /\ embedding'[c]]_vars
  <2> SUFFICES ASSUME Inv, [Next]_vars, NEW c \in Chunks,
                      job[c].status = "succeeded", chunk'[c] # "deleted"
               PROVE  job'[c] = job[c] /\ embedding'[c]
    OBVIOUS
  <2>1. embedding[c]
    BY DEF Inv, EmbeddedIffSucceeded
  <2>2. Quiet(c)
    BY WhatAStepDoes DEF Enqueued, Embedded, GivenUp, Reopened, Dropped
  <2> QED
    BY <2>1, <2>2 DEF Quiet, Owed
<1> QED
  BY <1>1, InvariantHolds, PTL DEF Spec, SuccessIsFinal

\* A worker gives up only on an unreadable chunk or an exhausted job.
THEOREM GivingUpIsJustified == Spec => GivesUpOnlyWhenExhausted
<1>1. Inv /\ [Next]_vars =>
         [\A c \in Chunks :
             job[c].status = "running" /\ job'[c].status = "permanently_failed" =>
                c \in Unreadable \/ job[c].attempt >= MaxAttempts]_vars
  <2> SUFFICES ASSUME Inv, [Next]_vars, NEW c \in Chunks,
                      job[c].status = "running", job'[c].status = "permanently_failed"
               PROVE  c \in Unreadable \/ job[c].attempt >= MaxAttempts
    OBVIOUS
  <2>1. ~Quiet(c)
    BY DEF Quiet, Owed
  <2> QED
    BY <2>1, WhatAStepDoes DEF Enqueued, Embedded, GivenUp, Reopened, Dropped
<1> QED
  BY <1>1, InvariantHolds, PTL DEF Spec, GivesUpOnlyWhenExhausted

\* No step takes back a success, and none gives up early.
THEOREM ProgressNeverUndone == Spec => ProgressIsKept
BY SuccessNeverUndone, GivingUpIsJustified DEF ProgressIsKept

-----------------------------------------------------------------------------
(* The queue implements its promise.                                       *)

\* What the promise is, from the status alone: the invariant rules out the
\* combinations that Promise calls inconsistent.
PromiseByStatus ==
    \A c \in Chunks :
        /\ chunk[c] # "stored" => Promise[c] = chunk[c] /\ job[c].status = "none"
        /\ chunk[c] = "stored" =>
              /\ job[c].status = "none" => Promise[c] = "missing"
              /\ job[c].status \in Owed => Promise[c] = "owed"
              /\ job[c].status = "succeeded" => Promise[c] = "embedded"
              /\ job[c].status = "permanently_failed" => Promise[c] = "failed"
        /\ job[c].status \in Statuses
        /\ chunk[c] \in {"absent", "stored", "deleted"}

\* The invariant makes the promise a function of the status.
LEMMA PromiseFollowsStatus == Inv => PromiseByStatus
<1> SUFFICES ASSUME Inv PROVE PromiseByStatus
  OBVIOUS
<1>1. \A c \in Chunks :
         /\ embedding[c] <=> job[c].status = "succeeded"
         /\ job[c].status # "none" => chunk[c] = "stored"
         /\ job[c].status \in Statuses
         /\ chunk[c] \in {"absent", "stored", "deleted"}
  BY DEF Inv, TypeOK, EmbeddedIffSucceeded, JobsHaveChunks, JobRow
<1> QED
  BY <1>1 DEF PromiseByStatus, Promise, Owed, Statuses

\* A step of the queue is a step of the promise, or leaves it as it is.
LEMMA StepsKeepThePromise ==
    Inv /\ Inv' /\ [Next]_vars => [Queue!Next]_Promise
<1> SUFFICES ASSUME Inv, Inv', [Next]_vars PROVE [Queue!Next]_Promise
  OBVIOUS
<1>p. PromiseByStatus /\ PromiseByStatus'
  BY PromiseFollowsStatus, PTL
<1>1. ASSUME NEW c \in Chunks, Quiet(c) PROVE Promise'[c] = Promise[c]
  BY <1>1, <1>p DEF PromiseByStatus, Quiet, Owed, Statuses
<1>f. /\ Promise = [c \in Chunks |-> Promise[c]]
      /\ Promise' = [c \in Chunks |-> Promise'[c]]
  BY DEF Promise
<1>2. CASE \A c \in Chunks : Quiet(c)
  BY <1>1, <1>2, <1>f
<1>3. ASSUME NEW c \in Chunks,
             Enqueued(c) \/ Embedded(c) \/ GivenUp(c) \/ Reopened(c) \/ Dropped(c),
             \A d \in Chunks \ {c} : Quiet(d)
      PROVE  Queue!Next
  <2>1. Promise' = [Promise EXCEPT ![c] = Promise'[c]]
    BY <1>1, <1>3, <1>f
  <2>2. CASE Enqueued(c)
    <3>1. Promise[c] \in {"absent", "missing"} /\ Promise'[c] = "owed"
      BY <1>p, <2>2 DEF PromiseByStatus, Enqueued, Owed
    <3> QED
      BY <2>1, <3>1 DEF Queue!Next, Queue!Store, Queue!Turn
  <2>3. CASE Embedded(c) \/ GivenUp(c)
    <3>1. Promise[c] = "owed" /\ Promise'[c] \in {"embedded", "failed"}
      BY <1>p, <2>3 DEF PromiseByStatus, Embedded, GivenUp, Owed
    <3> QED
      BY <2>1, <3>1 DEF Queue!Next, Queue!Settle, Queue!Turn
  <2>4. CASE Reopened(c)
    <3>1. Promise[c] = "failed" /\ Promise'[c] = "owed"
      BY <1>p, <2>4 DEF PromiseByStatus, Reopened, Owed
    <3> QED
      BY <2>1, <3>1 DEF Queue!Next, Queue!Revive, Queue!Turn
  <2>5. CASE Dropped(c)
    <3>1. Promise[c] \in {"missing", "owed", "embedded", "failed"} /\ Promise'[c] = "deleted"
      BY <1>p, <2>5 DEF PromiseByStatus, Dropped, Owed, Statuses
    <3> QED
      BY <2>1, <3>1 DEF Queue!Next, Queue!Delete, Queue!Turn
  <2> QED
    BY <1>3, <2>2, <2>3, <2>4, <2>5
<1> QED
  BY <1>2, <1>3, WhatAStepDoes

\* The embedding queue implements the promise it makes: whatever its workers,
\* leases and transactions do, each chunk only takes the steps of EmbeddingQueue.
THEOREM QueueKeepsItsPromise == Spec => ImplementsQueue
<1>1. Init => Queue!Init
  BY DEF Init, Queue!Init, Promise, NoJob, Row
<1> QED
  BY <1>1, InvariantHolds, StepsKeepThePromise, PTL DEF Spec, ImplementsQueue, Queue!Spec

-----------------------------------------------------------------------------
(* Backfill                                                                *)

\* Only a page that is being written holds chunks: stored ones that nobody has
\* locked, and no chunk is in two pages.
PagesAreApart ==
    /\ \A t \in Threads : page[t] # {} => pc[t] = "writing"
    /\ \A t \in Threads : page[t] \subseteq stored \ locked
    /\ \A t, u \in Threads : t # u => page[t] \cap page[u] = {}

\* A chunk that is gone has left neither job nor embedding.
JobsHaveTheirChunks == \A c \in ChunkIds : jobStatus[c] # "none" => c \in stored

BackfillInv == BackfillTypeOK /\ PagesAreApart /\ JobsHaveTheirChunks

\* Every non-empty set of naturals has a least element.
LEMMA LeastNumber ==
    ASSUME NEW T \in SUBSET Nat, T # {}
    PROVE  \E n \in T : \A m \in T : n <= m
<1> DEFINE R == OpToRel(<, Nat)
<1>1. IsWellFoundedOn(R, Nat)
  BY NatLessThanWellFounded
<1>2. \A m, n \in Nat : <<m, n>> \in R <=> m < n
  BY DEF OpToRel
<1> HIDE DEF R
<1>3. PICK n \in T : \A m \in T : ~ (<<m, n>> \in R)
  BY <1>1, WFMin
<1>4. ASSUME NEW m \in T
      PROVE  n <= m
  <2>1. m \in Nat /\ n \in Nat /\ ~ (<<m, n>> \in R)
    BY <1>3
  <2>2. ~ (m < n)
    BY <1>2, <2>1
  <2>3. QED
    BY <2>1, <2>2
<1>5. QED
  BY <1>3, <1>4

\* The last chunk of a page is one of it.
LEMMA LastIsOfThePage ==
    ASSUME NEW S \in SUBSET ChunkIds, S # {}
    PROVE  Max(S) \in 0 .. Count
<1>1. Count \in Nat
  BY BackfillAssumption
<1> DEFINE T == {Count - n : n \in S}
<1>2. \A n \in S : Count - n \in Nat
  BY <1>1 DEF ChunkIds
<1>3. PICK least \in T : \A m \in T : least <= m
  <2>1. T \in SUBSET Nat
    BY <1>2
  <2>2. T # {}
    OBVIOUS
  <2> HIDE DEF T
  <2>3. QED
    BY <2>1, <2>2, LeastNumber
<1>4. PICK last \in S : least = Count - last
  OBVIOUS
<1>5. \A n \in S : last >= n
  <2> SUFFICES ASSUME NEW n \in S
               PROVE  last >= n
    OBVIOUS
  <2>1. Count - last <= Count - n
    BY <1>3, <1>4
  <2>2. last \in Int /\ n \in Int
    BY DEF ChunkIds
  <2>3. QED
    BY <1>1, <2>1, <2>2
<1>6. Max(S) \in S
  BY <1>5, Zenon DEF Max
<1>7. Max(S) \in 1 .. Count
  BY <1>6 DEF ChunkIds
<1>8. QED
  BY <1>1, <1>7

\* The invariant holds at the start.
LEMMA BackfillInvAtTheStart == BackfillInit => BackfillInv
BY BackfillAssumption DEF BackfillInit, BackfillInv, BackfillTypeOK, PagesAreApart, JobsHaveTheirChunks, JobStatuses

\* The steps of a thread keep it.
LEMMA ReconcilingKeepsInv ==
    ASSUME BackfillInv, NEW t \in Threads, Reconcile(t) \/ LosePage(t)
    PROVE  BackfillInv'
<1> USE DEF BackfillInv
<1>1. CASE ReadCursor(t)
  BY <1>1, BackfillAssumption DEF ReadCursor, chunkRows, BackfillTypeOK, PagesAreApart, JobsHaveTheirChunks
<1>2. CASE ScanPage(t)
  <2>1. PICK S : /\ page' = [page EXCEPT ![t] = S]
                 /\ S \subseteq stored \ (locked \cup PagesOfOthers(t))
    BY <1>2 DEF ScanPage, First
  <2>2. \A u \in Threads : u # t => page[u] \cap S = {}
    BY <2>1 DEF PagesOfOthers
  <2>3. BackfillTypeOK'
    BY <1>2, <2>1 DEF ScanPage, chunkRows, BackfillTypeOK
  <2>4. JobsHaveTheirChunks'
    BY <1>2 DEF ScanPage, chunkRows, JobsHaveTheirChunks
  <2>5. /\ page'[t] = S /\ \A u \in Threads : u # t => page'[u] = page[u]
        /\ pc'[t] = "writing" /\ \A u \in Threads : u # t => pc'[u] = pc[u]
        /\ stored' = stored /\ locked' = locked
    BY <1>2, <2>1 DEF ScanPage, chunkRows, BackfillTypeOK
  <2>6. \A u \in Threads : page'[u] # {} => pc'[u] = "writing"
    BY <2>5 DEF PagesAreApart
  <2>7. \A u \in Threads : page'[u] \subseteq stored' \ locked'
    BY <2>1, <2>5 DEF PagesAreApart
  <2>8. \A u, v \in Threads : u # v => page'[u] \cap page'[v] = {}
    BY <2>2, <2>5 DEF PagesAreApart
  <2>9. QED
    BY <2>3, <2>4, <2>6, <2>7, <2>8 DEF PagesAreApart
<1>3. CASE WritePage(t)
  <2>1. jobStatus' \in [ChunkIds -> JobStatuses]
    BY <1>3 DEF WritePage, BackfillTypeOK, JobStatuses
  <2>2. mirror' \subseteq {c \in stored' : vector'[c] = "384"}
    BY <1>3 DEF WritePage, BackfillTypeOK, PagesAreApart, JobsHaveTheirChunks, LacksMirror
  <2>3. (IF page[t] = {} THEN 0 ELSE Max(page[t])) \in 0 .. Count
    BY LastIsOfThePage, BackfillAssumption DEF BackfillTypeOK
  <2>4. after' \in [Threads -> 0 .. Count]
    BY <1>3, <2>3 DEF WritePage, BackfillTypeOK
  <2>5. BackfillTypeOK'
    BY <1>3, <2>1, <2>2, <2>4 DEF WritePage, BackfillTypeOK
  <2>6. PagesAreApart' /\ JobsHaveTheirChunks'
    BY <1>3 DEF WritePage, BackfillTypeOK, PagesAreApart, JobsHaveTheirChunks
  <2>7. QED
    BY <2>5, <2>6
<1>4. CASE SetCursor(t)
  BY <1>4, BackfillAssumption DEF SetCursor, chunkRows, BackfillTypeOK, PagesAreApart, JobsHaveTheirChunks
<1>5. CASE LosePage(t)
  BY <1>5, BackfillAssumption DEF LosePage, CountEvent, chunkRows, BackfillTypeOK, PagesAreApart, JobsHaveTheirChunks
<1>6. QED
  BY <1>1, <1>2, <1>3, <1>4, <1>5 DEF Reconcile

\* A restart rolls the pages of the process back.
LEMMA RestartingKeepsInv ==
    ASSUME BackfillInv, NEW p \in Processes, RestartReconciler(p)
    PROVE  BackfillInv'
<1>1. BackfillTypeOK'
  BY BackfillAssumption
  DEF BackfillInv, RestartReconciler, CountEvent, chunkRows, BackfillTypeOK
<1>2. PagesAreApart' /\ JobsHaveTheirChunks'
  BY DEF BackfillInv, RestartReconciler, CountEvent, chunkRows, BackfillTypeOK, PagesAreApart, JobsHaveTheirChunks
<1>3. QED
  BY <1>1, <1>2 DEF BackfillInv

\* So do the locks, deletions and embeddings of everybody else.
LEMMA OthersKeepBackfillInv ==
    ASSUME BackfillInv, NEW c \in ChunkIds,
           Lock(c) \/ Unlock(c) \/ Claim(c) \/ Complete(c) \/ GiveBack(c)
    PROVE  BackfillInv'
<1> USE DEF BackfillInv
<1>1. CASE Lock(c)
  BY <1>1, BackfillAssumption DEF Lock, CountEvent, chunkRows, BackfillTypeOK, PagesAreApart, JobsHaveTheirChunks
<1>2. CASE Unlock(c)
  <2>1. BackfillTypeOK'
    BY <1>2 DEF Unlock, chunkRows, BackfillTypeOK, JobStatuses
  <2>2. PagesAreApart' /\ JobsHaveTheirChunks'
    BY <1>2 DEF Unlock, chunkRows, BackfillTypeOK, PagesAreApart, JobsHaveTheirChunks
  <2>3. QED
    BY <2>1, <2>2
<1>3. CASE Claim(c)
  BY <1>3 DEF Claim, BackfillTypeOK, PagesAreApart, JobsHaveTheirChunks, JobStatuses
<1>4. CASE Complete(c)
  <2>1. c \in stored
    BY <1>4 DEF Complete, JobsHaveTheirChunks
  <2>2. QED
    BY <1>4, <2>1 DEF Complete, BackfillTypeOK, PagesAreApart, JobsHaveTheirChunks, JobStatuses
<1>5. CASE GiveBack(c)
  BY <1>5 DEF GiveBack, BackfillTypeOK, PagesAreApart, JobsHaveTheirChunks, JobStatuses
<1>6. QED
  BY <1>1, <1>2, <1>3, <1>4, <1>5

\* BackfillInv is an inductive invariant of the reconciler.
LEMMA BackfillInvariance == BackfillSpec => []BackfillInv
<1>1. BackfillInv /\ BackfillNext => BackfillInv'
  BY ReconcilingKeepsInv, RestartingKeepsInv, OthersKeepBackfillInv DEF BackfillNext
<1>2. BackfillInv /\ UNCHANGED backfillVars => BackfillInv'
  BY DEF BackfillInv, backfillVars, BackfillTypeOK, PagesAreApart, JobsHaveTheirChunks
<1>3. QED
  BY <1>1, <1>2, BackfillInvAtTheStart, PTL DEF BackfillSpec

\* Two disjoint finite sets hold as many elements as both.
LEMMA DisjointUnion ==
    ASSUME NEW S, NEW T, IsFiniteSet(S), IsFiniteSet(T), S \cap T = {}
    PROVE  /\ IsFiniteSet(S \cup T)
           /\ Cardinality(S) \in Nat /\ Cardinality(T) \in Nat
           /\ Cardinality(S \cup T) = Cardinality(S) + Cardinality(T)
<1>1. Cardinality(S) \in Nat /\ Cardinality(T) \in Nat
  BY FS_CardinalityType
<1>2. /\ IsFiniteSet(S \cup T)
      /\ Cardinality(S \cup T) = Cardinality(S) + Cardinality(T) - Cardinality(S \cap T)
  BY FS_Union
<1>3. Cardinality(S \cap T) = 0
  BY FS_EmptySet
<1>4. QED
  BY <1>1, <1>2, <1>3

\* The six counts of the coverage are of six disjoint parts of the stored chunks.
LEMMA CoveragePartitions ==
    ASSUME BackfillTypeOK
    PROVE  CoverageAddsUp
<1> DEFINE A == WithStatus("pending")
           B == WithStatus("running")
           C == WithStatus("retrying")
           D == SucceededChunks
           E == WithStatus("permanently_failed")
           F == MissingChunks
<1>1. IsFiniteSet(stored)
  <2>1. IsFiniteSet(1 .. Count)
    <3>1. 1 \in Int /\ Count \in Int
      BY BackfillAssumption
    <3>2. QED
      BY <3>1, FS_Interval
  <2>2. QED
    BY <2>1, FS_Subset DEF BackfillTypeOK, ChunkIds
<1>2. A \subseteq stored /\ B \subseteq stored /\ C \subseteq stored
      /\ D \subseteq stored /\ E \subseteq stored /\ F \subseteq stored
  BY DEF WithStatus, SucceededChunks, MissingChunks
<1>3. IsFiniteSet(A) /\ IsFiniteSet(B) /\ IsFiniteSet(C)
      /\ IsFiniteSet(D) /\ IsFiniteSet(E) /\ IsFiniteSet(F)
  BY <1>1, <1>2, FS_Subset
<1>4. stored = A \cup B \cup C \cup D \cup E \cup F
  BY DEF BackfillTypeOK, JobStatuses, WithStatus, SucceededChunks, MissingChunks, LacksJob
<1>5. /\ A \cap B = {} /\ (A \cup B) \cap C = {} /\ (A \cup B \cup C) \cap D = {}
      /\ (A \cup B \cup C \cup D) \cap E = {} /\ (A \cup B \cup C \cup D \cup E) \cap F = {}
  BY DEF WithStatus, SucceededChunks, MissingChunks, LacksJob
<1> HIDE DEF A, B, C, D, E, F
<1>6. /\ IsFiniteSet(A \cup B) /\ Cardinality(A) \in Nat /\ Cardinality(B) \in Nat
      /\ Cardinality(A \cup B) = Cardinality(A) + Cardinality(B)
  BY <1>3, <1>5, DisjointUnion
<1>7. /\ IsFiniteSet(A \cup B \cup C) /\ Cardinality(C) \in Nat
      /\ Cardinality(A \cup B \cup C) = Cardinality(A \cup B) + Cardinality(C)
  BY <1>3, <1>5, <1>6, DisjointUnion
<1>8. /\ IsFiniteSet(A \cup B \cup C \cup D) /\ Cardinality(D) \in Nat
      /\ Cardinality(A \cup B \cup C \cup D) = Cardinality(A \cup B \cup C) + Cardinality(D)
  BY <1>3, <1>5, <1>7, DisjointUnion
<1>9. /\ IsFiniteSet(A \cup B \cup C \cup D \cup E) /\ Cardinality(E) \in Nat
      /\ Cardinality(A \cup B \cup C \cup D \cup E)
             = Cardinality(A \cup B \cup C \cup D) + Cardinality(E)
  BY <1>3, <1>5, <1>8, DisjointUnion
<1>10. Cardinality(stored) = Cardinality(A \cup B \cup C \cup D \cup E) + Cardinality(F)
       /\ Cardinality(F) \in Nat
  BY <1>3, <1>4, <1>5, <1>9, DisjointUnion
<1>11. Cardinality(stored) = Cardinality(A) + Cardinality(B) + Cardinality(C) + Cardinality(D)
                             + Cardinality(E) + Cardinality(F)
  BY <1>6, <1>7, <1>8, <1>9, <1>10
<1>12. QED
  BY <1>11 DEF CoverageAddsUp, A, B, C, D, E, F

\* Pages, rows and counts fit together at every moment of a reconciliation: a page
\* holds stored chunks that wait for nobody and that no other page holds.
THEOREM BackfillStaysConsistent == BackfillSpec => []BackfillIsConsistent
<1>1. BackfillInv => PagesHoldTheirChunks
  BY DEF BackfillInv, PagesAreApart, PagesHoldTheirChunks, PagesOfOthers
<1>2. BackfillInv => BackfillIsConsistent
  BY <1>1, CoveragePartitions DEF BackfillInv, BackfillIsConsistent
<1>3. QED
  BY <1>2, BackfillInvariance, PTL
=============================================================================
