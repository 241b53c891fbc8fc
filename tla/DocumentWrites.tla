---------------------------- MODULE DocumentWrites ----------------------------
(***************************************************************************)
(* Concurrent writes of document snapshots and their chunks: the requests  *)
(* POST /api/documents/snapshots, with and without paragraph-2000          *)
(* chunking, and POST /api/documents/{id}/chunks.                          *)
(*                                                                         *)
(* Every request is one READ COMMITTED transaction.  Its statements are    *)
(* the steps; what it inserts stays its own until it commits, and another  *)
(* transaction's insert waits for it where a unique index says so.  The    *)
(* module looks at one logical scope (project, iteration, artifact type    *)
(* and source path): snapshots of two scopes never share a version or a    *)
(* logical hash.  A content stands for its hash.                           *)
(***************************************************************************)
EXTENDS Integers, FiniteSets

CONSTANTS
    Clients,        \* concurrent requests, one transaction each
    Contents,       \* contents of the document over time
    DocIds,         \* canonical document ids a client may choose
    Split,          \* Split[content]: its paragraph-2000 chunk hashes, in order
    Batches,        \* bodies of explicit chunk writes: sequences of chunks
    LegacyDocs,     \* snapshots, and chunks without a job, from before the
    LegacyChunks,   \* embedding queue was introduced
    MaxRequests     \* bound on the number of requests

VARIABLES
    documents,   \* committed rows of documents
    chunks,      \* committed rows of document_chunks
    jobs,        \* ids of the chunks that have a committed embedding job
    newDocs,     \* rows each open transaction has inserted
    newChunks,
    newJobs,
    stage,       \* next statement of each client's transaction
    request,     \* what the client asked for, last
    version,     \* snapshot_version computed by the INSERT in progress
    document,    \* id of the snapshot the transaction works on
    todo,        \* positions in Wanted left in the loop in progress
    saved,       \* chunk rows the answer will list
    reply,       \* how the client's last request ended
    requests     \* requests so far, at most MaxRequests

committed == <<documents, chunks, jobs>>
own == <<newDocs, newChunks, newJobs>>
local == <<stage, request, version, document, todo, saved, reply>>
writeVars == <<committed, own, local, requests>>

Stages == {"idle", "finding", "inserting", "reading", "adding",
           "enqueuing", "committing"}

Replies == {"none", "ok", "rejected", "not_found", "duplicate_id",
            "duplicate_version", "duplicate_index", "deadlock", "interrupted"}

Largest(S) == CHOOSE n \in S : \A m \in S : m <= n
Least(S)   == CHOOSE n \in S : \A m \in S : n <= m

DocRows == [id : DocIds, hash : Contents, version : Nat \ {0}]

IdsOf(S) == {row.id : row \in S}

\* uq_documents_logical_snapshot_version and _hash, and the primary key.
OneOfEach(docs) ==
    /\ {row.version : row \in docs} = 1..Cardinality(docs)
    /\ \A a, b \in docs : (a.hash = b.hash \/ a.id = b.id) => a = b

\* Two rows under one of the unique keys of document_chunks.
SameKey(a, b) ==
    \/ a.id = b.id
    \/ a.doc = b.doc /\ (a.hash = b.hash \/ a.index = b.index)

\* The keys hold of what was stored before, and positions are numbers.
ASSUME WritesAssumption ==
    /\ IsFiniteSet(LegacyDocs) /\ LegacyDocs \subseteq DocRows /\ OneOfEach(LegacyDocs)
    /\ \A a, b \in LegacyChunks : SameKey(a, b) => a = b
    /\ \A row \in LegacyChunks : row.doc \in IdsOf(LegacyDocs)
    /\ \A content \in Contents : DOMAIN Split[content] \subseteq Nat
    /\ \A batch \in Batches : DOMAIN batch \subseteq Nat
    /\ MaxRequests \in Nat

\* paragraph2000DocumentChunker: ids and hashes follow from the document, the
\* position and the text, so writing the same snapshot again makes the same.
StableId(doc, hash) == <<doc, hash>>

Generated(doc, content) ==
    [i \in DOMAIN Split[content] |->
        [id |-> StableId(doc, Split[content][i]), hash |-> Split[content][i],
         index |-> i]]

Request(kind, content, id, batch) ==
    [kind |-> kind, content |-> content, id |-> id, batch |-> batch]

Row(doc, c) == [id |-> c.id, doc |-> doc, hash |-> c.hash, index |-> c.index]

\* What a statement of client c sees: committed rows and its own.
Docs(c) == documents \cup newDocs[c]
ChunksOf(c, doc) == {row \in chunks \cup newChunks[c] : row.doc = doc}

\* The chunks the request asks to store.
Wanted(c) ==
    IF request[c].kind = "chunks" THEN request[c].batch
                                  ELSE Generated(document[c], request[c].content)

\* The one the loop in progress has come to, and what is left after it.
NextChunk(c) == Wanted(c)[Least(todo[c])]
Rest(c)      == todo[c] \ {Least(todo[c])}

WritesInit ==
    /\ documents = LegacyDocs
    /\ chunks = LegacyChunks
    /\ jobs = {}
    /\ newDocs = [c \in Clients |-> {}]
    /\ newChunks = [c \in Clients |-> {}]
    /\ newJobs = [c \in Clients |-> {}]
    /\ stage = [c \in Clients |-> "idle"]
    /\ request = [c \in Clients |-> Request("none", "none", "none", <<>>)]
    /\ version = [c \in Clients |-> 0]
    /\ document = [c \in Clients |-> "none"]
    /\ todo = [c \in Clients |-> {}]
    /\ saved = [c \in Clients |-> {}]
    /\ reply = [c \in Clients |-> "none"]
    /\ requests = 0

-----------------------------------------------------------------------------
(* Ends of a transaction.                                                  *)

\* The transaction is over: its rows are released, its memory is gone.
EndRequest(c, outcome) ==
    /\ newDocs' = [newDocs EXCEPT ![c] = {}]
    /\ newChunks' = [newChunks EXCEPT ![c] = {}]
    /\ newJobs' = [newJobs EXCEPT ![c] = {}]
    /\ stage' = [stage EXCEPT ![c] = "idle"]
    /\ version' = [version EXCEPT ![c] = 0]
    /\ document' = [document EXCEPT ![c] = "none"]
    /\ todo' = [todo EXCEPT ![c] = {}]
    /\ saved' = [saved EXCEPT ![c] = {}]
    /\ reply' = [reply EXCEPT ![c] = outcome]
    /\ UNCHANGED <<request, requests>>

\* Any exception rolls the whole request back.
RollBack(c, outcome) == EndRequest(c, outcome) /\ UNCHANGED committed

CommitRequest(c) ==
    /\ stage[c] = "committing"
    /\ documents' = documents \cup newDocs[c]
    /\ chunks' = chunks \cup newChunks[c]
    /\ jobs' = jobs \cup newJobs[c]
    /\ EndRequest(c, "ok")

-----------------------------------------------------------------------------
(* Waiting.  A transaction that is about to insert waits for another one   *)
(* that holds an uncommitted row under one of the same unique keys.        *)

ClashingDoc(c, row) ==
    \/ row.hash = request[c].content
    \/ row.id = request[c].id
    \/ row.version = version[c]

\* Mutant of ClashingChunk: the index of a chunk is not unique.
ClashingHashOrId(c, row) ==
    LET next == NextChunk(c)
    IN row.id = next.id \/ (row.doc = document[c] /\ row.hash = next.hash)

ClashingChunk(c, row) ==
    LET next == NextChunk(c)
    IN \/ row.id = next.id
       \/ row.doc = document[c] /\ row.hash = next.hash
       \/ row.doc = document[c] /\ row.index = next.index

\* The row of the chunk the loop has come to: stored, or listed for the answer.
Stored(c) == {row \in ChunksOf(c, document[c]) : row.hash = NextChunk(c).hash}
Listed(c) == CHOOSE row \in saved[c] : row.hash = NextChunk(c).hash

\* Client c waits for client d.
WaitsFor(c, d) ==
    /\ c # d
    /\ \/ /\ stage[c] = "inserting"
          /\ \E row \in newDocs[d] : ClashingDoc(c, row)
       \/ /\ stage[c] = "adding" /\ todo[c] # {}
          /\ Stored(c) = {}
          /\ \E row \in newChunks[d] : ClashingChunk(c, row)
       \/ /\ stage[c] = "enqueuing" /\ todo[c] # {}
          /\ Listed(c).id \in newJobs[d]

Waits(c) == \E d \in Clients : WaitsFor(c, d)

\* The database aborts one transaction of a cycle of waits.
BreakDeadlock(c) ==
    /\ \E S \in SUBSET Clients :
          /\ c \in S
          /\ \A s \in S : \E d \in S : WaitsFor(s, d)
    /\ RollBack(c, "deadlock")

\* The connection or the server is lost.
Interrupt(c) ==
    /\ stage[c] # "idle"
    /\ RollBack(c, "interrupted")

-----------------------------------------------------------------------------
(* Snapshots.                                                              *)

Begin(c, r, first, doc) ==
    /\ stage[c] = "idle"
    /\ requests < MaxRequests
    /\ requests' = requests + 1
    /\ stage' = [stage EXCEPT ![c] = first]
    /\ request' = [request EXCEPT ![c] = r]
    /\ document' = [document EXCEPT ![c] = doc]
    /\ reply' = [reply EXCEPT ![c] = "none"]
    /\ UNCHANGED <<committed, own, version, todo, saved>>

SaveDocumentSnapshot(c, kind, content, id) ==
    Begin(c, Request(kind, content, id, <<>>), "finding", "none")

\* What follows saveDocumentSnapshotInternal.
AfterSnapshot(c) == IF request[c].kind = "chunked" THEN "reading" ELSE "committing"

\* The lookups of the use case and of the store, then the INSERT's own
\* MAX(snapshot_version) + 1 over what is committed.  One step: a row that
\* appears in between is met again by the INSERT.
FindSnapshot(c) ==
    /\ stage[c] = "finding"
    /\ LET known == {row \in documents : row.hash = request[c].content}
       IN IF known = {}
          THEN /\ version' = [version EXCEPT ![c] =
                     1 + Largest({0} \cup {row.version : row \in documents})]
               /\ stage' = [stage EXCEPT ![c] = "inserting"]
               /\ UNCHANGED document
          ELSE /\ \E row \in known : document' = [document EXCEPT ![c] = row.id]
               /\ stage' = [stage EXCEPT ![c] = AfterSnapshot(c)]
               /\ UNCHANGED version
    /\ UNCHANGED <<committed, own, request, todo, saved, reply, requests>>

\* ON CONFLICT ON CONSTRAINT uq_documents_logical_snapshot_hash returns the row
\* that is there; the other unique indexes refuse.
InsertSnapshot(c) ==
    /\ stage[c] = "inserting"
    /\ ~Waits(c)
    /\ LET row == [id |-> request[c].id, hash |-> request[c].content,
                   version |-> version[c]]
           known == {d \in documents : d.hash = row.hash}
       IN \/ /\ known # {}
             /\ \E d \in known : document' = [document EXCEPT ![c] = d.id]
             /\ stage' = [stage EXCEPT ![c] = AfterSnapshot(c)]
             /\ UNCHANGED <<committed, own, request, version, todo, saved,
                            reply, requests>>
          \/ /\ known = {}
             /\ \E d \in documents : d.id = row.id
             /\ RollBack(c, "duplicate_id")
          \/ /\ known = {}
             /\ \A d \in documents : d.id # row.id
             /\ \E d \in documents : d.version = row.version
             /\ RollBack(c, "duplicate_version")
          \/ /\ known = {}
             /\ \A d \in documents : d.id # row.id /\ d.version # row.version
             /\ newDocs' = [newDocs EXCEPT ![c] = {row}]
             /\ document' = [document EXCEPT ![c] = row.id]
             /\ stage' = [stage EXCEPT ![c] = AfterSnapshot(c)]
             /\ UNCHANGED <<committed, newChunks, newJobs, request, version,
                            todo, saved, reply, requests>>

-----------------------------------------------------------------------------
(* Chunks.                                                                 *)

\* POST /api/documents/{documentId}/chunks, for a document that exists.
SaveDocumentChunks(c, doc, batch) ==
    /\ \E row \in documents : row.id = doc
    /\ Begin(c, Request("chunks", "none", doc, batch), "reading", doc)

\* Existing chunks are read once; the ones not among them, by hash, are to be
\* stored.  A chunk id that names another chunk is refused.
ReadChunks(c) ==
    /\ stage[c] = "reading"
    /\ LET existing == ChunksOf(c, document[c])
       IN IF \E i \in DOMAIN Wanted(c), row \in existing :
                /\ row.id = Wanted(c)[i].id
                /\ row.hash # Wanted(c)[i].hash
          THEN RollBack(c, "rejected")
          ELSE /\ todo' = [todo EXCEPT ![c] =
                     {i \in DOMAIN Wanted(c) :
                         \A row \in existing : row.hash # Wanted(c)[i].hash}]
               /\ saved' = [saved EXCEPT ![c] =
                     {row \in existing : \E i \in DOMAIN Wanted(c) :
                                            row.hash = Wanted(c)[i].hash}]
               /\ stage' = [stage EXCEPT ![c] = "adding"]
               /\ UNCHANGED <<committed, own, request, version, document,
                              reply, requests>>

\* saveAll, chunk by chunk: the probe by hash and by id, then INSERT ... ON
\* CONFLICT (document_id, chunk_hash) DO NOTHING, then the row under the hash.
\* A row under the same hash and another id is returned, and not recognised.
AddChunk(c) ==
    /\ stage[c] = "adding" /\ todo[c] # {}
    /\ ~Waits(c)
    /\ LET next == NextChunk(c)
           row == Row(document[c], next)
           known == Stored(c)
           seen == chunks \cup newChunks[c]
       IN \/ /\ known # {}
             /\ saved' = [saved EXCEPT ![c] = @ \cup {r \in known : r.id = next.id}]
             /\ todo' = [todo EXCEPT ![c] = Rest(c)]
             /\ UNCHANGED <<committed, own, stage, request, version, document,
                            reply, requests>>
          \/ /\ known = {}
             /\ \E r \in seen : r.id = row.id
             /\ RollBack(c, "duplicate_id")
          \/ /\ known = {}
             /\ \A r \in seen : r.id # row.id
             /\ \E r \in seen : r.doc = row.doc /\ r.index = row.index
             /\ RollBack(c, "duplicate_index")
          \/ /\ known = {}
             /\ \A r \in seen :
                   r.id # row.id /\ ~(r.doc = row.doc /\ r.index = row.index)
             /\ newChunks' = [newChunks EXCEPT ![c] = @ \cup {row}]
             /\ saved' = [saved EXCEPT ![c] = @ \cup {row}]
             /\ todo' = [todo EXCEPT ![c] = Rest(c)]
             /\ UNCHANGED <<committed, newDocs, newJobs, stage, request, version,
                            document, reply, requests>>

\* Every wanted chunk is looked up among the existing ones, by hash, or among
\* the newly saved ones, by id; first { } throws NoSuchElementException.
MatchSaved(c) ==
    /\ stage[c] = "adding" /\ todo[c] = {}
    /\ IF \E i \in DOMAIN Wanted(c) : \A row \in saved[c] : row.hash # Wanted(c)[i].hash
       THEN RollBack(c, "not_found")
       ELSE /\ todo' = [todo EXCEPT ![c] = DOMAIN Wanted(c)]
            /\ stage' = [stage EXCEPT ![c] = "enqueuing"]
            /\ UNCHANGED <<committed, own, request, version, document, saved,
                           reply, requests>>

\* Mutant of EnqueueJob: the last chunk gets none.
EnqueueAllButLast(c) ==
    /\ stage[c] = "enqueuing"
    /\ ~Waits(c)
    /\ IF Cardinality(todo[c]) <= 1
       THEN /\ stage' = [stage EXCEPT ![c] = "committing"]
            /\ UNCHANGED <<newJobs, todo>>
       ELSE /\ newJobs' = [newJobs EXCEPT ![c] = @ \cup {Listed(c).id}]
            /\ todo' = [todo EXCEPT ![c] = Rest(c)]
            /\ UNCHANGED stage
    /\ UNCHANGED <<committed, newDocs, newChunks, request, version, document,
                   saved, reply, requests>>

\* Mutant of EnqueueJob: goes on until it is the one that inserts the job.
EnqueueUntilInserted(c) ==
    /\ stage[c] = "enqueuing"
    /\ ~Waits(c)
    /\ IF todo[c] = {}
       THEN /\ stage' = [stage EXCEPT ![c] = "committing"]
            /\ UNCHANGED <<newJobs, todo>>
       ELSE /\ Listed(c).id \notin jobs
            /\ newJobs' = [newJobs EXCEPT ![c] = @ \cup {Listed(c).id}]
            /\ todo' = [todo EXCEPT ![c] = Rest(c)]
            /\ UNCHANGED stage
    /\ UNCHANGED <<committed, newDocs, newChunks, request, version, document,
                   saved, reply, requests>>

\* enqueueMissing for every saved chunk, found or inserted: INSERT ... ON
\* CONFLICT (chunk_id, embedding_set_id) DO NOTHING.
EnqueueJob(c) ==
    /\ stage[c] = "enqueuing"
    /\ ~Waits(c)
    /\ IF todo[c] = {}
       THEN /\ stage' = [stage EXCEPT ![c] = "committing"]
            /\ UNCHANGED <<newJobs, todo>>
       ELSE /\ newJobs' = [newJobs EXCEPT ![c] =
                  IF Listed(c).id \in jobs THEN @ ELSE @ \cup {Listed(c).id}]
            /\ todo' = [todo EXCEPT ![c] = Rest(c)]
            /\ UNCHANGED stage
    /\ UNCHANGED <<committed, newDocs, newChunks, request, version, document,
                   saved, reply, requests>>

-----------------------------------------------------------------------------
Advance(c) ==
    \/ FindSnapshot(c) \/ InsertSnapshot(c)
    \/ ReadChunks(c) \/ AddChunk(c) \/ MatchSaved(c) \/ EnqueueJob(c)
    \/ CommitRequest(c) \/ BreakDeadlock(c)

Send(c) ==
    \/ \E kind \in {"snapshot", "chunked"}, content \in Contents, id \in DocIds :
          SaveDocumentSnapshot(c, kind, content, id)
    \/ \E doc \in DocIds, batch \in Batches : SaveDocumentChunks(c, doc, batch)

WritesNext == \E c \in Clients : Advance(c) \/ Send(c) \/ Interrupt(c)

WritesSpec == WritesInit /\ [][WritesNext]_writeVars

\* Statements end, and the database breaks deadlocks.
FairWritesSpec == WritesSpec /\ \A c \in Clients : WF_writeVars(Advance(c))

-----------------------------------------------------------------------------
(* Properties.                                                             *)

RowsAreTyped ==
    /\ \A row \in documents : row \in DocRows
    /\ \A c \in Clients :
          /\ newDocs[c] \subseteq DocRows
          /\ stage[c] \in Stages
          /\ reply[c] \in Replies
          /\ IdsOf(newDocs[c]) \subseteq {document[c]}
          /\ newChunks[c] \subseteq saved[c]
    /\ requests \in 0..MaxRequests

\* The versions of a document are 1, 2, ..., n, one for each content it has
\* had, however many clients write at once and whichever of them fail: two
\* transactions may compute the same MAX + 1, but only one of them commits it.
VersionsAreDense == OneOfEach(documents)

\* The three unique keys of document_chunks, and its two foreign keys to what
\* is committed with it; a chunk committed by a request is committed with its job,
\* so only chunks older than the queue may lack one.
ChunksAreConsistent ==
    /\ \A a, b \in chunks : SameKey(a, b) => a = b
    /\ \A row \in chunks : row.doc \in IdsOf(documents)
    /\ IdsOf(chunks \ LegacyChunks) \subseteq jobs /\ jobs \subseteq IdsOf(chunks)

\* A request that was answered with success has stored everything it lists: the
\* snapshot under the canonical id of its content, all of the chunks under that
\* id, and a job for each, the chunks that were there before it included.
AnsweredMeansStored ==
    \A c \in Clients : reply[c] = "ok" =>
        \E doc \in documents :
            /\ IF request[c].kind = "chunks" THEN doc.id = request[c].id
                                             ELSE doc.hash = request[c].content
            /\ request[c].kind # "snapshot" =>
                  LET wanted == IF request[c].kind = "chunks" THEN request[c].batch
                                ELSE Generated(doc.id, request[c].content)
                  IN \A i \in DOMAIN wanted : \E row \in chunks :
                        /\ row.doc = doc.id
                        /\ row.hash = wanted[i].hash
                        /\ row.id \in jobs

\* Rows, versions, chunks, jobs and answers fit together at every moment.
DocumentsAreConsistent ==
    RowsAreTyped /\ VersionsAreDense /\ ChunksAreConsistent /\ AnsweredMeansStored

\* Overtaken, refused, interrupted or broken out of a deadlock, requests add up
\* to a history of snapshots that is only appended to, each request at once or
\* not at all, with its chunks and their jobs (DocumentHistory).
ById(id) == CHOOSE row \in documents : row.id = id

History == INSTANCE DocumentHistory WITH
    Hashes  <- UNION {{batch[i].hash : i \in DOMAIN batch} : batch \in Batches},
    Before  <- [v \in 1..Cardinality(LegacyDocs) |->
                  (CHOOSE row \in LegacyDocs : row.version = v).hash],
    history <- [v \in 1..Cardinality(documents) |->
                  (CHOOSE row \in documents : row.version = v).hash],
    queued  <- [content \in Contents |->
                  {row.hash : row \in {chunk \in chunks :
                      chunk.id \in jobs /\ ById(chunk.doc).hash = content}}]

ImplementsHistory == History!Spec

\* Every request is answered: waits end, deadlocks between batches that store
\* the same chunks in different orders are broken.
EveryRequestIsAnswered == \A c \in Clients : stage[c] # "idle" ~> stage[c] = "idle"

\* README: a chunk with a documentId and chunkHash that were saved before is
\* answered with the existing chunk.
RepeatedChunkIsReturned == \A c \in Clients : reply[c] # "not_found"
=============================================================================
