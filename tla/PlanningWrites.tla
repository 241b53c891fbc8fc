---------------------------- MODULE PlanningWrites ----------------------------
(***************************************************************************)
(* Concurrent writes of task graphs, tasks and runs: POST                  *)
(* /api/task-graphs, /api/tasks/bulk and /api/runs.                        *)
(*                                                                         *)
(* A request is one READ COMMITTED transaction that checks, looks up the   *)
(* rows it means, and upserts them, statement by statement.  Between a     *)
(* lookup and the upsert another transaction may commit the same identity, *)
(* and then the unique indexes decide.  All three tables have one row      *)
(* shape: the canonical id, the source key <<iteration, source id>>, unique *)
(* too, and a body (the hash of a graph, the graph and dependencies of a   *)
(* task, the task of a run).  There is one project, and nothing is deleted. *)
(***************************************************************************)
EXTENDS Integers, Sequences, FiniteSets

CONSTANTS
    Savers,        \* concurrent requests, one transaction each
    Graphs,        \* rows a client may ask to save as a task graph
    Batches,       \* sequences of rows a client may ask to save as tasks
    Runs,          \* rows a client may ask to save as a run
    StoredGraphs,  \* what is stored at first
    StoredTasks,
    MaxSaves       \* bound on the number of requests

VARIABLES
    stored,    \* committed rows, per table
    written,   \* rows each open transaction has written to its table
    statement, \* next statement of each client's transaction
    table,     \* table the client's last request is about
    asked,     \* rows it asked to save
    todo,      \* rows left to look up
    ready,     \* rows looked up and left to write
    result,    \* ids the answer lists
    reply,     \* how the request ended
    known,     \* history: the runs stored without a break since the request began
    requests   \* requests so far, at most MaxSaves

BatchRows == UNION {{batch[i] : i \in DOMAIN batch} : batch \in Batches}

Keyed(rows) == \A a, b \in rows : a.id = b.id \/ a.key = b.key => a = b

\* An empty batch of tasks writes nothing and is left out.
ASSUME PlanningAssumption ==
    /\ \A row \in Graphs \cup BatchRows \cup Runs \cup StoredGraphs \cup StoredTasks :
          row = [id |-> row.id, key |-> row.key, body |-> row.body]
    /\ Batches \subseteq Seq(BatchRows) \ {<<>>}
    /\ Keyed(StoredGraphs) /\ Keyed(StoredTasks)

local == <<statement, table, asked, todo, ready, result, reply, known>>
saveVars == <<stored, written, local, requests>>

Tables == {"graph", "task", "run"}
Statements == {"idle", "checking", "resolving", "writing", "committing"}
Answers == {"none", "ok", "invalid", "conflict", "deadlock", "interrupted"}

Iteration(row) == row.key[1]
Elements(s) == {s[i] : i \in DOMAIN s}
Ids(rows) == {row.id : row \in rows}

SavesInit ==
    /\ stored = [t \in Tables |-> CASE t = "graph" -> StoredGraphs
                                    [] t = "task"  -> StoredTasks
                                    [] t = "run"   -> {}]
    /\ written = [c \in Savers |-> {}]
    /\ statement = [c \in Savers |-> "idle"]
    /\ table = [c \in Savers |-> "graph"]
    /\ asked = [c \in Savers |-> <<>>]
    /\ todo = [c \in Savers |-> <<>>]
    /\ ready = [c \in Savers |-> <<>>]
    /\ result = [c \in Savers |-> <<>>]
    /\ reply = [c \in Savers |-> "none"]
    /\ known = [c \in Savers |-> {}]
    /\ requests = 0

-----------------------------------------------------------------------------
(* Transactions.                                                           *)

Replacing(rows, new) == {row \in rows : row.id \notin Ids(new)} \cup new

\* What a statement of client c sees of its table.
Visible(c) == Replacing(stored[table[c]], written[c])

BeginSave(c, t, rows) ==
    /\ statement[c] = "idle"
    /\ requests < MaxSaves
    /\ requests' = requests + 1
    /\ statement' = [statement EXCEPT ![c] = "checking"]
    /\ table' = [table EXCEPT ![c] = t]
    /\ asked' = [asked EXCEPT ![c] = rows]
    /\ todo' = [todo EXCEPT ![c] = rows]
    /\ result' = [result EXCEPT ![c] = <<>>]
    /\ reply' = [reply EXCEPT ![c] = "none"]
    /\ known' = [known EXCEPT ![c] = stored["run"]]
    /\ UNCHANGED <<stored, written, ready>>

EndSave(c, outcome) ==
    /\ written' = [written EXCEPT ![c] = {}]
    /\ statement' = [statement EXCEPT ![c] = "idle"]
    /\ todo' = [todo EXCEPT ![c] = <<>>]
    /\ ready' = [ready EXCEPT ![c] = <<>>]
    /\ reply' = [reply EXCEPT ![c] = outcome]
    /\ UNCHANGED <<table, asked, result, requests>>

\* Any exception rolls the request back.
FailSave(c, outcome) == EndSave(c, outcome) /\ UNCHANGED <<stored, known>>

CommitSave(c) ==
    /\ statement[c] = "committing"
    /\ stored' = [stored EXCEPT ![table[c]] = Replacing(@, written[c])]
    /\ known' = [d \in Savers |-> known[d] \cap stored'["run"]]
    /\ EndSave(c, "ok")

\* Client c waits for client d to end: d has an uncommitted row under the id or
\* the key c is about to write, or has taken the row under that key away.  (The
\* locks of the foreign keys delay a statement too; they change nothing else, as
\* a parent is never deleted and nobody holds one and waits for another.)
SaveWaitsFor(c, d) ==
    /\ c # d
    /\ statement[c] = "writing" /\ table[c] = table[d]
    /\ \E row \in written[d] :
          LET next == Head(ready[c])
          IN \/ row.id = next.id
             \/ row.key = next.key
             \/ \E old \in stored[table[c]] : old.id = row.id /\ old.key = next.key

SaveWaits(c) == \E d \in Savers : SaveWaitsFor(c, d)

\* The database aborts one transaction of a cycle of waits.
BreakSaveDeadlock(c) ==
    /\ \E S \in SUBSET Savers :
          /\ c \in S
          /\ \A s \in S : \E d \in S : SaveWaitsFor(s, d)
    /\ FailSave(c, "deadlock")

\* The connection or the server is lost.
InterruptSave(c) ==
    /\ statement[c] # "idle"
    /\ FailSave(c, "interrupted")

\* From the checks to the lookups of the store, with the rows to look up.
Proceed(c, rows) ==
    /\ statement' = [statement EXCEPT ![c] = "resolving"]
    /\ todo' = [todo EXCEPT ![c] = rows]
    /\ UNCHANGED <<stored, written, table, asked, ready, result, reply, known, requests>>

-----------------------------------------------------------------------------
(* Task graphs.                                                            *)

\* hasSameLogicalIdentity fails.  A row under the key and one under the id that
\* differ is the same case: keys are unique.
GraphConflict(row) ==
    \E graph \in stored["graph"] : graph.id = row.id /\ graph.key # row.key

UnderKey(rows, key) == {row \in rows : row.key = key}

\* The row with the canonical id of its key, if the key has one.
Canonical(rows, row) ==
    IF UnderKey(rows, row.key) = {}
    THEN row
    ELSE [row EXCEPT !.id = (CHOOSE r \in UnderKey(rows, row.key) : TRUE).id]

\* saveTaskGraph up to the store: a graph known with the same hash is the answer.
CheckGraph(c) ==
    /\ statement[c] = "checking" /\ table[c] = "graph"
    /\ LET row == Head(todo[c])
           canonical == Canonical(stored["graph"], row)
       IN \/ /\ GraphConflict(row)
             /\ FailSave(c, "conflict")
          \/ /\ ~GraphConflict(row)
             /\ canonical \in stored["graph"]
             /\ result' = [result EXCEPT ![c] = <<canonical.id>>]
             /\ todo' = [todo EXCEPT ![c] = <<>>]
             /\ statement' = [statement EXCEPT ![c] = "committing"]
             /\ UNCHANGED <<stored, written, table, asked, ready, reply, known, requests>>
          \/ /\ ~GraphConflict(row)
             /\ canonical \notin stored["graph"]
             /\ Proceed(c, <<canonical>>)

\* PostgresTaskGraphStoreAdapter.save looks the graph up once more.
ResolveGraph(c) ==
    /\ statement[c] = "resolving" /\ table[c] = "graph"
    /\ LET row == Head(todo[c])
       IN \/ /\ GraphConflict(row)
             /\ FailSave(c, "conflict")
          \/ /\ ~GraphConflict(row)
             /\ ready' = [ready EXCEPT ![c] = <<Canonical(stored["graph"], row)>>]
             /\ todo' = [todo EXCEPT ![c] = <<>>]
             /\ statement' = [statement EXCEPT ![c] = "writing"]
             /\ UNCHANGED <<stored, written, table, asked, result, reply, known, requests>>

-----------------------------------------------------------------------------
(* Tasks.                                                                  *)

\* What saveTasks requires of a batch, with what it reads of its graph.
BatchIsValid(batch) ==
    LET rows == Elements(batch)
        graphs == {row.body.graph : row \in rows}
        inGraph == {t \in stored["task"] : t.body.graph \in graphs}
    IN /\ Cardinality(Ids(rows)) = Len(batch)
       /\ Cardinality({row.key : row \in rows}) = Len(batch)
       /\ \A row \in rows :
             /\ \E graph \in stored["graph"] :
                   graph.id = row.body.graph /\ Iteration(graph) = Iteration(row)
             /\ row.body.deps \subseteq Ids(rows) \cup Ids(inGraph)

CheckTasks(c) ==
    /\ statement[c] = "checking" /\ table[c] = "task"
    /\ \/ BatchIsValid(todo[c]) /\ Proceed(c, todo[c])
       \/ ~BatchIsValid(todo[c]) /\ FailSave(c, "invalid")

\* saveAll looks each task up by id, then by graph and source, then by iteration
\* and source (which finds what the second finds), and takes the id it finds.
ResolveTask(c) ==
    /\ statement[c] = "resolving" /\ table[c] = "task"
    /\ LET row == Head(todo[c])
           resolved == IF row.id \in Ids(stored["task"])
                       THEN row ELSE Canonical(stored["task"], row)
       IN /\ ready' = [ready EXCEPT ![c] = Append(@, resolved)]
          /\ todo' = [todo EXCEPT ![c] = Tail(@)]
          /\ statement' = [statement EXCEPT ![c] = IF Len(todo[c]) = 1 THEN "writing" ELSE @]
    /\ UNCHANGED <<stored, written, table, asked, result, reply, known, requests>>

-----------------------------------------------------------------------------
(* Runs.                                                                   *)

\* requireTaskBelongsToIteration.
CheckRun(c) ==
    /\ statement[c] = "checking" /\ table[c] = "run"
    /\ LET row == Head(todo[c])
           belongs == \E t \in stored["task"] :
                         t.id = row.body /\ Iteration(t) = Iteration(row)
       IN \/ belongs /\ Proceed(c, todo[c])
          \/ ~belongs /\ FailSave(c, "invalid")

\* requireSameSourceScope fails, or the source id belongs to another run.
RunConflict(row) ==
    IF row.id \in Ids(stored["run"])
    THEN row \notin stored["run"]
    ELSE UnderKey(stored["run"], row.key) # {}

\* PostgresRunRecordStoreAdapter.save up to its upsert.
ResolveRun(c) ==
    /\ statement[c] = "resolving" /\ table[c] = "run"
    /\ \/ /\ RunConflict(Head(todo[c]))
          /\ FailSave(c, "conflict")
       \/ /\ ~RunConflict(Head(todo[c]))
          /\ ready' = [ready EXCEPT ![c] = todo[c]]
          /\ todo' = [todo EXCEPT ![c] = <<>>]
          /\ statement' = [statement EXCEPT ![c] = "writing"]
          /\ UNCHANGED <<stored, written, table, asked, result, reply, known, requests>>

-----------------------------------------------------------------------------
(* The upsert.                                                             *)

\* Mutant of Target: ON CONFLICT (task_graph_id).
TargetById(c, row) == {r \in Visible(c) : r.id = row.id}

\* The row that ON CONFLICT finds: graphs by their source key, the others by id.
Target(c, row) ==
    {r \in Visible(c) : IF table[c] = "graph" THEN r.key = row.key ELSE r.id = row.id}

\* INSERT ... ON CONFLICT DO UPDATE of one row: the row found keeps its id and
\* takes the rest; a clash with any other row under a unique index is an error.
WriteRow(c) ==
    /\ statement[c] = "writing"
    /\ ~SaveWaits(c)
    /\ LET row == Head(ready[c])
           old == Target(c, row)
           new == [row EXCEPT !.id = IF old = {} THEN @ ELSE (CHOOSE r \in old : TRUE).id]
           clash == \E r \in Visible(c) \ old : r.id = new.id \/ r.key = new.key
       IN \/ clash /\ FailSave(c, "conflict")
          \/ /\ ~clash
             /\ written' = [written EXCEPT ![c] = Replacing(@, {new})]
             /\ result' = [result EXCEPT ![c] = Append(@, new.id)]
             /\ ready' = [ready EXCEPT ![c] = Tail(@)]
             /\ statement' =
                   [statement EXCEPT ![c] = IF Len(ready[c]) = 1 THEN "committing" ELSE @]
             /\ UNCHANGED <<stored, table, asked, todo, reply, known, requests>>

-----------------------------------------------------------------------------
AskToSave(c) ==
    \/ \E row \in Graphs : BeginSave(c, "graph", <<row>>)
    \/ \E batch \in Batches : BeginSave(c, "task", batch)
    \/ \E row \in Runs : BeginSave(c, "run", <<row>>)

SaveStep(c) ==
    \/ CheckGraph(c) \/ CheckTasks(c) \/ CheckRun(c)
    \/ ResolveGraph(c) \/ ResolveTask(c) \/ ResolveRun(c)
    \/ WriteRow(c) \/ CommitSave(c) \/ BreakSaveDeadlock(c)

SavesNext == \E c \in Savers : AskToSave(c) \/ SaveStep(c) \/ InterruptSave(c)

SavesSpec == SavesInit /\ [][SavesNext]_saveVars

\* Statements end, and the database breaks deadlocks.
FairSavesSpec == SavesSpec /\ \A c \in Savers : WF_saveVars(SaveStep(c))

-----------------------------------------------------------------------------
(* Properties.                                                             *)

Given(t) ==
    CASE t = "graph" -> Graphs \cup StoredGraphs
      [] t = "task"  -> BatchRows \cup StoredTasks
      [] t = "run"   -> Runs

\* Rows a table may hold: what was asked for, under an id that was asked for.
TableRows(t) ==
    {[id |-> id, key |-> row.key, body |-> row.body] : row \in Given(t), id \in Ids(Given(t))}

\* Ids and source keys are unique in every table, and will be for what each open
\* transaction has written; rows, pending rows and statements have their types, and
\* every row still pending or written is one the client asked for.
RowsAreKeyed ==
    /\ \A t \in Tables : stored[t] \subseteq TableRows(t) /\ Keyed(stored[t])
    /\ \A c \in Savers :
          /\ statement[c] \in Statements /\ table[c] \in Tables /\ reply[c] \in Answers
          /\ written[c] \subseteq TableRows(table[c]) /\ Keyed(Visible(c))
          /\ ready[c] \in Seq(TableRows(table[c]))
          /\ statement[c] \in {"resolving", "writing"} =>
                Len(todo[c]) + Len(ready[c]) + Len(result[c]) = Len(asked[c])

\* A graph that is stored keeps its canonical id and its source identity for
\* ever, whoever saves it again under whatever id, and a client that is answered
\* gets the id its graph is stored under.
GraphsAreCanonical ==
    [][/\ \A graph \in stored["graph"] :
             \E later \in stored'["graph"] : later.id = graph.id /\ later.key = graph.key
       /\ \A c \in Savers :
             table[c] = "graph" /\ reply[c] = "none" /\ reply'[c] = "ok" =>
                \E graph \in stored'["graph"] :
                   result'[c] = <<graph.id>> /\ graph.key = Head(asked[c]).key]_saveVars

\* A request cannot move a run, its iteration, source id and task, that has been
\* stored ever since the request began.  (It can when it overlaps the first writes of
\* others: its upsert finds the id, whatever was stored under it before, and
\* overwrites the scope.)
LateRunsKeepIdentity ==
    [][\A run \in stored["run"] : \E later \in stored'["run"] :
          /\ later.id = run.id
          /\ \/ later = run
             \/ \E c \in Savers : later \in written[c] /\ run \notin known[c]]_saveVars

\* Rows stay unique, and neither a graph nor a run changes what it is.
IdentitiesLast == []RowsAreKeyed /\ GraphsAreCanonical /\ LateRunsKeepIdentity

\* Every request is answered, though batches that write the same tasks in
\* different orders wait for each other.
EveryWriteEnds == \A c \in Savers : statement[c] # "idle" ~> statement[c] = "idle"

\* What save tasks rejects dependency ids outside the task graph promises: a task
\* depends on tasks of its own graph.
DependenciesStayInGraph ==
    \A t \in stored["task"] : \A dependency \in t.body.deps :
        \E other \in stored["task"] :
            other.id = dependency /\ other.body.graph = t.body.graph
=============================================================================
