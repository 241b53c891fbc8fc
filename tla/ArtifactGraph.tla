---------------------------- MODULE ArtifactGraph ----------------------------
(***************************************************************************)
(* The artifact lineage graph: requests that replace the snapshot of one   *)
(* scope (an iteration, or the project itself), and traces that read it.   *)
(*                                                                         *)
(* A replacing transaction is one DELETE, one INSERT per node and one per  *)
(* edge, under READ COMMITTED: the DELETE sees the rows committed when it  *)
(* starts, waits for a row that another transaction is deleting, and skips *)
(* it if that transaction commits.  An INSERT waits for another's row      *)
(* under the same key, its deletion included.  A trace is three statements *)
(* that may each see another state.  Edges can clash with nothing, as      *)
(* their nodes are new and edge ids are taken to be fresh, so they appear  *)
(* with the commit.  Documents, tasks and runs named by nodes are left out.*)
(***************************************************************************)
EXTENDS GraphTrace, FiniteSets

CONSTANTS
    Replacers,     \* concurrent replacing requests
    Readers,       \* concurrent traces
    Scopes,        \* iterations, and the project as a scope of its own
    Bodies,        \* snapshots clients may send: scope, nodes in order, edges
    Queries,       \* traces readers may ask for
    Anywhere,      \* a query without iterationId
    MaxReplacements  \* bound on replacing requests

ASSUME GraphAssumption ==
    /\ MaxReplacements \in Nat
    /\ \A body \in Bodies : body.scope \in Scopes /\ body.nodes \in Seq(ToSet(body.nodes))
    /\ Queries # {} /\ \A query \in Queries : query.maxDepth \in Nat

VARIABLES
    nodes,       \* committed artifact_nodes, each with the request that wrote it
    edges,       \* committed artifact_edges
    submitted,   \* every request, in the order of their first statements
    phase,       \* next statement of each client
    current,     \* index in submitted of each client's request
    seen,        \* rows the client's DELETE is to delete, or has deleted
    newNodes,    \* nodes each open transaction has inserted
    overlapped,  \* did another request of the scope run beside this one?
    ended,       \* how each client's last request ended
    trace        \* each reader: its statement, query, findings and answer

replacing == <<submitted, phase, current, seen, newNodes, overlapped, ended>>

graphVars == <<nodes, edges, replacing, trace>>

IdsOf(rows) == {row.id : row \in rows}

\* Mutant of InScope: "iteration_id = NULL OR ..." takes the whole project.
WholeProject(scope) == nodes

InScope(scope) == {row \in nodes : row.scope = scope}

Body(c) == submitted[current[c]]

\* saveArtifactGraphSnapshot refuses these before it writes.
ValidSnapshot(body) ==
    LET rows == ToSet(body.nodes)
    IN /\ Cardinality({row.key : row \in rows}) = Len(body.nodes)
       /\ Cardinality(IdsOf(rows)) = Len(body.nodes)
       /\ \A e \in body.edges : e.from # e.to /\ {e.from, e.to} \subseteq IdsOf(rows)

SnapshotRows(body, index) ==
    {[id |-> row.id, key |-> row.key, scope |-> body.scope, snapshot |-> index] :
        row \in ToSet(body.nodes)}

NextRow(c) ==
    LET row == Body(c).nodes[Cardinality(newNodes[c]) + 1]
    IN [id |-> row.id, key |-> row.key, scope |-> Body(c).scope, snapshot |-> current[c]]

\* Primary key and uq_artifact_nodes_scope_natural_key.
Clash(a, b) == a.id = b.id \/ (a.scope = b.scope /\ a.key = b.key)

Deleted(c) == IF phase[c] = "inserting" THEN seen[c] ELSE {}

NoTrace == [at |-> "idle", query |-> CHOOSE query \in Queries : TRUE,
            root |-> {}, nodes |-> {}, edges |-> {}, truncated |-> FALSE,
            fresh |-> FALSE, outcome |-> "none"]

GraphInit ==
    /\ nodes = {} /\ edges = {} /\ submitted = <<>>
    /\ phase = [c \in Replacers |-> "idle"]
    /\ current = [c \in Replacers |-> 0]
    /\ seen = [c \in Replacers |-> {}]
    /\ newNodes = [c \in Replacers |-> {}]
    /\ overlapped = [c \in Replacers |-> FALSE]
    /\ ended = [c \in Replacers |-> "none"]
    /\ trace = [r \in Readers |-> NoTrace]

-----------------------------------------------------------------------------
(* Replacing a snapshot.                                                   *)

\* The transaction is over; what it had not committed is gone.
EndReplacement(c, outcome) ==
    /\ phase' = [phase EXCEPT ![c] = "idle"]
    /\ seen' = [seen EXCEPT ![c] = {}]
    /\ newNodes' = [newNodes EXCEPT ![c] = {}]
    /\ ended' = [ended EXCEPT ![c] = outcome]
    /\ UNCHANGED <<submitted, current, overlapped>>

Rivals(c, scope) == {d \in Replacers \ {c} : phase[d] # "idle" /\ Body(d).scope = scope}

\* The request passes validation and its DELETE starts.
AskToReplace(c, body) ==
    /\ phase[c] = "idle"
    /\ Len(submitted) < MaxReplacements
    /\ submitted' = Append(submitted, body)
    /\ current' = [current EXCEPT ![c] = Len(submitted')]
    /\ IF ValidSnapshot(body)
       THEN /\ phase' = [phase EXCEPT ![c] = "deleting"]
            /\ seen' = [seen EXCEPT ![c] = InScope(body.scope)]
            /\ ended' = [ended EXCEPT ![c] = "none"]
            /\ overlapped' = [d \in Replacers |->
                  IF d = c THEN Rivals(c, body.scope) # {}
                           ELSE overlapped[d] \/ d \in Rivals(c, body.scope)]
       ELSE /\ ended' = [ended EXCEPT ![c] = "invalid"]
            /\ UNCHANGED <<phase, seen, overlapped>>
    /\ UNCHANGED <<nodes, edges, newNodes, trace>>

\* Mutant of DeleteScope: the server waits until no other replacement of the
\* scope runs, unknown to the database.
DeleteWhenAlone(c) ==
    /\ phase[c] = "deleting"
    /\ \A d \in Replacers \ {c} : phase[d] = "idle"
    /\ seen' = [seen EXCEPT ![c] = @ \cap nodes]
    /\ phase' = [phase EXCEPT ![c] = "inserting"]
    /\ UNCHANGED <<nodes, edges, submitted, current, newNodes, overlapped, ended, trace>>

\* DELETE: waits for rows that others are deleting; those then gone are skipped,
\* and what the others inserted is not seen.
DeleteScope(c) ==
    /\ phase[c] = "deleting"
    /\ \A d \in Replacers \ {c} : Deleted(d) \cap seen[c] = {}
    /\ seen' = [seen EXCEPT ![c] = @ \cap nodes]
    /\ phase' = [phase EXCEPT ![c] = "inserting"]
    /\ UNCHANGED <<nodes, edges, submitted, current, newNodes, overlapped, ended, trace>>

\* The inserts must wait for d's transaction to end.
InsertWaitsFor(c, d) ==
    /\ phase[c] = "inserting"
    /\ Cardinality(newNodes[c]) < Len(Body(c).nodes)
    /\ \E row \in newNodes[d] \cup (Deleted(d) \cap nodes) : Clash(NextRow(c), row)

\* Mutant of InsertNode: no key is checked.
InsertUnchecked(c) ==
    /\ phase[c] = "inserting"
    /\ Cardinality(newNodes[c]) < Len(Body(c).nodes)
    /\ newNodes' = [newNodes EXCEPT ![c] = @ \cup {NextRow(c)}]
    /\ UNCHANGED <<nodes, edges, submitted, phase, current, seen, overlapped, ended, trace>>

\* INSERT INTO artifact_nodes: a row somebody committed refuses it.
InsertNode(c) ==
    /\ phase[c] = "inserting"
    /\ Cardinality(newNodes[c]) < Len(Body(c).nodes)
    /\ \A d \in Replacers \ {c} : ~InsertWaitsFor(c, d)
    /\ \/ /\ \E row \in nodes \ seen[c] : Clash(NextRow(c), row)
          /\ EndReplacement(c, "constraint")
       \/ /\ \A row \in nodes \ seen[c] : ~Clash(NextRow(c), row)
          /\ newNodes' = [newNodes EXCEPT ![c] = @ \cup {NextRow(c)}]
          /\ UNCHANGED <<submitted, phase, current, seen, overlapped, ended>>
    /\ UNCHANGED <<nodes, edges, trace>>

\* The edges are inserted and the transaction commits.  Edges of deleted nodes
\* go with them (ON DELETE CASCADE).
CommitReplacement(c) ==
    /\ phase[c] = "inserting"
    /\ Cardinality(newNodes[c]) = Len(Body(c).nodes)
    /\ nodes' = (nodes \ seen[c]) \cup newNodes[c]
    /\ edges' = {e \in edges : e.from \notin IdsOf(seen[c]) /\ e.to \notin IdsOf(seen[c])}
                \cup Body(c).edges
    /\ EndReplacement(c, "ok")
    /\ trace' = [r \in Readers |-> [trace[r] EXCEPT !.fresh = FALSE]]

ReplacementWaitsFor(c, d) ==
    /\ c # d
    /\ \/ phase[c] = "deleting" /\ Deleted(d) \cap seen[c] # {}
       \/ InsertWaitsFor(c, d)

\* The database aborts one transaction of a cycle of waits.
BreakReplacementDeadlock(c) ==
    /\ \E S \in SUBSET Replacers :
          c \in S /\ \A s \in S : \E d \in S : ReplacementWaitsFor(s, d)
    /\ EndReplacement(c, "deadlock")
    /\ UNCHANGED <<nodes, edges, trace>>

\* The connection or the server is lost.
InterruptReplacement(c) ==
    /\ phase[c] # "idle"
    /\ EndReplacement(c, "interrupted")
    /\ UNCHANGED <<nodes, edges, trace>>

-----------------------------------------------------------------------------
(* Tracing.                                                                *)

\* resolveRoot: LIMIT 2, and two rows are ambiguous.
ResolveRoot(r, query) ==
    LET roots == {row \in nodes : /\ row.key = query.key
                                  /\ query.scope \in {Anywhere, row.scope}}
    IN /\ trace[r].at = "idle"
       /\ trace' = [trace EXCEPT ![r] =
            [NoTrace EXCEPT
                !.at = IF Cardinality(roots) = 1 THEN "walking" ELSE "idle",
                !.query = query,
                !.root = IF Cardinality(roots) = 1 THEN roots ELSE {},
                !.fresh = TRUE,
                !.outcome = CASE roots = {}              -> "not found"
                              [] Cardinality(roots) = 1  -> "none"
                              [] OTHER                   -> "ambiguous"]]
       /\ UNCHANGED <<nodes, edges, replacing>>

RootId(r) == CHOOSE id \in IdsOf(trace[r].root) : TRUE

\* The recursive statement, joined with the nodes that exist by now.
WalkGraph(r) ==
    /\ trace[r].at = "walking"
    /\ LET found == Trace(edges, trace[r].query.direction, RootId(r),
                          trace[r].query.maxDepth)
       IN trace' = [trace EXCEPT
            ![r].at = "collecting",
            ![r].nodes = {n \in found.nodes : n.id \in IdsOf(nodes)},
            ![r].truncated = found.truncated]
    /\ UNCHANGED <<nodes, edges, replacing>>

\* Mutant of CollectEdges: an edge with one end in the answer is enough.
CollectTouching(r) ==
    /\ trace[r].at = "collecting"
    /\ LET ids == IdsOf(trace[r].nodes)
       IN trace' = [trace EXCEPT ![r].at = "idle",
                                 ![r].edges = {e \in edges : {e.from, e.to} \cap ids # {}},
                                 ![r].outcome = "answered"]
    /\ UNCHANGED <<nodes, edges, replacing>>

CollectEdges(r) ==
    /\ trace[r].at = "collecting"
    /\ trace' = [trace EXCEPT ![r].at = "idle",
                              ![r].edges = EdgesAmong(edges, IdsOf(trace[r].nodes)),
                              ![r].outcome = "answered"]
    /\ UNCHANGED <<nodes, edges, replacing>>

-----------------------------------------------------------------------------
ReplaceStep(c) ==
    DeleteScope(c) \/ InsertNode(c) \/ CommitReplacement(c) \/ BreakReplacementDeadlock(c)

ReadStep(r) == WalkGraph(r) \/ CollectEdges(r)

GraphNext ==
    \/ \E c \in Replacers :
          ReplaceStep(c) \/ InterruptReplacement(c) \/ \E body \in Bodies : AskToReplace(c, body)
    \/ \E r \in Readers : ReadStep(r) \/ \E query \in Queries : ResolveRoot(r, query)

GraphSpec == GraphInit /\ [][GraphNext]_graphVars

\* Statements that do not wait end, and the database breaks deadlocks.
FairGraphSpec == GraphSpec /\ \A c \in Replacers : WF_graphVars(ReplaceStep(c))

-----------------------------------------------------------------------------
(* Properties.                                                             *)

Node == [id : {row.id : row \in UNION {ToSet(body.nodes) : body \in Bodies}},
         key : {row.key : row \in UNION {ToSet(body.nodes) : body \in Bodies}},
         scope : Scopes, snapshot : 1 .. MaxReplacements]

\* The tables keep their keys, and every variable its type.
GraphTypeOK ==
    /\ nodes \subseteq Node
    /\ \A a, b \in nodes : Clash(a, b) => a = b
    /\ submitted \in Seq(Bodies) /\ Len(submitted) <= MaxReplacements
    /\ phase \in [Replacers -> {"idle", "deleting", "inserting"}]
    /\ current \in [Replacers -> 0 .. Len(submitted)]
    /\ \A c \in Replacers : seen[c] \subseteq Node /\ newNodes[c] \subseteq Node
    /\ overlapped \in [Replacers -> BOOLEAN]
    /\ ended \in [Replacers -> {"none", "ok", "invalid", "constraint", "deadlock",
                               "interrupted"}]
    /\ \A r \in Readers :
          trace[r].at \in {"idle", "walking", "collecting"} /\ trace[r].query \in Queries

\* A snapshot is there as a whole or not at all: replacements that overlap may
\* leave several, but never a part of one, and no edge outlives an end of it.
SnapshotsAreWhole ==
    /\ \A row \in nodes :
          LET body == submitted[row.snapshot]
          IN SnapshotRows(body, row.snapshot) \subseteq nodes /\ body.edges \subseteq edges
    /\ \A e \in edges : \E a, b \in nodes :
          a.id = e.from /\ b.id = e.to /\ a.snapshot = b.snapshot

\* Keys, snapshots and edges fit together at every moment.
GraphIsConsistent == GraphTypeOK /\ SnapshotsAreWhole

\* A replacement that no other of its scope overlaps leaves exactly its own
\* snapshot in the scope.
LoneReplacementReplacesAll ==
    [][\A c \in Replacers :
          phase[c] = "inserting" /\ ended'[c] = "ok" /\ ~overlapped[c] =>
              {row \in nodes' : row.scope = Body(c).scope}
                  = SnapshotRows(Body(c), current[c])]_graphVars

\* No request changes the snapshot of another scope; a project-level snapshot,
\* whose iteration is NULL, is a scope like any other.
OtherScopesUntouched ==
    [][\A c \in Replacers : phase[c] = "inserting" /\ ended'[c] = "ok" =>
          {row \in nodes' : row.scope # Body(c).scope}
              = {row \in nodes : row.scope # Body(c).scope}]_graphVars

\* A replacement takes its scope, all of it and nothing else.
ReplacementTakesItsScope == LoneReplacementReplacesAll /\ OtherScopesUntouched

\* A trace during which no replacement commits is the breadth-first answer on
\* the graph it was asked of, with all edges between its nodes.
UndisturbedTraceIsExact ==
    [][\A r \in Readers :
          trace[r].at = "collecting" /\ trace'[r].outcome = "answered" /\ trace[r].fresh =>
              LET query == trace[r].query
                  expected == Reference(edges, query.direction, RootId(r), query.maxDepth)
              IN /\ trace'[r].nodes = expected.nodes
                 /\ trace'[r].truncated = expected.truncated
                 /\ trace'[r].edges = EdgesAmong(edges, IdsOf(expected.nodes))]_graphVars

\* Every request ends, whatever order two requests send their nodes in.
EveryReplacementEnds == \A c \in Replacers : phase[c] # "idle" ~> phase[c] = "idle"

\* README.md:868: a scope holds one snapshot, since the request replaces it fully.
ScopeIsFullyReplaced ==
    \A a, b \in nodes : a.scope = b.scope => a.snapshot = b.snapshot
=============================================================================
