----------------------------- MODULE TraceView ------------------------------
(***************************************************************************)
(* How the trace page of the dashboard lays the answer of a trace out      *)
(* (trace/traceGraphLayout.ts, tracePresentation.ts).  Nodes stand in one  *)
(* column per depth.  An edge is drawn when both its ends are there, and   *)
(* only listed when not.  Derivations and executions are the primary       *)
(* lineage, and a node takes the highest rank of the edges drawn to it.    *)
(* The direction and the depth are those of the address (traceUrlState.ts).*)
(***************************************************************************)
EXTENDS GraphTrace, FiniteSets

CONSTANTS
    NodeOrder,  \* the nodes in the order of their identifiers
    EdgeOrder,  \* the edges in the order of theirs
    Primary,    \* the edges whose type is DERIVED_FROM or EXECUTED_FOR
    Root,       \* the artifact whose lineage is asked for
    MaxDepths   \* the depths that may be asked for

DefaultMaxDepth == 3

ASSUME ViewAssumption ==
    /\ NodeOrder \in Seq(ToSet(NodeOrder)) /\ Root \in ToSet(NodeOrder)
    /\ EdgeOrder \in Seq([from : ToSet(NodeOrder), to : ToSet(NodeOrder)])
    /\ \A j, k \in DOMAIN NodeOrder : NodeOrder[j] = NodeOrder[k] => j = k
    /\ MaxDepths \subseteq Nat /\ DefaultMaxDepth \in MaxDepths

VARIABLES
    graph,    \* the edges stored so far
    settings  \* the direction and the depth in the address

viewVars == <<graph, settings>>

Rank(id) == CHOOSE k \in 1..Len(NodeOrder) : NodeOrder[k] = id

\* traceNodeEntries: the root is added if the answer leaves it out.
Entries(nodes, root) ==
    IF \E n \in nodes : n.id = root THEN nodes ELSE nodes \cup {[id |-> root, depth |-> 0]}

\* positionTraceNodes
Column(n) == n.depth
Row(entries, n) == Cardinality({m \in entries : m.depth = n.depth /\ Rank(m.id) < Rank(n.id)})
Position(entries, n) == [x |-> Column(n), y |-> Row(entries, n)]

Drawn(edges, entries) ==
    LET ids == {n.id : n \in entries} IN {e \in edges : e.from \in ids /\ e.to \in ids}

Hierarchy(e) == IF e \in Primary THEN "primary" ELSE "secondary"

\* Mutant of Raised: the last edge decides.
RaisedByLast(current, hierarchy) == hierarchy

\* updateNodeHierarchy: a primary node stays primary.
Raised(current, hierarchy) == IF current = "primary" THEN current ELSE hierarchy

\* traceNodeHierarchyById
NodeHierarchy(edges, entries) ==
    LET drawn == Drawn(edges, entries)
        mark(levels, e) ==
            [id \in DOMAIN levels |->
                IF id \in {e.from, e.to} THEN Raised(levels[id], Hierarchy(e)) ELSE levels[id]]
        level[k \in 0 .. Len(EdgeOrder)] ==
            IF k = 0 THEN [id \in {n.id : n \in entries} |-> "unrelated"]
            ELSE IF EdgeOrder[k] \in drawn THEN mark(level[k - 1], EdgeOrder[k])
            ELSE level[k - 1]
    IN level[Len(EdgeOrder)]

\* deriveTraceCompletionContext: the tasks whose completion may be told.
LineageNodes(edges, entries) ==
    UNION {{e.from, e.to} : e \in Drawn(edges, entries) \cap Primary}

IsEmpty(edges, entries, root) ==
    ~(\E n \in entries : n.id # root) /\ Drawn(edges, entries) = {}

-----------------------------------------------------------------------------
\* parseTraceUrl: what an address leaves out or has wrong is the default; with
\* something wrong nothing is asked before the address is replaced.
Parsed(address) ==
    [direction |-> IF address.direction \in Directions THEN address.direction ELSE "both",
     maxDepth  |-> IF address.maxDepth \in MaxDepths THEN address.maxDepth ELSE DefaultMaxDepth]

ViewInit == graph = {} /\ settings = [direction |-> "both", maxDepth |-> DefaultMaxDepth]

\* Any graph, edge by edge.
Grow == \E e \in ToSet(EdgeOrder) : graph' = graph \cup {e} /\ UNCHANGED settings

OpenTrace ==
    /\ \E address \in [direction : Directions \cup {"junk"}, maxDepth : MaxDepths \cup {0}] :
          settings' = Parsed(address)
    /\ UNCHANGED graph

\* TraceSettings: one of the two is chosen on the page.
ChangeSettings ==
    /\ \/ \E direction \in Directions : settings' = [settings EXCEPT !.direction = direction]
       \/ \E maxDepth \in MaxDepths : settings' = [settings EXCEPT !.maxDepth = maxDepth]
    /\ UNCHANGED graph

ViewNext == Grow \/ OpenTrace \/ ChangeSettings
ViewSpec == ViewInit /\ [][ViewNext]_viewVars

\* What the page is answered.
TraceShown == Trace(graph, settings.direction, Root, settings.maxDepth)

-----------------------------------------------------------------------------
\* Cycles, diamonds and shortcuts included, a trace answers with the nodes
\* within the asked depth, each once and at its shortest distance from the root.
\* It says that it is truncated exactly when a node lies beyond that depth: a
\* longer detour to a node that is in the answer does not count.
TraceIsBreadthFirst ==
    TraceShown = Reference(graph, settings.direction, Root, settings.maxDepth)

\* The page shows the root alone in the first column and every node once, at a
\* place of its own.
PlacesAreApart(entries) ==
    /\ {n.id : n \in {n \in entries : Column(n) = 0}} = {Root}
    /\ \A n, m \in entries : n.id = m.id \/ Position(entries, n) # Position(entries, m)

\* It marks a node as lineage exactly when an edge of the lineage is drawn to
\* it, which is what lets a task tell of its completion.
LineageIsMarked(sent, entries) ==
    LET level == NodeHierarchy(sent, entries)
    IN /\ {id \in DOMAIN level : level[id] = "primary"} = LineageNodes(sent, entries)
       /\ IsEmpty(sent, entries, Root) => \A id \in DOMAIN level : level[id] = "unrelated"

\* That is so whatever a trace answers, without its root or with edges to nodes
\* beyond it too.
ViewIsTheTrace ==
    LET nodes == TraceShown.nodes
        among == EdgesAmong(graph, {n.id : n \in nodes})
    IN \A answered \in {nodes, {n \in nodes : n.id # Root}} :
         LET entries == Entries(answered, Root)
         IN PlacesAreApart(entries) /\ \A sent \in {graph, among} : LineageIsMarked(sent, entries)
=============================================================================
