----------------------------- MODULE GraphTrace ------------------------------
(***************************************************************************)
(* What one trace of the artifact graph computes.  The recursive query     *)
(* walks along simple paths, one level deeper than it was asked to, and    *)
(* keeps the smallest depth of each node it meets; the level beyond the    *)
(* limit only tells whether the answer is truncated.                       *)
(***************************************************************************)
EXTENDS Naturals, SequencesExt

Directions == {"upstream", "downstream", "both"}

\* The steps a walk may take.  Edges point from an artifact to its source.
Hops(edges, direction) ==
    (IF direction = "downstream" THEN {} ELSE {<<e.from, e.to>> : e \in edges})
    \cup
    (IF direction = "upstream" THEN {} ELSE {<<e.to, e.from>> : e \in edges})

\* The rows of walk: every simple path from the root with at most limit steps.
Walks(edges, direction, root, limit) ==
    LET hops == Hops(edges, direction)
        walk[k \in 0 .. limit] ==
            IF k = 0 THEN {<<root>>}
            ELSE UNION {{Append(p, h[2]) : h \in {h \in hops : /\ h[1] = Last(p)
                                                              /\ h[2] \notin ToSet(p)}}
                        : p \in walk[k - 1]}
    IN UNION {walk[k] : k \in 0 .. limit}

\* Mutant of Depths: the depth of every path to a node, not the smallest.
DepthsOfAllPaths(walks) == {[id |-> Last(p), depth |-> Len(p) - 1] : p \in walks}

\* SELECT n.*, MIN(w.depth) ... GROUP BY n.node_id
Depths(walks) ==
    {[id |-> Last(p), depth |-> Len(p) - 1] :
        p \in {p \in walks : \A q \in walks : Last(q) = Last(p) => Len(p) <= Len(q)}}

Trace(edges, direction, root, maxDepth) ==
    LET all == Depths(Walks(edges, direction, root, maxDepth + 1))
    IN [nodes     |-> {n \in all : n.depth <= maxDepth},
        truncated |-> \E n \in all : n.depth > maxDepth]

\* The edges of the answer: those between its nodes, whatever the direction.
EdgesAmong(edges, ids) == {e \in edges : e.from \in ids /\ e.to \in ids}

-----------------------------------------------------------------------------
\* The reference: breadth-first search.
Adjacent(edges, direction, a, b) ==
    \E e \in edges :
        \/ direction # "downstream" /\ e.from = a /\ e.to = b
        \/ direction # "upstream" /\ e.from = b /\ e.to = a

Ball(edges, direction, root, radius) ==
    LET ends == {e.from : e \in edges} \cup {e.to : e \in edges}
        ball[k \in 0 .. radius] ==
            IF k = 0 THEN {root}
            ELSE ball[k - 1] \cup
                 {b \in ends : \E a \in ball[k - 1] : Adjacent(edges, direction, a, b)}
    IN ball[radius]

Reference(edges, direction, root, maxDepth) ==
    [nodes |-> {[id |-> id, depth |-> CHOOSE d \in 0 .. maxDepth :
                    /\ id \in Ball(edges, direction, root, d)
                    /\ d > 0 => id \notin Ball(edges, direction, root, d - 1)] :
                   id \in Ball(edges, direction, root, maxDepth)},
     truncated |-> Ball(edges, direction, root, maxDepth + 1)
                       # Ball(edges, direction, root, maxDepth)]
=============================================================================
