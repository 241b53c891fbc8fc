--------------------------- MODULE GraphTraceProofs ---------------------------
(***************************************************************************)
(* The recursive query answers breadth first, for every graph, every root, *)
(* every direction and every depth.  Walks and balls are recursive         *)
(* functions, so the argument is by induction on the number of steps, and  *)
(* induction is the least counterexample.                                  *)
(***************************************************************************)
EXTENDS GraphTrace, SequenceTheorems, WellFoundedInduction, TLAPS

-----------------------------------------------------------------------------
(* Induction, by the least counterexample                                  *)

\* Every non-empty set of naturals has a least element.
LEMMA LeastNumber ==
    ASSUME NEW T \in SUBSET Nat, T # {}
    PROVE  \E n \in T : \A m \in T : n <= m
<1> DEFINE R == OpToRel(<, Nat)
<1>1. IsWellFoundedOn(R, Nat)
  BY NatLessThanWellFounded
<1>2. \A m, n \in Nat : <<m, n>> \in R <=> m < n
  BY DEF OpToRel
<1> HIDE DEF R
<1>3. PICK n \in T : \A m \in T : ~ (<<m, n>> \in R)
  BY <1>1, WFMin
<1>4. ASSUME NEW m \in T
      PROVE  n <= m
  <2>1. m \in Nat /\ n \in Nat /\ ~ (<<m, n>> \in R)
    BY <1>3
  <2>2. ~ (m < n)
    BY <1>2, <2>1
  <2>3. QED
    BY <2>1, <2>2
<1>5. QED
  BY <1>3, <1>4

\* A set that holds 0, and with every number the next, holds all of them.
LEMMA AllNumbers ==
    ASSUME NEW S, 0 \in S, \A k \in Nat : k \in S => k + 1 \in S
    PROVE  Nat \subseteq S
<1> SUFFICES ASSUME Nat \ S # {}
             PROVE  FALSE
  OBVIOUS
<1>1. PICK n \in Nat \ S : \A m \in Nat \ S : n <= m
  BY LeastNumber
<1>2. n # 0
  OBVIOUS
<1>3. n - 1 \in Nat /\ n = (n - 1) + 1 /\ ~ (n <= n - 1)
  BY <1>2
<1>4. n - 1 \in S
  BY <1>1, <1>3
<1>5. QED
  BY <1>3, <1>4

\* What is iterated from a start has a value at every number.
LEMMA Iterated ==
    ASSUME NEW D, NEW base \in D, NEW G \in [D -> D]
    PROVE  \E F \in [Nat -> D] : F[0] = base /\ \A k \in Nat : F[k + 1] = G[F[k]]
<1> DEFINE Start(f, n) == /\ f \in [0 .. n -> D] /\ f[0] = base
                          /\ \A k \in 0 .. n : k < n => f[k + 1] = G[f[k]]
           S == {n \in Nat : \E f : Start(f, n)}
<1>1. Nat \subseteq S
  <2>1. 0 \in S
    <3> DEFINE f == [k \in 0 .. 0 |-> base]
    <3>1. Start(f, 0)
      OBVIOUS
    <3>2. QED
      BY <3>1
  <2>2. ASSUME NEW n \in Nat, n \in S
        PROVE  n + 1 \in S
    <3>1. PICK f : Start(f, n)
      BY <2>2
    <3> DEFINE g == [k \in 0 .. (n + 1) |-> IF k = n + 1 THEN G[f[n]] ELSE f[k]]
    <3>2. \A k \in 0 .. (n + 1) : k = n + 1 \/ k \in 0 .. n
      OBVIOUS
    <3>3. g \in [0 .. (n + 1) -> D]
      BY <3>1, <3>2
    <3>4. g[0] = base
      BY <3>1
    <3>5. ASSUME NEW k \in 0 .. (n + 1), k < n + 1
          PROVE  g[k + 1] = G[g[k]]
      <4>1. k \in 0 .. n /\ k + 1 \in 0 .. (n + 1) /\ k # n + 1 /\ (k + 1 = n + 1 <=> k = n)
        BY <3>5
      <4>2. g[k] = f[k]
        BY <4>1
      <4>3. CASE k = n
        BY <4>1, <4>2, <4>3
      <4>4. CASE k # n
        <5>1. k < n
          BY <4>1, <4>4
        <5>2. g[k + 1] = f[k + 1]
          BY <4>1, <4>4
        <5>3. QED
          BY <3>1, <4>1, <4>2, <5>1, <5>2
      <4>5. QED
        BY <4>3, <4>4
    <3> HIDE DEF g
    <3>6. Start(g, n + 1)
      BY <3>3, <3>4, <3>5
    <3>7. QED
      BY <3>6
  <2> HIDE DEF S
  <2>3. QED
    BY <2>1, <2>2, AllNumbers
<1>2. ASSUME NEW n \in Nat, NEW f, NEW g, Start(f, n), Start(g, n + 1)
      PROVE  \A k \in 0 .. n : f[k] = g[k]
  <2> DEFINE A == {k \in Nat : k \in 0 .. n => f[k] = g[k]}
  <2>1. 0 \in A
    BY <1>2
  <2>2. ASSUME NEW k \in Nat, k \in A
        PROVE  k + 1 \in A
    <3> SUFFICES ASSUME k + 1 \in 0 .. n
                 PROVE  f[k + 1] = g[k + 1]
      OBVIOUS
    <3>1. k \in 0 .. n /\ k \in 0 .. (n + 1) /\ k < n /\ k < n + 1
      OBVIOUS
    <3>2. f[k] = g[k]
      BY <2>2, <3>1
    <3>3. QED
      BY <1>2, <3>1, <3>2
  <2> HIDE DEF A
  <2>3. Nat \subseteq A
    BY <2>1, <2>2, AllNumbers
  <2>4. QED
    BY <2>3 DEF A
<1> DEFINE h(n) == CHOOSE f : Start(f, n)
           F == [n \in Nat |-> h(n)[n]]
<1>3. ASSUME NEW n \in Nat
      PROVE  Start(h(n), n)
  <2>1. \E f : Start(f, n)
    BY <1>1
  <2> HIDE DEF Start
  <2>2. QED
    BY <2>1
<1> HIDE DEF h
<1>4. F \in [Nat -> D]
  BY <1>3
<1>5. F[0] = base
  BY <1>3
<1>6. ASSUME NEW k \in Nat
      PROVE  F[k + 1] = G[F[k]]
  <2>1. Start(h(k), k) /\ Start(h(k + 1), k + 1) /\ k \in 0 .. k /\ k \in 0 .. (k + 1) /\ k < k + 1
    BY <1>3
  <2>2. h(k)[k] = h(k + 1)[k]
    <3> HIDE DEF Start
    <3>1. \A j \in 0 .. k : h(k)[j] = h(k + 1)[j]
      BY <1>2, <2>1
    <3>2. QED
      BY <2>1, <3>1
  <2>3. h(k + 1)[k + 1] = G[h(k + 1)[k]]
    BY <2>1
  <2>4. QED
    BY <2>2, <2>3
<1>7. QED
  BY <1>4, <1>5, <1>6

\* What is computed step by step from a start has a value at every number.
LEMMA Counted ==
    ASSUME NEW D, NEW base \in D, NEW G \in [Nat -> [D -> D]]
    PROVE  \E F \in [Nat -> D] : F[0] = base /\ \A k \in Nat : F[k + 1] = G[k + 1][F[k]]
<1> DEFINE H == [p \in Nat \X D |-> <<p[1] + 1, G[p[1] + 1][p[2]]>>]
<1>1. PICK E : E = Nat \X D
  OBVIOUS
<1>2. ASSUME NEW p \in E
      PROVE  /\ p[1] \in Nat /\ p[2] \in D /\ H[p] \in E
             /\ H[p][1] = p[1] + 1 /\ H[p][2] = G[p[1] + 1][p[2]]
  BY <1>1
<1>3. H \in [E -> E]
  BY <1>1, <1>2
<1>4. PICK start : start = <<0, base>>
  OBVIOUS
<1>5. start \in E /\ start[1] = 0 /\ start[2] = base
  BY <1>1, <1>4
<1> HIDE DEF H
<1>6. PICK F \in [Nat -> E] : F[0] = start /\ \A k \in Nat : F[k + 1] = H[F[k]]
  <2>1. start \in E
    BY <1>5
  <2> DEFINE Iterates(X) == \A x \in X : \A h \in [X -> X] :
                 \E f \in [Nat -> X] : f[0] = x /\ \A k \in Nat : f[k + 1] = h[f[k]]
  <2>2. \A X : Iterates(X)
    BY Iterated, Zenon
  <2> HIDE DEF Iterates
  <2>3. Iterates(E)
    BY <2>2
  <2>4. QED
    BY <1>3, <2>1, <2>3, Zenon DEF Iterates
<1>7. \A k \in Nat : /\ F[k] \in E /\ F[k + 1][1] = F[k][1] + 1
                      /\ F[k + 1][2] = G[F[k][1] + 1][F[k][2]]
  BY <1>2, <1>6
<1> DEFINE T == {k \in Nat : F[k][1] = k}
<1>8. 0 \in T
  BY <1>5, <1>6
<1>9. ASSUME NEW k \in Nat, k \in T
      PROVE  k + 1 \in T
  <2>1. F[k][1] = k
    BY <1>9
  <2>2. F[k + 1][1] = k + 1
    BY <1>7, <2>1
  <2>3. QED
    BY <2>2
<1>10. Nat \subseteq T
  <2> HIDE DEF T
  <2>1. QED
    BY <1>8, <1>9, AllNumbers
<1>11. \A k \in Nat : F[k][1] = k
  BY <1>10
<1>12. \A k \in Nat : F[k][2] \in D /\ F[k + 1][2] = G[k + 1][F[k][2]]
  BY <1>2, <1>7, <1>11
<1> DEFINE V == [k \in Nat |-> F[k][2]]
<1>13. V \in [Nat -> D] /\ V[0] = base
  BY <1>5, <1>6, <1>12
<1>14. ASSUME NEW k \in Nat
       PROVE  V[k + 1] = G[k + 1][V[k]]
  <2>1. V[k] = F[k][2] /\ V[k + 1] = F[k + 1][2]
    OBVIOUS
  <2> HIDE DEF V
  <2>2. QED
    BY <1>12, <2>1
<1>15. QED
  BY <1>13, <1>14

\* What G makes of a function at a point rests on the points of a smaller measure.
ByMeasure(W, R, m, G) ==
    /\ m \in [W -> Nat] /\ G \in [[W -> R] -> [W -> R]]
    /\ \A f, h \in [W -> R] : \A w \in W :
         (\A q \in W : m[q] < m[w] => f[q] = h[q]) => G[f][w] = G[h][w]

\* A function can be defined by what it is at the points of a smaller measure.
LEMMA RecursionByMeasure ==
    ASSUME NEW W, NEW R, R # {}, NEW m, NEW G, ByMeasure(W, R, m, G)
    PROVE  \E f \in [W -> R] : f = G[f]
<1>1. PICK D : D = [W -> R]
  OBVIOUS
<1>2. /\ m \in [W -> Nat] /\ G \in [D -> D]
      /\ \A f, h \in D : \A w \in W :
           (\A q \in W : m[q] < m[w] => f[q] = h[q]) => G[f][w] = G[h][w]
  BY <1>1 DEF ByMeasure
<1>3. \A w \in W : m[w] \in Nat
  BY <1>2
<1>4. \E base : base \in D
  <2>1. PICK r \in R : TRUE
    OBVIOUS
  <2>2. [w \in W |-> r] \in D
    BY <1>1
  <2>3. QED
    BY <2>2
<1>5. PICK F \in [Nat -> D] : \A k \in Nat : F[k + 1] = G[F[k]]
  <2>1. PICK base \in D : TRUE
    BY <1>4
  <2>2. G \in [D -> D]
    BY <1>2
  <2>3. \E F \in [Nat -> D] : F[0] = base /\ \A k \in Nat : F[k + 1] = G[F[k]]
    BY <2>2, Iterated, SMTT(60)
  <2>4. QED
    BY <2>3
<1>6. \A k \in Nat : F[k] \in D
  BY <1>5
<1> DEFINE S == {k \in Nat : \A w \in W : m[w] < k => F[k + 1][w] = F[k][w]}
<1>7. 0 \in S
  BY <1>3
<1>8. ASSUME NEW k \in Nat, k \in S
      PROVE  k + 1 \in S
  <2> SUFFICES ASSUME NEW w \in W, m[w] < k + 1
               PROVE  F[(k + 1) + 1][w] = F[k + 1][w]
    OBVIOUS
  <2>1. \A q \in W : m[q] < m[w] => m[q] < k
    BY <1>3
  <2>2. \A q \in W : m[q] < m[w] => F[k + 1][q] = F[k][q]
    BY <1>8, <2>1
  <2>3. F[k + 1] \in D /\ F[k] \in D
    BY <1>6
  <2>4. G[F[k + 1]][w] = G[F[k]][w]
    BY <1>2, <2>2, <2>3
  <2>5. QED
    BY <1>5, <2>4
<1>9. \A k \in Nat, w \in W : m[w] < k => F[k + 1][w] = F[k][w]
  <2> HIDE DEF S
  <2>1. Nat \subseteq S
    BY <1>7, <1>8, AllNumbers
  <2>2. QED
    BY <2>1 DEF S
<1> HIDE DEF S
<1>10. ASSUME NEW w \in W, NEW n \in Nat, m[w] < n
       PROVE  F[n][w] = F[m[w] + 1][w]
  <2> DEFINE T == {k \in Nat : m[w] < k => F[k][w] = F[m[w] + 1][w]}
  <2>1. 0 \in T
    BY <1>3
  <2>2. ASSUME NEW k \in Nat, k \in T
        PROVE  k + 1 \in T
    <3> SUFFICES ASSUME m[w] < k + 1
                 PROVE  F[k + 1][w] = F[m[w] + 1][w]
      OBVIOUS
    <3>1. CASE m[w] < k
      BY <1>9, <2>2, <3>1
    <3>2. CASE m[w] = k
      BY <3>2
    <3>3. QED
      BY <1>3, <3>1, <3>2
  <2>3. n \in T
    <3> HIDE DEF T
    <3>1. QED
      BY <2>1, <2>2, AllNumbers
  <2>4. QED
    BY <1>10, <2>3
<1>11. PICK f : f = [w \in W |-> F[m[w] + 1][w]]
  OBVIOUS
<1>12. f \in [W -> R] /\ f \in D
  BY <1>1, <1>3, <1>6, <1>11
<1>13. ASSUME NEW w \in W
       PROVE  f[w] = G[f][w]
  <2>1. PICK k \in Nat : k = m[w]
    BY <1>3
  <2>2. f[w] = G[F[k]][w] /\ F[k] \in D
    BY <1>5, <1>6, <1>11, <2>1
  <2>3. ASSUME NEW q \in W, m[q] < m[w]
        PROVE  F[k][q] = f[q]
    <3>1. F[k][q] = F[m[q] + 1][q]
      BY <1>10, <2>1, <2>3
    <3>2. QED
      BY <1>11, <3>1
  <2>4. G[F[k]][w] = G[f][w]
    BY <1>2, <1>12, <2>2, <2>3
  <2>5. QED
    BY <2>2, <2>4
<1>14. G[f] \in [W -> R]
  BY <1>1, <1>2, <1>12
<1>15. f = G[f]
  BY <1>12, <1>13, <1>14
<1>16. QED
  BY <1>12, <1>15

-----------------------------------------------------------------------------
(* Walks and balls                                                         *)

Ends(edges) == {e.from : e \in edges} \cup {e.to : e \in edges}

\* The nodes a walk can meet.
Places(edges, root) == {root} \cup Ends(edges)

Around(edges, direction, B) ==
    {b \in Ends(edges) : \E a \in B : Adjacent(edges, direction, a, b)}

\* The walks that are one step longer.
Longer(hops, walks) ==
    UNION {{Append(p, h[2]) : h \in {h \in hops : h[1] = Last(p) /\ h[2] \notin ToSet(p)}}
               : p \in walks}

\* A walk with one more node.
LEMMA OneStepLonger ==
    ASSUME NEW V, NEW p \in Seq(V), NEW b \in V
    PROVE  /\ Append(p, b) \in Seq(V) /\ Len(Append(p, b)) = Len(p) + 1
           /\ Last(Append(p, b)) = b /\ ToSet(Append(p, b)) = ToSet(p) \cup {b}
<1>1. PICK n \in Nat : n = Len(p) /\ DOMAIN p = 1 .. n
  BY LenProperties
<1>2. PICK q : q = Append(p, b)
  OBVIOUS
<1>3. q \in Seq(V) /\ Len(q) = n + 1 /\ (\A i \in 1 .. n : q[i] = p[i]) /\ q[n + 1] = b
  BY <1>1, <1>2, AppendProperties
<1>4. DOMAIN q = 1 .. (n + 1)
  BY <1>3, LenProperties
<1>5. \A i : i \in 1 .. (n + 1) <=> i \in 1 .. n \/ i = n + 1
  OBVIOUS
<1>6. ToSet(q) = ToSet(p) \cup {b}
  BY <1>1, <1>3, <1>4, <1>5 DEF ToSet
<1>7. Last(q) = b
  BY <1>3 DEF Last
<1>8. QED
  BY <1>1, <1>2, <1>3, <1>6, <1>7, Zenon

\* A hop is a step to a neighbour.
LEMMA HopsAreAdjacent ==
    ASSUME NEW edges, NEW direction, NEW a, NEW b
    PROVE  /\ <<a, b>> \in Hops(edges, direction) <=> Adjacent(edges, direction, a, b)
           /\ Adjacent(edges, direction, a, b) => b \in Ends(edges)
BY DEF Hops, Adjacent, Ends

\* A ball is the smaller ball and what is around it.
LEMMA BallsGrow ==
    ASSUME NEW edges, NEW direction, NEW root
    PROVE  /\ Ball(edges, direction, root, 0) = {root}
           /\ \A k \in Nat : Ball(edges, direction, root, k + 1) =
                 Ball(edges, direction, root, k)
                 \cup Around(edges, direction, Ball(edges, direction, root, k))
<1> DEFINE D == SUBSET Places(edges, root)
           step(B) == B \cup Around(edges, direction, B)
           G == [B \in D |-> step(B)]
<1>1. {root} \in D /\ G \in [D -> D]
  BY DEF Places, Around
<1>2. PICK F \in [Nat -> D] : F[0] = {root} /\ \A k \in Nat : F[k + 1] = G[F[k]]
  <2> HIDE DEF D, G
  <2>1. QED
    BY <1>1, Iterated
<1>3. \A k \in Nat : F[k + 1] = step(F[k])
  BY <1>2
<1>4. ASSUME NEW r \in Nat
      PROVE  Ball(edges, direction, root, r) = F[r]
  <2> DEFINE Solves(f) == f = [k \in 0 .. r |-> IF k = 0 THEN {root} ELSE step(f[k - 1])]
  <2>1. Ball(edges, direction, root, r) = (CHOOSE f : Solves(f))[r]
    BY DEF Ball, Around, Ends
  <2>2. Solves([k \in 0 .. r |-> F[k]])
    <3>1. \A k \in 0 .. r : k = 0 \/ (k - 1 \in 0 .. r /\ k - 1 \in Nat /\ k = (k - 1) + 1)
      OBVIOUS
    <3>2. \A k \in 0 .. r : F[k] = IF k = 0 THEN {root}
                                            ELSE step([j \in 0 .. r |-> F[j]][k - 1])
      BY <1>2, <1>3, <3>1
    <3>3. QED
      BY <3>2
  <2>3. \E f : Solves(f)
    BY <2>2
  <2>4. PICK f : f = (CHOOSE g : Solves(g))
    OBVIOUS
  <2>5. Solves(f)
    <3> HIDE DEF Solves
    <3>1. QED
      BY <2>3, <2>4
  <2>6. Nat \subseteq {k \in Nat : k \in 0 .. r => f[k] = F[k]}
    <3> DEFINE A == {k \in Nat : k \in 0 .. r => f[k] = F[k]}
    <3>1. 0 \in A
      BY <1>2, <2>5
    <3>2. ASSUME NEW k \in Nat, k \in A
          PROVE  k + 1 \in A
      <4> SUFFICES ASSUME k + 1 \in 0 .. r
                   PROVE  f[k + 1] = F[k + 1]
        OBVIOUS
      <4>1. k \in 0 .. r /\ k + 1 # 0 /\ (k + 1) - 1 = k
        OBVIOUS
      <4>2. f[k + 1] = step(f[k])
        BY <2>5, <4>1
      <4>3. f[k] = F[k]
        BY <3>2, <4>1
      <4>4. QED
        BY <1>3, <4>2, <4>3
    <3> HIDE DEF A
    <3>3. Nat \subseteq A
      BY <3>1, <3>2, AllNumbers
    <3>4. QED
      BY <3>3 DEF A
  <2>7. f[r] = F[r]
    BY <2>6
  <2>8. QED
    BY <2>1, <2>4, <2>7
<1>5. QED
  BY <1>2, <1>3, <1>4

\* W holds the walks from the root by their number of steps.
WalksFrom(W, edges, direction, root) ==
    /\ W \in [Nat -> SUBSET Seq(Places(edges, root))]
    /\ W[0] = {<<root>>}
    /\ \A k \in Nat : W[k + 1] = Longer(Hops(edges, direction), W[k])

\* The walks of the query, by their number of steps.
LEMMA WalksGrow ==
    ASSUME NEW edges, NEW direction, NEW root
    PROVE  \E W : /\ WalksFrom(W, edges, direction, root)
                  /\ \A limit \in Nat :
                        Walks(edges, direction, root, limit) = UNION {W[k] : k \in 0 .. limit}
<1> DEFINE V == Places(edges, root)
           D == SUBSET Seq(V)
           H == Hops(edges, direction)
           G == [P \in D |-> Longer(H, P)]
<1>1. {<<root>>} \in D
  BY DEF Places
<1>2. \A P \in D : Longer(H, P) \in D
  <2> SUFFICES ASSUME NEW P \in D, NEW q \in Longer(H, P)
               PROVE  q \in Seq(V)
    OBVIOUS
  <2>1. PICK p \in P, h \in H : q = Append(p, h[2])
    BY DEF Longer
  <2>2. h[2] \in V
    BY DEF Hops, Places, Ends
  <2>3. p \in Seq(V)
    OBVIOUS
  <2>4. QED
    BY <2>1, <2>2, <2>3, OneStepLonger
<1>3. G \in [D -> D]
  BY <1>2
<1>4. PICK W \in [Nat -> D] : W[0] = {<<root>>} /\ \A k \in Nat : W[k + 1] = G[W[k]]
  <2>1. PICK start : start = {<<root>>}
    OBVIOUS
  <2>2. start \in D
    BY <1>1, <2>1
  <2> HIDE DEF D, G
  <2>3. \E W \in [Nat -> D] : W[0] = start /\ \A k \in Nat : W[k + 1] = G[W[k]]
    BY <1>3, <2>2, Iterated
  <2>4. QED
    BY <2>1, <2>3
<1>5. \A k \in Nat : W[k + 1] = Longer(H, W[k])
  BY <1>4
<1>6. ASSUME NEW limit \in Nat
      PROVE  Walks(edges, direction, root, limit) = UNION {W[k] : k \in 0 .. limit}
  <2> DEFINE Solves(f) == f = [k \in 0 .. limit |->
                                  IF k = 0 THEN {<<root>>} ELSE Longer(H, f[k - 1])]
             walk == CHOOSE f : Solves(f)
  <2>1. Walks(edges, direction, root, limit) = UNION {walk[k] : k \in 0 .. limit}
    BY DEF Walks, Longer
  <2>2. Solves([k \in 0 .. limit |-> W[k]])
    <3>1. \A k \in 0 .. limit : k = 0 \/ (k - 1 \in 0 .. limit /\ k - 1 \in Nat /\ k = (k - 1) + 1)
      OBVIOUS
    <3>2. \A k \in 0 .. limit : W[k] = IF k = 0 THEN {<<root>>}
                                       ELSE Longer(H, [j \in 0 .. limit |-> W[j]][k - 1])
      BY <1>4, <1>5, <3>1
    <3>3. QED
      BY <3>2
  <2>3. \E f : Solves(f)
    BY <2>2
  <2>4. PICK f : f = walk
    OBVIOUS
  <2>5. Solves(f)
    <3> HIDE DEF Solves
    <3>1. QED
      BY <2>3, <2>4
  <2>6. \A k \in 0 .. limit : f[k] = W[k]
    <3> DEFINE A == {k \in Nat : k \in 0 .. limit => f[k] = W[k]}
    <3>1. 0 \in A
      BY <1>4, <2>5
    <3>2. ASSUME NEW k \in Nat, k \in A
          PROVE  k + 1 \in A
      <4> SUFFICES ASSUME k + 1 \in 0 .. limit
                   PROVE  f[k + 1] = W[k + 1]
        OBVIOUS
      <4>1. k \in 0 .. limit /\ k + 1 # 0 /\ (k + 1) - 1 = k
        OBVIOUS
      <4>2. f[k + 1] = Longer(H, f[k])
        BY <2>5, <4>1
      <4>3. f[k] = W[k]
        BY <3>2, <4>1
      <4>4. QED
        BY <1>5, <4>2, <4>3
    <3> HIDE DEF A
    <3>3. Nat \subseteq A
      BY <3>1, <3>2, AllNumbers
    <3>4. QED
      BY <3>3 DEF A
  <2>7. QED
    <3> HIDE DEF walk
    <3>1. QED
      BY <2>1, <2>4, <2>6
<1>7. WalksFrom(W, edges, direction, root)
  BY <1>4, <1>5 DEF WalksFrom
<1>8. QED
  BY <1>6, <1>7

\* A walk of k steps has k + 1 nodes and ends in the ball of radius k.
LEMMA WalksStayInBalls ==
    ASSUME NEW edges, NEW direction, NEW root, NEW W, WalksFrom(W, edges, direction, root)
    PROVE  \A k \in Nat : \A p \in W[k] :
              /\ p \in Seq(Places(edges, root)) /\ Len(p) = k + 1
              /\ Last(p) \in Ball(edges, direction, root, k)
<1> DEFINE B(k) == Ball(edges, direction, root, k)
           S == {k \in Nat : \A p \in W[k] : Len(p) = k + 1 /\ Last(p) \in B(k)}
<1>0. \A k \in Nat : /\ B(0) = {root}
                     /\ B(k + 1) = B(k) \cup Around(edges, direction, B(k))
  BY BallsGrow
<1>1. \A k \in Nat : \A p \in W[k] : p \in Seq(Places(edges, root))
  BY DEF WalksFrom
<1>2. 0 \in S
  <2>1. Len(<<root>>) = 1 /\ Last(<<root>>) = root
    BY DEF Last
  <2>2. B(0) = {root}
    BY <1>0
  <2>3. QED
    BY <2>1, <2>2 DEF WalksFrom
<1>3. ASSUME NEW k \in Nat, k \in S
      PROVE  k + 1 \in S
  <2> SUFFICES ASSUME NEW q \in W[k + 1]
               PROVE  Len(q) = (k + 1) + 1 /\ Last(q) \in B(k + 1)
    OBVIOUS
  <2>1. q \in Longer(Hops(edges, direction), W[k])
    BY DEF WalksFrom
  <2>2. PICK p \in W[k], h \in Hops(edges, direction) : q = Append(p, h[2]) /\ h[1] = Last(p)
    BY <2>1 DEF Longer
  <2>3. Adjacent(edges, direction, Last(p), h[2]) /\ h[2] \in Ends(edges)
    BY <2>2 DEF Hops, Adjacent, Ends
  <2>4. p \in Seq(Places(edges, root)) /\ h[2] \in Places(edges, root)
        /\ Len(p) = k + 1 /\ Last(p) \in B(k)
    BY <1>1, <1>3, <2>3 DEF Places
  <2>5. Len(q) = (k + 1) + 1 /\ Last(q) = h[2]
    BY <2>2, <2>4, OneStepLonger
  <2>6. h[2] \in Around(edges, direction, B(k))
    BY <2>3, <2>4 DEF Around
  <2>7. B(k + 1) = B(k) \cup Around(edges, direction, B(k))
    BY <1>0
  <2>8. QED
    BY <2>5, <2>6, <2>7
<1> HIDE DEF S
<1>4. Nat \subseteq S
  BY <1>2, <1>3, AllNumbers
<1>5. QED
  BY <1>1, <1>4 DEF S

\* A larger radius, a larger ball.
LEMMA BallsContainSmaller ==
    ASSUME NEW edges, NEW direction, NEW root
    PROVE  \A j, k \in Nat : j <= k =>
              Ball(edges, direction, root, j) \subseteq Ball(edges, direction, root, k)
<1> DEFINE B(k) == Ball(edges, direction, root, k)
<1> SUFFICES ASSUME NEW j \in Nat
             PROVE  \A k \in Nat : j <= k => B(j) \subseteq B(k)
  OBVIOUS
<1> DEFINE S == {k \in Nat : j <= k => B(j) \subseteq B(k)}
<1>1. 0 \in S
  <2>1. j <= 0 => j = 0
    OBVIOUS
  <2>2. QED
    BY <2>1
<1>2. ASSUME NEW k \in Nat, k \in S
      PROVE  k + 1 \in S
  <2>1. j <= k + 1 => j <= k \/ j = k + 1
    OBVIOUS
  <2>2. B(k) \subseteq B(k + 1)
    BY BallsGrow
  <2> HIDE DEF B
  <2>3. QED
    BY <1>2, <2>1, <2>2
<1> HIDE DEF S
<1>3. Nat \subseteq S
  BY <1>1, <1>2, AllNumbers
<1>4. QED
  BY <1>3 DEF S

\* b is at distance d from the root.
AtDistance(edges, direction, root, b, d) ==
    /\ b \in Ball(edges, direction, root, d)
    /\ d > 0 => b \notin Ball(edges, direction, root, d - 1)

\* A node at distance d is the end of a walk of d steps inside the ball.
LEMMA ShortestWalksExist ==
    ASSUME NEW edges, NEW direction, NEW root, NEW W, WalksFrom(W, edges, direction, root)
    PROVE  \A d \in Nat : \A b : AtDistance(edges, direction, root, b, d) =>
              \E p \in W[d] : Last(p) = b /\ ToSet(p) \subseteq Ball(edges, direction, root, d)
<1> DEFINE B(k) == Ball(edges, direction, root, k)
           Ends0(d, b) == \E p \in W[d] : Last(p) = b /\ ToSet(p) \subseteq B(d)
           S == {d \in Nat : \A b : AtDistance(edges, direction, root, b, d) => Ends0(d, b)}
<1>0. \A k \in Nat : /\ B(0) = {root}
                     /\ B(k + 1) = B(k) \cup Around(edges, direction, B(k))
  BY BallsGrow
<1>1. 0 \in S
  <2>1. Last(<<root>>) = root /\ ToSet(<<root>>) = {root}
    BY DEF Last, ToSet
  <2>2. B(0) = {root}
    BY <1>0
  <2>3. \A b : AtDistance(edges, direction, root, b, 0) => b = root
    BY <2>2 DEF AtDistance
  <2>4. <<root>> \in W[0]
    BY DEF WalksFrom
  <2>5. QED
    BY <2>1, <2>2, <2>3, <2>4
<1>2. ASSUME NEW d \in Nat, d \in S
      PROVE  d + 1 \in S
  <2> SUFFICES ASSUME NEW b, AtDistance(edges, direction, root, b, d + 1)
               PROVE  Ends0(d + 1, b)
    OBVIOUS
  <2>1. b \in B(d + 1) /\ b \notin B(d)
    <3>1. (d + 1) - 1 = d /\ d + 1 > 0
      OBVIOUS
    <3>2. QED
      BY <3>1 DEF AtDistance
  <2>2. B(d + 1) = B(d) \cup Around(edges, direction, B(d))
    BY <1>0
  <2>3. PICK a \in B(d) : Adjacent(edges, direction, a, b)
    BY <2>1, <2>2 DEF Around
  <2>4. b \in Around(edges, direction, B(d)) /\ b \in Ends(edges)
    BY <2>1, <2>2 DEF Around
  <2>5. AtDistance(edges, direction, root, a, d)
    <3> SUFFICES ASSUME d > 0, a \in B(d - 1)
                 PROVE  FALSE
      BY DEF AtDistance
    <3>1. b \in Around(edges, direction, B(d - 1))
      BY <2>3, <2>4 DEF Around
    <3>2. d - 1 \in Nat /\ (d - 1) + 1 = d
      OBVIOUS
    <3>3. Around(edges, direction, B(d - 1)) \subseteq B((d - 1) + 1)
      BY <1>0, <3>2
    <3>4. QED
      BY <2>1, <3>1, <3>2, <3>3
  <2>6. PICK p \in W[d] : Last(p) = a /\ ToSet(p) \subseteq B(d)
    BY <1>2, <2>5
  <2>7. <<a, b>> \in Hops(edges, direction) /\ b \notin ToSet(p)
    BY <2>1, <2>3, <2>6, HopsAreAdjacent
  <2>8. Append(p, b) \in Longer(Hops(edges, direction), W[d])
    <3>1. PICK h \in Hops(edges, direction) : h = <<a, b>>
      BY <2>7
    <3>2. h[1] = Last(p) /\ h[2] = b /\ h[2] \notin ToSet(p)
      BY <2>6, <2>7, <3>1
    <3>3. QED
      BY <3>2 DEF Longer
  <2>9. Append(p, b) \in W[d + 1]
    BY <2>8 DEF WalksFrom
  <2>10. p \in Seq(Places(edges, root)) /\ b \in Places(edges, root)
    BY <2>4 DEF WalksFrom, Places
  <2>11. Last(Append(p, b)) = b /\ ToSet(Append(p, b)) = ToSet(p) \cup {b}
    BY <2>10, OneStepLonger
  <2>12. ToSet(Append(p, b)) \subseteq B(d + 1)
    BY <2>1, <2>2, <2>6, <2>11
  <2>13. QED
    BY <2>9, <2>11, <2>12
<1> HIDE DEF S
<1>3. Nat \subseteq S
  BY <1>1, <1>2, AllNumbers
<1>4. QED
  BY <1>3 DEF S

-----------------------------------------------------------------------------
(* Depths are distances                                                    *)

DistanceRow(b, d) == [id |-> b, depth |-> d]

\* A node has one distance, the least radius of a ball it is in.
LEMMA DistancesAreLeast ==
    ASSUME NEW edges, NEW direction, NEW root, NEW b
    PROVE  /\ \A k \in Nat : b \in Ball(edges, direction, root, k)
                  => \E d \in 0 .. k : AtDistance(edges, direction, root, b, d)
           /\ \A d, k \in Nat : /\ AtDistance(edges, direction, root, b, d)
                                /\ b \in Ball(edges, direction, root, k)
                  => d <= k
<1> DEFINE B(k) == Ball(edges, direction, root, k)
           S == {d \in Nat : b \in B(d)}
<1>1. ASSUME NEW k \in Nat, b \in B(k)
      PROVE  \E d \in 0 .. k : AtDistance(edges, direction, root, b, d)
  <2>1. k \in S /\ S \in SUBSET Nat
    BY <1>1
  <2>2. PICK d \in S : \A m \in S : d <= m
    <3> HIDE DEF S
    <3>1. QED
      BY <2>1, LeastNumber
  <2>3. d \in 0 .. k /\ b \in B(d)
    BY <2>1, <2>2
  <2>4. d > 0 => b \notin B(d - 1)
    <3> SUFFICES ASSUME d > 0, b \in B(d - 1)
                 PROVE  FALSE
      OBVIOUS
    <3>1. d - 1 \in Nat /\ ~ (d <= d - 1)
      BY <2>3
    <3>2. d - 1 \in S
      BY <3>1
    <3>3. QED
      BY <2>2, <3>1, <3>2
  <2>5. QED
    BY <2>3, <2>4 DEF AtDistance
<1>2. ASSUME NEW d \in Nat, NEW k \in Nat, AtDistance(edges, direction, root, b, d), b \in B(k),
             ~ (d <= k)
      PROVE  FALSE
  <2>1. d > 0 /\ d - 1 \in Nat /\ k <= d - 1
    BY <1>2
  <2>2. B(k) \subseteq B(d - 1)
    BY <2>1, BallsContainSmaller
  <2>3. QED
    BY <1>2, <2>1, <2>2 DEF AtDistance
<1>3. QED
  BY <1>1, <1>2

\* The depths the query keeps are the distances from the root.
LEMMA DepthsAreDistances ==
    ASSUME NEW edges, NEW direction, NEW root, NEW limit \in Nat
    PROVE  \A n : n \in Depths(Walks(edges, direction, root, limit)) <=>
              \E d \in 0 .. limit : \E b : /\ AtDistance(edges, direction, root, b, d)
                                           /\ n = DistanceRow(b, d)
<1> DEFINE B(k) == Ball(edges, direction, root, k)
           Far(b, d) == AtDistance(edges, direction, root, b, d)
<1>1. PICK W : /\ WalksFrom(W, edges, direction, root)
               /\ Walks(edges, direction, root, limit) = UNION {W[k] : k \in 0 .. limit}
  BY WalksGrow
<1>2. PICK walks : walks = Walks(edges, direction, root, limit)
  OBVIOUS
<1>3. \A p : p \in walks <=> \E k \in 0 .. limit : p \in W[k]
  BY <1>1, <1>2
<1>4. \A k \in Nat : \A p \in W[k] : Len(p) = k + 1 /\ Len(p) - 1 = k /\ Last(p) \in B(k)
  <2>1. \A k \in Nat : \A p \in W[k] : Len(p) = k + 1 /\ Last(p) \in B(k)
    BY <1>1, WalksStayInBalls
  <2>2. \A k \in Nat : (k + 1) - 1 = k
    OBVIOUS
  <2>3. QED
    BY <2>1, <2>2
<1>5. \A d \in Nat : \A b : Far(b, d) => \E p \in W[d] : Last(p) = b
  BY <1>1, ShortestWalksExist
<1>6. \A b : \A k \in Nat : b \in B(k) => \E d \in 0 .. k : Far(b, d)
  BY DistancesAreLeast
<1>7. \A b : \A d, k \in Nat : Far(b, d) /\ b \in B(k) => d <= k
  BY DistancesAreLeast
<1>8. \A n : n \in Depths(walks) <=>
          \E p \in walks : /\ \A q \in walks : Last(q) = Last(p) => Len(p) <= Len(q)
                           /\ n = DistanceRow(Last(p), Len(p) - 1)
  BY DEF Depths, DistanceRow
<1> HIDE DEF B, Far
<1>9. ASSUME NEW n, n \in Depths(walks)
      PROVE  \E d \in 0 .. limit : \E b : Far(b, d) /\ n = DistanceRow(b, d)
  <2>1. PICK p \in walks : /\ \A q \in walks : Last(q) = Last(p) => Len(p) <= Len(q)
                           /\ n = DistanceRow(Last(p), Len(p) - 1)
    BY <1>8, <1>9
  <2>2. PICK k \in 0 .. limit : p \in W[k]
    BY <1>3
  <2>3. Len(p) = k + 1 /\ Len(p) - 1 = k /\ Last(p) \in B(k)
    BY <1>4, <2>2
  <2>4. PICK d \in 0 .. k : Far(Last(p), d)
    BY <1>6, <2>3
  <2>5. PICK q \in W[d] : Last(q) = Last(p)
    BY <1>5, <2>4
  <2>6. q \in walks /\ Len(q) = d + 1
    BY <1>3, <1>4, <2>5
  <2>7. k + 1 <= d + 1
    BY <2>1, <2>3, <2>5, <2>6
  <2>8. d = k
    BY <2>7
  <2>9. QED
    BY <2>1, <2>3, <2>4, <2>8
<1>10. ASSUME NEW n, NEW d \in 0 .. limit, NEW b, Far(b, d), n = DistanceRow(b, d)
       PROVE  n \in Depths(walks)
  <2>0. d \in Nat /\ Far(b, d)
    BY <1>10
  <2>1. PICK p \in W[d] : Last(p) = b
    BY <1>5, <2>0
  <2>2. p \in walks /\ Len(p) = d + 1 /\ Len(p) - 1 = d
    BY <1>3, <1>4
  <2>3. ASSUME NEW q \in walks, Last(q) = Last(p)
        PROVE  Len(p) <= Len(q)
    <3>1. PICK k \in 0 .. limit : q \in W[k]
      BY <1>3
    <3>2. Len(q) = k + 1 /\ b \in B(k)
      BY <1>4, <2>1, <2>3, <3>1
    <3>3. d <= k
      BY <1>7, <1>10, <3>2
    <3>4. QED
      BY <2>2, <3>2, <3>3
  <2>4. QED
    BY <1>8, <1>10, <2>1, <2>2, <2>3
<1>11. QED
  BY <1>2, <1>9, <1>10 DEF Far

\* A trace never leaves the root and the ends of the edges.
LEMMA TracesStayInPlaces ==
    ASSUME NEW edges, NEW direction, NEW root, NEW maxDepth \in Nat
    PROVE  \A n \in Trace(edges, direction, root, maxDepth).nodes : n.id \in Places(edges, root)
<1> DEFINE B(k) == Ball(edges, direction, root, k)
           S == {k \in Nat : B(k) \subseteq Places(edges, root)}
<1>1. B(0) = {root} /\ \A k \in Nat : B(k + 1) = B(k) \cup Around(edges, direction, B(k))
  BY BallsGrow
<1> HIDE DEF B
<1>2. 0 \in S /\ \A k \in Nat : k \in S => k + 1 \in S
  BY <1>1 DEF Places, Around
<1>3. \A k \in Nat : B(k) \subseteq Places(edges, root)
  <2>1. Nat \subseteq S
    <3> HIDE DEF S
    <3>1. QED
      BY <1>2, AllNumbers
  <2>2. QED
    BY <2>1
<1>4. PICK all : all = Depths(Walks(edges, direction, root, maxDepth + 1))
  OBVIOUS
<1>5. Trace(edges, direction, root, maxDepth)
          = [nodes     |-> {n \in all : n.depth <= maxDepth},
             truncated |-> \E n \in all : n.depth > maxDepth]
  BY <1>4 DEF Trace
<1>6. maxDepth + 1 \in Nat
  OBVIOUS
<1>7. \A n \in all : \E d \in 0 .. (maxDepth + 1) : \E b :
          AtDistance(edges, direction, root, b, d) /\ n = DistanceRow(b, d)
  BY <1>4, <1>6, DepthsAreDistances
<1>8. \A n \in all : n.id \in Places(edges, root)
  BY <1>3, <1>7 DEF AtDistance, DistanceRow, B
<1>9. QED
  BY <1>5, <1>8

\* Breadth first: for every graph, root, direction and depth.
THEOREM TracesAreBreadthFirst ==
    ASSUME NEW edges, NEW direction, NEW root, NEW maxDepth \in Nat
    PROVE  Trace(edges, direction, root, maxDepth) = Reference(edges, direction, root, maxDepth)
<1> DEFINE B(k) == Ball(edges, direction, root, k)
           Far(b, d) == AtDistance(edges, direction, root, b, d)
           found == Depths(Walks(edges, direction, root, maxDepth + 1))
           distance(b) == CHOOSE d \in 0 .. maxDepth : Far(b, d)
<1>1. maxDepth \in Nat /\ maxDepth + 1 \in Nat
  OBVIOUS
<1>2. \A n : n \in found <=>
          \E d \in 0 .. (maxDepth + 1) : \E b : Far(b, d) /\ n = DistanceRow(b, d)
  BY <1>1, DepthsAreDistances
<1>3. \A b : \A k \in Nat : b \in B(k) => \E d \in 0 .. k : Far(b, d)
  BY DistancesAreLeast
<1>4. \A b : \A d, k \in Nat : Far(b, d) /\ b \in B(k) => d <= k
  BY DistancesAreLeast
<1>5. \A b : \A d \in Nat : Far(b, d) => b \in B(d) /\ (d > 0 => b \notin B(d - 1))
  BY DEF AtDistance
<1>6. \A d \in 0 .. maxDepth : B(d) \subseteq B(maxDepth)
  BY <1>1, BallsContainSmaller
<1>7. B(maxDepth) \subseteq B(maxDepth + 1)
  BY <1>1, BallsContainSmaller
<1>8. \A b, d : DistanceRow(b, d).id = b /\ DistanceRow(b, d).depth = d
  BY DEF DistanceRow
<1>9. PICK all : all = found
  OBVIOUS
<1>10. Trace(edges, direction, root, maxDepth)
           = [nodes     |-> {n \in all : n.depth <= maxDepth},
              truncated |-> \E n \in all : n.depth > maxDepth]
  BY <1>9 DEF Trace
<1>11. Reference(edges, direction, root, maxDepth)
           = [nodes     |-> {DistanceRow(b, distance(b)) : b \in B(maxDepth)},
              truncated |-> B(maxDepth + 1) # B(maxDepth)]
  BY DEF Reference, DistanceRow, AtDistance
<1>12. \A b : \A d \in 0 .. maxDepth : Far(b, d) => distance(b) = d
  <2> SUFFICES ASSUME NEW b, NEW d \in 0 .. maxDepth, Far(b, d)
               PROVE  distance(b) = d
    OBVIOUS
  <2>1. PICK e : e = distance(b)
    OBVIOUS
  <2> HIDE DEF Far
  <2>2. e \in 0 .. maxDepth /\ Far(b, e)
    BY <2>1
  <2>3. d <= e /\ e <= d
    BY <1>4, <1>5, <2>2
  <2>4. QED
    BY <2>1, <2>2, <2>3
<1> HIDE DEF B, Far, found, distance
<1>13. {n \in all : n.depth <= maxDepth} = {DistanceRow(b, distance(b)) : b \in B(maxDepth)}
  <2>1. ASSUME NEW n \in all, n.depth <= maxDepth
        PROVE  \E b \in B(maxDepth) : n = DistanceRow(b, distance(b))
    <3>0. PICK d \in 0 .. (maxDepth + 1) : \E b : Far(b, d) /\ n = DistanceRow(b, d)
      BY <1>2, <1>9
    <3>1. PICK b : Far(b, d) /\ n = DistanceRow(b, d)
      BY <3>0
    <3>2. d \in 0 .. maxDepth
      BY <1>1, <1>8, <2>1, <3>1
    <3>3. b \in B(maxDepth)
      BY <1>5, <1>6, <3>1, <3>2
    <3>4. QED
      BY <1>12, <3>1, <3>2, <3>3
  <2>2. ASSUME NEW b \in B(maxDepth)
        PROVE  DistanceRow(b, distance(b)) \in all /\ DistanceRow(b, distance(b)).depth <= maxDepth
    <3>1. PICK d \in 0 .. maxDepth : Far(b, d)
      BY <1>1, <1>3
    <3>2. distance(b) = d /\ d \in 0 .. (maxDepth + 1) /\ d <= maxDepth
      BY <1>1, <1>12, <3>1
    <3>3. QED
      BY <1>2, <1>8, <1>9, <3>1, <3>2
  <2>3. QED
    BY <2>1, <2>2
<1>14. (\E n \in all : n.depth > maxDepth) <=> B(maxDepth + 1) # B(maxDepth)
  <2>1. ASSUME NEW n \in all, n.depth > maxDepth
        PROVE  B(maxDepth + 1) # B(maxDepth)
    <3>0. PICK d \in 0 .. (maxDepth + 1) : \E b : Far(b, d) /\ n = DistanceRow(b, d)
      BY <1>2, <1>9
    <3>1. PICK b : Far(b, d) /\ n = DistanceRow(b, d)
      BY <3>0
    <3>2. d = maxDepth + 1 /\ d > 0 /\ d - 1 = maxDepth /\ d \in Nat
      BY <1>1, <1>8, <2>1, <3>1
    <3>3. QED
      BY <1>5, <3>1, <3>2
  <2>2. ASSUME B(maxDepth + 1) # B(maxDepth)
        PROVE  \E n \in all : n.depth > maxDepth
    <3>1. PICK b \in B(maxDepth + 1) : b \notin B(maxDepth)
      BY <1>7, <2>2
    <3>2. PICK d \in 0 .. (maxDepth + 1) : Far(b, d)
      BY <1>1, <1>3
    <3>3. d \notin 0 .. maxDepth
      BY <1>5, <1>6, <3>1, <3>2
    <3>4. d > maxDepth
      BY <1>1, <3>3
    <3>5. QED
      BY <1>2, <1>8, <1>9, <3>2, <3>4
  <2>3. QED
    BY <2>1, <2>2
<1>15. PICK cut \in BOOLEAN : cut = \E n \in all : n.depth > maxDepth
  OBVIOUS
<1>16. cut = (B(maxDepth + 1) # B(maxDepth))
  BY <1>14, <1>15
<1>17. QED
  BY <1>10, <1>11, <1>13, <1>15, <1>16, Zenon
=============================================================================
