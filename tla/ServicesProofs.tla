---------------------------- MODULE ServicesProofs ----------------------------
(***************************************************************************)
(* Three services that share nothing: the embedding provider, whose        *)
(* callers read fields without a lock; the artifact graph, whose snapshots *)
(* replacements of one scope leave whole; and the planning writes, whose   *)
(* rows keep their identity whatever the order of two first writers.  Each *)
(* has an inductive invariant, for any number of clients and requests.     *)
(***************************************************************************)
EXTENDS ProviderLifecycle, ArtifactGraph, PlanningWrites, GraphTraceProofs,
        FiniteSetTheorems, SequenceTheorems, TLAPS

-----------------------------------------------------------------------------
(*                          The embedding provider                         *)
-----------------------------------------------------------------------------

\* The initialization is over before the state is decided, and runs once.
Once ==
    /\ init = "idle" <=> scheduled = FALSE
    /\ state # "INITIALIZING" => init = "over"

\* Until the shutdown begins, each field is set when the next one is written.
Published ==
    destroy = "idle" =>
        /\ init = "publishing set" => model = TRUE
        /\ init = "publishing state" => model = TRUE /\ set = TRUE
        /\ state = "READY" => model = TRUE /\ set = TRUE

\* READY is never taken back, so a caller behind the gate may rely on it.
BehindTheGate ==
    \A c \in Callers : pc[c] \notin {"idle", "gate"} => state = "READY"

Inv == TypeOK /\ Once /\ Published /\ BehindTheGate

-----------------------------------------------------------------------------
\* The invariant holds at the start.
LEMMA InitInv == Init => Inv
BY DEF Init, Inv, TypeOK, Once, Published, BehindTheGate

\* The steps of the initialization and of the shutdown keep the invariant.
LEMMA ProviderStep ==
    ASSUME Inv, ScheduleInitialization \/ Initialize \/ Destroy
    PROVE  Inv'
<1> USE DEF Inv, TypeOK, Once, Published, BehindTheGate, fields
<1>1. CASE ScheduleInitialization
  BY <1>1 DEF ScheduleInitialization
<1>2. CASE StartInitialization \/ FinishLoading \/ LoadingFails \/ LoadingDies
  BY <1>2 DEF StartInitialization, FinishLoading, LoadingFails, LoadingDies
<1>3. CASE PublishModel \/ PublishSet \/ PublishState
  BY <1>3 DEF PublishModel, PublishSet, PublishState
<1>4. CASE ClearModel \/ ClearSet \/ BecomeUnavailable
  BY <1>4 DEF ClearModel, ClearSet, BecomeUnavailable
<1>5. CASE Destroy
  BY <1>5 DEF Destroy, DestroyModel, DestroySet, StopExecutor
<1> QED
  BY <1>1, <1>2, <1>3, <1>4, <1>5 DEF Initialize

\* Callers only read: they move within their code, and no further than the
\* gate unless they have seen READY.
Reads(c) ==
    /\ UNCHANGED <<fields, scheduled, init, destroy>>
    /\ \E at \in {"idle", "gate", "target", "second gate", "second target",
                  "embed", "model", "inference", "tag", "explaining"} :
          /\ pc' = [pc EXCEPT ![c] = at]
          /\ at \notin {"idle", "gate"} => state = "READY"
    /\ \/ outcome' = outcome
       \/ \E how \in {"used", "returned", "charged", "unavailable"} :
             outcome' = [outcome EXCEPT ![c] = how]

\* A step of a caller only reads the three fields.
LEMMA CallReads ==
    ASSUME Inv, NEW c \in Callers, Call(c)
    PROVE  Reads(c)
<1> USE DEF Inv, BehindTheGate, Reads, Goto, End
<1>1. CASE Ask(c)
  BY <1>1 DEF Ask
<1>2. CASE CheckState(c)
  BY <1>2 DEF CheckState, Return
<1>3. CASE CheckTarget(c)
  BY <1>3 DEF CheckTarget, Return
<1>4. CASE Embed(c) \/ TakeModel(c)
  BY <1>4 DEF Embed, TakeModel, Refuse
<1>5. CASE InferenceSucceeds(c) \/ InferenceFails(c)
  BY <1>5 DEF InferenceSucceeds, InferenceFails, Refuse
<1>6. CASE Tag(c) \/ Explain(c)
  BY <1>6 DEF Tag, Explain, Return
<1> QED
  BY <1>1, <1>2, <1>3, <1>4, <1>5, <1>6 DEF Call

\* A step of a caller keeps the invariant.
LEMMA CallerStep ==
    ASSUME Inv, NEW c \in Callers, Call(c)
    PROVE  Inv'
<1>1. Reads(c)
  BY CallReads
<1>2. TypeOK'
  <2>1. /\ UNCHANGED <<state, model, set, scheduled, init, destroy>>
        /\ TypeOK
    BY <1>1 DEF Inv, Reads, fields
  <2>2. pc' \in [Callers -> {"idle", "gate", "target", "second gate", "second target",
                     "embed", "model", "inference", "tag", "explaining"}]
    BY <1>1, <2>1 DEF TypeOK, Reads
  <2>3. outcome' \in [Callers -> {"none", "used", "returned", "charged", "unavailable"}]
    BY <1>1, <2>1 DEF TypeOK, Reads
  <2> QED
    BY <2>1, <2>2, <2>3 DEF TypeOK
<1>3. Once' /\ Published'
  BY <1>1 DEF Inv, Once, Published, Reads, fields
<1>4. BehindTheGate'
  BY <1>1 DEF Inv, TypeOK, BehindTheGate, Reads, fields
<1> QED
  BY <1>2, <1>3, <1>4 DEF Inv

\* Every step keeps the invariant.
LEMMA NextInv == Inv /\ [Next]_vars => Inv'
<1> SUFFICES ASSUME Inv, [Next]_vars PROVE Inv'
  OBVIOUS
<1>1. CASE UNCHANGED vars
  BY <1>1 DEF vars, fields, Inv, TypeOK, Once, Published, BehindTheGate
<1>2. CASE ScheduleInitialization \/ Initialize \/ Destroy
  BY <1>2, ProviderStep
<1>3. ASSUME NEW c \in Callers, Call(c) PROVE Inv'
  BY <1>3, CallerStep
<1> QED
  BY <1>1, <1>2, <1>3 DEF Next

\* The inductive invariant holds in every reachable state.
THEOREM InvariantHolds == Spec => []Inv
BY InitInv, NextInv, PTL DEF Spec

\* Every variable keeps its type.
THEOREM TypeCorrect == Spec => []TypeOK
<1>1. Inv => TypeOK
  BY DEF Inv
<1> QED
  BY <1>1, InvariantHolds, PTL

\* The provider is READY or UNAVAILABLE once and for all, though the ready
\* event may be delivered again and the shutdown may come at any time.
THEOREM DecidedOnce == Spec => StateIsDecidedOnce
<1>1. Inv /\ [Next]_vars => [state # "INITIALIZING" => state' = state]_vars
  <2> SUFFICES ASSUME Inv, Next, state # "INITIALIZING" PROVE state' = state
    BY DEF vars
  <2>1. init = "over" /\ scheduled = TRUE
    BY DEF Inv, TypeOK, Once
  <2>2. CASE ScheduleInitialization \/ Destroy
    BY <2>2 DEF ScheduleInitialization, Destroy, DestroyModel, DestroySet, StopExecutor,
                fields
  <2>3. CASE Initialize
    BY <2>1, <2>3 DEF Initialize, StartInitialization, FinishLoading, LoadingFails,
                      LoadingDies, PublishModel, PublishSet, PublishState, ClearModel,
                      ClearSet, BecomeUnavailable
  <2>4. ASSUME NEW c \in Callers, Call(c) PROVE state' = state
    BY <2>4, CallReads DEF Reads, fields
  <2> QED
    BY <2>2, <2>3, <2>4 DEF Next
<1> QED
  BY <1>1, InvariantHolds, PTL DEF Spec, StateIsDecidedOnce

-----------------------------------------------------------------------------
\* The conclusion of GatePromisesTheProvider, for one caller.
Promised(c) ==
    /\ pc[c] \in {"target", "second gate", "second target", "embed", "model", "tag"}
    /\ pc'[c] \in {"idle", "explaining"} /\ outcome'[c] # "used"
    => destroy # "idle"

\* Behind the gate, before the shutdown, nobody is turned away.
LEMMA PromiseIsKept ==
    ASSUME Inv, NEW c \in Callers, Call(c), destroy = "idle",
           pc[c] \in {"target", "second gate", "second target", "embed", "model", "tag"}
    PROVE  ~(pc'[c] \in {"idle", "explaining"} /\ outcome'[c] # "used")
<1>1. state = "READY" /\ model = TRUE /\ set = TRUE
  BY DEF Inv, Published, BehindTheGate
<1>2. TypeOK
  BY DEF Inv
<1>3. CASE CheckState(c)
  BY <1>1, <1>2, <1>3 DEF CheckState, Goto, TypeOK
<1>4. CASE CheckTarget(c)
  BY <1>1, <1>2, <1>4 DEF CheckTarget, Goto, TypeOK
<1>5. CASE Embed(c) \/ TakeModel(c)
  BY <1>1, <1>2, <1>5 DEF Embed, TakeModel, Goto, TypeOK
<1>6. CASE Tag(c)
  BY <1>1, <1>2, <1>6 DEF Tag, End, TypeOK
<1>7. CASE Ask(c) \/ InferenceSucceeds(c) \/ InferenceFails(c) \/ Explain(c)
  BY <1>7 DEF Ask, InferenceSucceeds, InferenceFails, Explain
<1> QED
  BY <1>3, <1>4, <1>5, <1>6, <1>7 DEF Call

\* Nobody who has seen READY is turned away before the shutdown begins, except
\* by an inference that fails: the three fields need no lock.
THEOREM GateKeepsItsPromise == Spec => GatePromisesTheProvider
<1>1. Inv => TypeOK
  BY DEF Inv
<1>2. Inv /\ [Next]_vars => [\A c \in Callers : Promised(c)]_vars
  <2> SUFFICES ASSUME Inv, Next, NEW c \in Callers, destroy = "idle",
               pc[c] \in {"target", "second gate", "second target", "embed", "model", "tag"}
      PROVE  ~(pc'[c] \in {"idle", "explaining"} /\ outcome'[c] # "used")
    BY DEF vars, Promised
  <2>1. CASE ScheduleInitialization \/ Initialize \/ Destroy
    BY <2>1 DEF ScheduleInitialization, Destroy, DestroyModel, DestroySet, StopExecutor,
                Initialize, StartInitialization, FinishLoading, LoadingFails, LoadingDies,
                PublishModel, PublishSet, PublishState, ClearModel, ClearSet,
                BecomeUnavailable
  <2>2. ASSUME NEW d \in Callers, Call(d), d # c
        PROVE  ~(pc'[c] \in {"idle", "explaining"} /\ outcome'[c] # "used")
    BY <2>2, CallReads DEF Reads, Inv, TypeOK
  <2>3. CASE Call(c)
    BY <2>3, PromiseIsKept
  <2> QED
    BY <2>1, <2>2, <2>3 DEF Next
<1> QED
  BY <1>1, <1>2, InvariantHolds, PTL DEF Spec, GatePromisesTheProvider, Promised

-----------------------------------------------------------------------------
(*                            The artifact graph                           *)
-----------------------------------------------------------------------------
(* The inductive invariant                                                 *)

ReplacerFunctions ==
    /\ phase = [c \in Replacers |-> phase[c]]
    /\ current = [c \in Replacers |-> current[c]]
    /\ seen = [c \in Replacers |-> seen[c]]
    /\ newNodes = [c \in Replacers |-> newNodes[c]]
    /\ overlapped = [c \in Replacers |-> overlapped[c]]
    /\ ended = [c \in Replacers |-> ended[c]]
    /\ trace = [r \in Readers |-> trace[r]]

Submissions == submitted \in Seq(Bodies) /\ Len(submitted) <= MaxReplacements

\* Every stored node belongs to a valid snapshot that is stored as a whole, and
\* every edge to the snapshot of some stored node.
NodesAreSound ==
    /\ nodes \subseteq Node
    /\ \A a, b \in nodes : Clash(a, b) => a = b
    /\ \A row \in nodes :
          /\ row.snapshot \in 1 .. Len(submitted)
          /\ ValidSnapshot(submitted[row.snapshot])
          /\ row \in SnapshotRows(submitted[row.snapshot], row.snapshot)
          /\ SnapshotRows(submitted[row.snapshot], row.snapshot) \subseteq nodes
          /\ submitted[row.snapshot].edges \subseteq edges
    /\ \A e \in edges : \E row \in nodes : e \in submitted[row.snapshot].edges

\* A row of a snapshot, and the first k of them.
RowAt(body, number, i) ==
    [id |-> body.nodes[i].id, key |-> body.nodes[i].key, scope |-> body.scope,
     snapshot |-> number]

FirstRows(body, number, k) == {RowAt(body, number, i) : i \in 1 .. k}

AreFirstRows(rows, body, number, k) ==
    /\ IsFiniteSet(rows) /\ Cardinality(rows) = k
    /\ rows = FirstRows(body, number, k)

ReplacerTyped(c) ==
    /\ phase[c] \in {"idle", "deleting", "inserting"}
    /\ current[c] \in 0 .. Len(submitted)
    /\ seen[c] \subseteq Node /\ newNodes[c] \subseteq Node
    /\ overlapped[c] \in BOOLEAN
    /\ ended[c] \in {"none", "ok", "invalid", "constraint", "deadlock", "interrupted"}

\* What a DELETE has seen: whole snapshots of the scope, none of them its own; all of
\* the scope when nobody else replaces it.
SeenSound(c) ==
    /\ current[c] \in 1 .. Len(submitted) /\ ValidSnapshot(Body(c))
    /\ \A row \in seen[c] : row.scope = Body(c).scope /\ row.snapshot \in 1 .. Len(submitted)
    /\ \A row \in nodes \cup seen[c] : row.snapshot # current[c]
    /\ \A a \in seen[c] \cap nodes, b \in nodes : a.snapshot = b.snapshot => b \in seen[c]
    /\ ~overlapped[c] => \A row \in nodes : row.scope = Body(c).scope => row \in seen[c]

\* What is inserted: the first rows of the body, free of clashes with what stays.
InsertsSound(c) ==
    /\ seen[c] \subseteq nodes
    /\ IsFiniteSet(newNodes[c])
    /\ Cardinality(newNodes[c]) \in 0 .. Len(Body(c).nodes)
    /\ newNodes[c] = FirstRows(Body(c), current[c], Cardinality(newNodes[c]))
    /\ \A a \in newNodes[c], b \in nodes \ seen[c] : ~Clash(a, b)

ReplacerSound(c) ==
    /\ ReplacerTyped(c)
    /\ phase[c] = "idle" => seen[c] = {}
    /\ phase[c] # "inserting" => newNodes[c] = {}
    /\ phase[c] # "idle" => SeenSound(c) /\ ended[c] = "none"
    /\ phase[c] = "inserting" => InsertsSound(c)

\* Two open replacements keep out of each other's way.
Disjoint(c, d) ==
    phase[c] # "idle" /\ phase[d] # "idle" =>
        /\ current[c] # current[d]
        /\ \A row \in seen[c] : row.snapshot # current[d]
        /\ Body(c).scope = Body(d).scope => overlapped[c]
        /\ phase[c] = "inserting" /\ phase[d] = "inserting" => seen[c] \cap seen[d] = {}
        /\ \A a \in newNodes[c], b \in newNodes[d] : ~Clash(a, b)

TraceSound(r) ==
    /\ DOMAIN trace[r] = DOMAIN NoTrace
    /\ trace[r].at \in {"idle", "walking", "collecting"} /\ trace[r].query \in Queries

GraphInv ==
    /\ ReplacerFunctions /\ Submissions /\ NodesAreSound
    /\ \A c \in Replacers : ReplacerSound(c)
    /\ \A c, d \in Replacers : c # d => Disjoint(c, d)
    /\ \A r \in Readers : TraceSound(r)

-----------------------------------------------------------------------------
(* Snapshots                                                               *)

\* The rows of a valid snapshot differ in id and in key.
LEMMA ValidRowsDiffer ==
    ASSUME NEW body \in Bodies, ValidSnapshot(body),
           NEW i \in 1 .. Len(body.nodes), NEW j \in 1 .. Len(body.nodes),
           body.nodes[i].id = body.nodes[j].id \/ body.nodes[i].key = body.nodes[j].key
    PROVE  i = j
<1>1. body.nodes \in Seq(ToSet(body.nodes))
  BY GraphAssumption
<1>2. PICK n \in Nat : n = Len(body.nodes)
  BY <1>1, LenProperties
<1>3. IsFiniteSet(1 .. n) /\ Cardinality(1 .. n) = n
  <2>1. 1 \in Int /\ n \in Int
    OBVIOUS
  <2>2. /\ IsFiniteSet(1 .. n)
        /\ Cardinality(1 .. n) = IF 1 > n THEN 0 ELSE n - 1 + 1
    BY <2>1, FS_Interval, Zenon
  <2>3. (IF 1 > n THEN 0 ELSE n - 1 + 1) = n
    OBVIOUS
  <2>4. QED
    BY <2>2, <2>3
<1>4. ToSet(body.nodes) = {body.nodes[k] : k \in 1 .. n}
  BY <1>1, <1>2 DEF ToSet
<1>5. CASE body.nodes[i].id = body.nodes[j].id
  <2> DEFINE f == [k \in 1 .. n |-> body.nodes[k].id]
  <2>1. f \in Surjection(1 .. n, IdsOf(ToSet(body.nodes)))
    BY <1>4 DEF Surjection, IdsOf
  <2>2. Cardinality(IdsOf(ToSet(body.nodes))) = n
    BY <1>2 DEF ValidSnapshot
  <2>3. f \in Injection(1 .. n, IdsOf(ToSet(body.nodes)))
    BY <1>3, <2>1, <2>2, FS_Surjection
  <2>4. f[i] = f[j] /\ i \in 1 .. n /\ j \in 1 .. n
    BY <1>2, <1>5
  <2> HIDE DEF f
  <2>5. QED
    BY <2>3, <2>4 DEF Injection, IsInjective
<1>6. CASE body.nodes[i].key = body.nodes[j].key
  <2> DEFINE f == [k \in 1 .. n |-> body.nodes[k].key]
             keys == {row.key : row \in ToSet(body.nodes)}
  <2>1. f \in Surjection(1 .. n, keys)
    BY <1>4 DEF Surjection
  <2>2. Cardinality(keys) = n
    BY <1>2 DEF ValidSnapshot
  <2>3. f \in Injection(1 .. n, keys)
    BY <1>3, <2>1, <2>2, FS_Surjection
  <2>4. f[i] = f[j] /\ i \in 1 .. n /\ j \in 1 .. n
    BY <1>2, <1>6
  <2> HIDE DEF f
  <2>5. QED
    BY <2>3, <2>4 DEF Injection, IsInjective
<1>7. QED
  BY <1>5, <1>6

\* All the rows of a snapshot.
LEMMA FirstRowsAreAll ==
    ASSUME NEW body \in Bodies, NEW number
    PROVE  FirstRows(body, number, Len(body.nodes)) = SnapshotRows(body, number)
<1>1. body.nodes \in Seq(ToSet(body.nodes))
  BY GraphAssumption
<1>2. ToSet(body.nodes) = {body.nodes[k] : k \in 1 .. Len(body.nodes)}
  BY <1>1 DEF ToSet
<1>3. QED
  BY <1>2 DEF FirstRows, RowAt, SnapshotRows

\* The rows of a valid snapshot do not clash.
LEMMA FirstRowsDiffer ==
    ASSUME NEW body \in Bodies, ValidSnapshot(body), NEW number,
           NEW a \in FirstRows(body, number, Len(body.nodes)),
           NEW b \in FirstRows(body, number, Len(body.nodes)), Clash(a, b)
    PROVE  a = b
<1>1. PICK i \in 1 .. Len(body.nodes) :
          a = RowAt(body, number, i)
  BY DEF FirstRows
<1>2. PICK j \in 1 .. Len(body.nodes) :
          b = RowAt(body, number, j)
  BY DEF FirstRows
<1>3. body.nodes[i].id = body.nodes[j].id \/ body.nodes[i].key = body.nodes[j].key
  BY <1>1, <1>2 DEF Clash, RowAt
<1>4. i = j
  BY <1>3, ValidRowsDiffer
<1>5. QED
  BY <1>1, <1>2, <1>4

\* The ends of a valid snapshot's edges are rows of it.
LEMMA EndsAreRows ==
    ASSUME NEW body, ValidSnapshot(body), NEW number, NEW e \in body.edges
    PROVE  \E a, b \in SnapshotRows(body, number) : a.id = e.from /\ b.id = e.to
<1> DEFINE new(row) == [id |-> row.id, key |-> row.key, scope |-> body.scope, snapshot |-> number]
<1>1. e.from \in IdsOf(ToSet(body.nodes)) /\ e.to \in IdsOf(ToSet(body.nodes))
  BY DEF ValidSnapshot
<1>2. PICK v \in ToSet(body.nodes), w \in ToSet(body.nodes) : v.id = e.from /\ w.id = e.to
  BY <1>1 DEF IdsOf
<1>3. new(v) \in SnapshotRows(body, number) /\ new(w) \in SnapshotRows(body, number)
  BY DEF SnapshotRows
<1>4. new(v).id = e.from /\ new(w).id = e.to
  BY <1>2
<1>5. QED
  BY <1>3, <1>4

\* One more row is a row more.
LEMMA OneMoreRow ==
    ASSUME NEW body \in Bodies, ValidSnapshot(body), NEW number, NEW k \in Nat,
           k < Len(body.nodes), NEW rows, AreFirstRows(rows, body, number, k)
    PROVE  AreFirstRows(rows \cup {RowAt(body, number, k + 1)}, body, number, k + 1)
<1> DEFINE row == RowAt(body, number, k + 1)
<1>1. PICK n \in Nat : n = Len(body.nodes)
  BY GraphAssumption, LenProperties
<1>2. k < n
  BY <1>1
<1>3. k + 1 \in 1 .. n /\ \A i \in 1 .. k : i \in 1 .. n /\ i # k + 1
  BY <1>1, <1>2
<1>4. \A m \in Nat : (1 .. m) \cup {m + 1} = 1 .. (m + 1)
  OBVIOUS
<1>5. row \notin rows
  <2> SUFFICES ASSUME row \in rows
               PROVE  FALSE
    OBVIOUS
  <2>1. PICK i \in 1 .. k : row.id = body.nodes[i].id
    BY DEF FirstRows, RowAt, AreFirstRows
  <2>2. row.id = body.nodes[k + 1].id
    BY DEF RowAt
  <2>3. i \in 1 .. Len(body.nodes) /\ k + 1 \in 1 .. Len(body.nodes) /\ i # k + 1
    BY <1>1, <1>3
  <2>4. body.nodes[i].id = body.nodes[k + 1].id
    BY <2>1, <2>2
  <2>5. QED
    BY <2>3, <2>4, ValidRowsDiffer
<1>6. IsFiniteSet(rows \cup {row}) /\ Cardinality(rows \cup {row}) = k + 1
  BY <1>5, FS_AddElement DEF AreFirstRows
<1>7. rows \cup {row} = FirstRows(body, number, k + 1)
  <2>1. 1 .. (k + 1) = (1 .. k) \cup {k + 1}
    BY <1>4
  <2>2. QED
    BY <2>1 DEF FirstRows, AreFirstRows
<1>8. QED
  BY <1>6, <1>7 DEF AreFirstRows

\* The next row of a request has its types.
LEMMA FirstRowsAreNodes ==
    ASSUME NEW body \in Bodies, NEW i \in 1 .. Len(body.nodes),
           NEW number \in 1 .. MaxReplacements
    PROVE  RowAt(body, number, i) \in Node
<1>1. body.nodes \in Seq(ToSet(body.nodes)) /\ body.scope \in Scopes
  BY GraphAssumption
<1>2. body.nodes[i] \in ToSet(body.nodes)
  BY <1>1
<1>3. body.nodes[i] \in UNION {ToSet(b.nodes) : b \in Bodies}
  BY <1>2
<1>4. QED
  BY <1>1, <1>3 DEF Node, RowAt

-----------------------------------------------------------------------------
(* What a step leaves as it was                                            *)

\* Requests are only added.
LongerSubmissions ==
    /\ 0 .. Len(submitted) \subseteq 0 .. Len(submitted')
    /\ 1 .. Len(submitted) \subseteq 1 .. Len(submitted')
    /\ \A i \in 1 .. Len(submitted) : submitted'[i] = submitted[i]

SameReplacer(d) ==
    /\ phase'[d] = phase[d] /\ current'[d] = current[d]
    /\ seen'[d] = seen[d] /\ newNodes'[d] = newNodes[d]
    /\ overlapped'[d] \in BOOLEAN /\ (overlapped[d] => overlapped'[d])
    /\ ended'[d] = ended[d]

\* A request stays what it was.
LEMMA SameBody ==
    ASSUME NEW d \in Replacers, SeenSound(d), LongerSubmissions, SameReplacer(d)
    PROVE  Body(d)' = Body(d)
BY DEF Body, SeenSound, LongerSubmissions, SameReplacer

\* A replacer that does not move stays sound while others only add requests.
LEMMA ReplacerIsKept ==
    ASSUME NEW d \in Replacers, ReplacerSound(d), LongerSubmissions, SameReplacer(d),
           nodes' = nodes
    PROVE  ReplacerSound(d)'
<1>1. ReplacerTyped(d)'
  BY DEF ReplacerSound, ReplacerTyped, LongerSubmissions, SameReplacer
<1>2. phase[d] # "idle" => SeenSound(d)'
  <2> SUFFICES ASSUME SeenSound(d)
               PROVE  SeenSound(d)'
    BY DEF ReplacerSound
  <2>1. Body(d)' = Body(d)
    BY SameBody
  <2>2. QED
    BY <2>1 DEF SeenSound, LongerSubmissions, SameReplacer
<1>3. phase[d] = "inserting" => InsertsSound(d)'
  <2> SUFFICES ASSUME SeenSound(d), InsertsSound(d)
               PROVE  InsertsSound(d)'
    BY DEF ReplacerSound
  <2>1. Body(d)' = Body(d)
    BY SameBody
  <2>2. QED
    BY <2>1 DEF InsertsSound, SameReplacer
<1>4. QED
  BY <1>1, <1>2, <1>3 DEF ReplacerSound, SameReplacer

\* Nor do two such replacers get in each other's way.
LEMMA DisjointIsKept ==
    ASSUME NEW c \in Replacers, NEW d \in Replacers, ReplacerSound(c), ReplacerSound(d),
           LongerSubmissions, SameReplacer(c), SameReplacer(d), Disjoint(c, d)
    PROVE  Disjoint(c, d)'
<1> SUFFICES ASSUME SeenSound(c), SeenSound(d)
             PROVE  Disjoint(c, d)'
  BY DEF Disjoint, ReplacerSound, SameReplacer
<1>1. Body(c)' = Body(c) /\ Body(d)' = Body(d)
  BY SameBody
<1>2. QED
  BY <1>1 DEF Disjoint, SameReplacer

\* The stored nodes stay sound.
LEMMA NodesAreKept ==
    ASSUME NodesAreSound, LongerSubmissions, nodes' = nodes, edges' = edges
    PROVE  NodesAreSound'
<1>1. \A row \in nodes : submitted'[row.snapshot] = submitted[row.snapshot]
  BY DEF NodesAreSound, LongerSubmissions
<1>2. \A row \in nodes' : /\ row.snapshot \in 1 .. Len(submitted')
                          /\ ValidSnapshot(submitted'[row.snapshot])
                          /\ row \in SnapshotRows(submitted'[row.snapshot], row.snapshot)
                          /\ SnapshotRows(submitted'[row.snapshot], row.snapshot) \subseteq nodes'
                          /\ submitted'[row.snapshot].edges \subseteq edges'
  BY <1>1 DEF NodesAreSound, LongerSubmissions
<1>3. \A e \in edges' : \E row \in nodes' : e \in submitted'[row.snapshot].edges
  BY <1>1 DEF NodesAreSound
<1>4. nodes' \subseteq Node /\ \A a, b \in nodes' : Clash(a, b) => a = b
  BY DEF NodesAreSound
<1>5. QED
  BY <1>2, <1>3, <1>4 DEF NodesAreSound

\* A step in which one replacer moves and nothing else does.
LEMMA OneReplacer ==
    ASSUME GraphInv, NEW c \in Replacers,
           UNCHANGED <<nodes, edges, submitted, trace>>, ReplacerFunctions',
           \A d \in Replacers \ {c} : SameReplacer(d), ReplacerSound(c)',
           \A d \in Replacers \ {c} : Disjoint(c, d)' /\ Disjoint(d, c)'
    PROVE  GraphInv'
<1>1. LongerSubmissions
  BY DEF LongerSubmissions
<1>2. NodesAreSound'
  BY <1>1, NodesAreKept DEF GraphInv
<1>3. \A d \in Replacers : ReplacerSound(d)'
  BY <1>1, ReplacerIsKept DEF GraphInv
<1>4. ASSUME NEW b \in Replacers, NEW d \in Replacers, b # d
      PROVE  Disjoint(b, d)'
  <2>1. CASE b = c
    BY <1>4, <2>1
  <2>2. CASE d = c
    BY <1>4, <2>2
  <2>3. CASE b # c /\ d # c
    <3>1. SameReplacer(b) /\ SameReplacer(d) /\ Disjoint(b, d)
          /\ ReplacerSound(b) /\ ReplacerSound(d)
      BY <1>4, <2>3 DEF GraphInv
    <3>2. QED
      BY <1>1, <3>1, DisjointIsKept
  <2>4. QED
    BY <2>1, <2>2, <2>3
<1>5. Submissions' /\ \A r \in Readers : TraceSound(r)'
  BY DEF GraphInv, Submissions, TraceSound
<1>6. QED
  BY <1>2, <1>3, <1>4, <1>5 DEF GraphInv

-----------------------------------------------------------------------------
(* The steps of a replacement                                              *)

\* Two rows clash in both directions or in none.
LEMMA ClashIsSymmetric == \A a, b : Clash(a, b) <=> Clash(b, a)
BY DEF Clash

\* A transaction that ends without a commit leaves the rest as it was.
LEMMA EndKeepsGraphInv ==
    ASSUME GraphInv, NEW c \in Replacers,
           NEW ending \in {"ok", "constraint", "deadlock", "interrupted"},
           EndReplacement(c, ending), UNCHANGED <<nodes, edges, trace>>
    PROVE  GraphInv'
<1>1. ReplacerFunctions'
  BY DEF GraphInv, ReplacerFunctions, EndReplacement
<1>2. \A d \in Replacers \ {c} : SameReplacer(d)
  BY DEF GraphInv, ReplacerSound, ReplacerTyped, ReplacerFunctions, EndReplacement, SameReplacer
<1>3. phase'[c] = "idle" /\ seen'[c] = {} /\ newNodes'[c] = {} /\ ended'[c] = ending
      /\ current'[c] = current[c] /\ overlapped'[c] = overlapped[c] /\ submitted' = submitted
  BY DEF GraphInv, ReplacerFunctions, EndReplacement
<1>4. ReplacerSound(c)'
  BY <1>3 DEF GraphInv, ReplacerSound, ReplacerTyped
<1>5. \A d \in Replacers \ {c} : Disjoint(c, d)' /\ Disjoint(d, c)'
  BY <1>3 DEF Disjoint
<1>6. QED
  BY <1>1, <1>2, <1>3, <1>4, <1>5, OneReplacer

\* A DELETE has waited for the rows that others were deleting.
LEMMA DeleteKeepsGraphInv ==
    ASSUME GraphInv, NEW c \in Replacers, DeleteScope(c)
    PROVE  GraphInv'
<1>1. ReplacerFunctions'
  BY DEF GraphInv, ReplacerFunctions, DeleteScope
<1>2. \A d \in Replacers \ {c} : SameReplacer(d)
  BY DEF GraphInv, ReplacerSound, ReplacerTyped, ReplacerFunctions, DeleteScope, SameReplacer
<1>3. phase'[c] = "inserting" /\ seen'[c] = seen[c] \cap nodes /\ newNodes'[c] = {}
      /\ current'[c] = current[c] /\ overlapped'[c] = overlapped[c] /\ ended'[c] = ended[c]
      /\ submitted' = submitted /\ nodes' = nodes
  BY DEF GraphInv, ReplacerFunctions, ReplacerSound, DeleteScope
<1>4. SeenSound(c) /\ ReplacerTyped(c) /\ Body(c)' = Body(c) /\ ended[c] = "none"
  BY <1>3 DEF GraphInv, ReplacerSound, DeleteScope, Body
<1>5. ReplacerSound(c)'
  <2>1. ReplacerTyped(c)'
    BY <1>3, <1>4 DEF ReplacerTyped
  <2>2. SeenSound(c)'
    BY <1>3, <1>4 DEF SeenSound
  <2>3. InsertsSound(c)'
    <3>1. IsFiniteSet({}) /\ Cardinality({}) = 0
      BY FS_EmptySet
    <3>2. FirstRows(Body(c), current[c], 0) = {}
      BY DEF FirstRows
    <3>3. Body(c).nodes \in Seq(ToSet(Body(c).nodes))
      BY <1>4, GraphAssumption DEF SeenSound, Body, GraphInv, Submissions
    <3>4. 0 \in 0 .. Len(Body(c).nodes)
      BY <3>3, LenProperties
    <3>5. QED
      BY <1>3, <1>4, <3>1, <3>2, <3>4 DEF InsertsSound
  <2>4. QED
    BY <1>3, <1>4, <2>1, <2>2, <2>3 DEF ReplacerSound
<1>6. ASSUME NEW d \in Replacers \ {c}
      PROVE  Disjoint(c, d)' /\ Disjoint(d, c)'
  <2>1. Disjoint(c, d) /\ Disjoint(d, c) /\ SameReplacer(d)
    BY <1>2 DEF GraphInv
  <2>2. phase[d] = "inserting" => seen[d] \cap seen[c] = {}
    BY DEF DeleteScope, Deleted
  <2>3. Body(d)' = Body(d)
    BY <1>3, <2>1 DEF Body, SameReplacer
  <2>4. QED
    BY <1>3, <1>4, <2>1, <2>2, <2>3 DEF Disjoint, SameReplacer, DeleteScope
<1>7. QED
  BY <1>1, <1>2, <1>5, <1>6, OneReplacer DEF DeleteScope

\* An INSERT has waited for the rows that others insert and delete, and found
\* no row that refuses its own.
LEMMA InsertKeepsGraphInv ==
    ASSUME GraphInv, NEW c \in Replacers, InsertNode(c)
    PROVE  GraphInv'
<1> DEFINE k == Cardinality(newNodes[c])
           row == NextRow(c)
<1>1. CASE EndReplacement(c, "constraint")
  BY <1>1, EndKeepsGraphInv DEF InsertNode
<1>2. CASE /\ \A r \in nodes \ seen[c] : ~Clash(NextRow(c), r)
           /\ newNodes' = [newNodes EXCEPT ![c] = @ \cup {NextRow(c)}]
           /\ UNCHANGED <<submitted, phase, current, seen, overlapped, ended>>
  <2>1. ReplacerFunctions' /\ UNCHANGED <<nodes, edges, submitted, trace>>
    BY <1>2 DEF GraphInv, ReplacerFunctions, InsertNode
  <2>2. \A d \in Replacers \ {c} : SameReplacer(d)
    BY <1>2 DEF GraphInv, ReplacerSound, ReplacerTyped, ReplacerFunctions, SameReplacer
  <2>3. newNodes'[c] = newNodes[c] \cup {row} /\ Body(c)' = Body(c)
    BY <1>2 DEF GraphInv, ReplacerFunctions, Body
  <2>4. phase[c] = "inserting" /\ SeenSound(c) /\ InsertsSound(c) /\ ReplacerTyped(c)
        /\ ended[c] = "none" /\ k < Len(Body(c).nodes)
    BY DEF InsertNode, GraphInv, ReplacerSound
  <2>5. Body(c) \in Bodies /\ ValidSnapshot(Body(c)) /\ current[c] \in 1 .. MaxReplacements
    <3>1. \A l, m, n \in Nat : l \in 1 .. m /\ m <= n => l \in 1 .. n
      OBVIOUS
    <3>2. Len(submitted) \in Nat /\ MaxReplacements \in Nat /\ current[c] \in Nat
      BY <2>4, GraphAssumption, LenProperties DEF GraphInv, Submissions, SeenSound
    <3>3. current[c] \in 1 .. MaxReplacements
      BY <2>4, <3>1, <3>2 DEF GraphInv, Submissions, SeenSound
    <3>4. QED
      BY <2>4, <3>3 DEF GraphInv, Submissions, SeenSound, Body
  <2>6. PICK n \in Nat : n = Len(Body(c).nodes)
    BY <2>5, GraphAssumption, LenProperties
  <2>7. k \in Nat /\ k < n /\ k + 1 \in 1 .. n /\ k + 1 \in 0 .. n
    BY <2>4, <2>6 DEF InsertsSound
  <2>8. row = RowAt(Body(c), current[c], k + 1)
    BY DEF NextRow, RowAt
  <2>9. newNodes[c] = FirstRows(Body(c), current[c], k) /\ IsFiniteSet(newNodes[c])
    BY <2>4 DEF InsertsSound
  <2> HIDE DEF row, k
  <2>10. /\ IsFiniteSet(newNodes[c] \cup {row}) /\ Cardinality(newNodes[c] \cup {row}) = k + 1
         /\ newNodes[c] \cup {row} = FirstRows(Body(c), current[c], k + 1)
    <3>1. Cardinality(newNodes[c]) = k
      BY DEF k
    <3>2. k < Len(Body(c).nodes)
      BY <2>6, <2>7
    <3>3. AreFirstRows(newNodes[c], Body(c), current[c], k)
      BY <2>9, <3>1 DEF AreFirstRows
    <3>4. AreFirstRows(newNodes[c] \cup {row}, Body(c), current[c], k + 1)
      BY <2>5, <2>7, <2>8, <3>2, <3>3, OneMoreRow
    <3>5. QED
      BY <3>4 DEF AreFirstRows
  <2>11. row \in Node
    BY <2>5, <2>6, <2>7, <2>8, FirstRowsAreNodes
  <2>12. ReplacerSound(c)'
    <3>1. ReplacerTyped(c)'
      BY <1>2, <2>3, <2>4, <2>11 DEF ReplacerTyped
    <3>2. SeenSound(c)'
      BY <1>2, <2>1, <2>3, <2>4 DEF SeenSound
    <3>3. InsertsSound(c)'
      <4>1. seen'[c] \subseteq nodes'
        BY <1>2, <2>1, <2>4 DEF InsertsSound
      <4>2. \A a \in newNodes'[c], b \in nodes' \ seen'[c] : ~Clash(a, b)
        BY <1>2, <2>1, <2>3, <2>4 DEF InsertsSound, row
      <4>3. IsFiniteSet(newNodes'[c]) /\ Cardinality(newNodes'[c]) = k + 1
        BY <2>3, <2>10
      <4>4. newNodes'[c] = FirstRows(Body(c)', current'[c], Cardinality(newNodes'[c]))
        BY <1>2, <2>3, <2>10
      <4>5. Cardinality(newNodes'[c]) \in 0 .. Len(Body(c)'.nodes)
        BY <2>3, <2>6, <2>7, <4>3
      <4>6. QED
        BY <4>1, <4>2, <4>3, <4>4, <4>5 DEF InsertsSound
    <3>4. QED
      BY <1>2, <2>4, <3>1, <3>2, <3>3 DEF ReplacerSound
  <2>13. ASSUME NEW d \in Replacers \ {c}
         PROVE  Disjoint(c, d)' /\ Disjoint(d, c)'
    <3>1. Disjoint(c, d) /\ Disjoint(d, c) /\ SameReplacer(d)
      BY <2>2 DEF GraphInv
    <3>2. \A b \in newNodes[d] : ~Clash(row, b) /\ ~Clash(b, row)
      BY <2>4, ClashIsSymmetric DEF InsertNode, InsertWaitsFor, row, k
    <3>3. Body(d)' = Body(d)
      BY <2>1, <3>1 DEF Body, SameReplacer
    <3>4. QED
      BY <1>2, <2>3, <3>1, <3>2, <3>3 DEF Disjoint, SameReplacer
  <2>14. QED
    BY <2>1, <2>2, <2>12, <2>13, OneReplacer
<1>3. QED
  BY <1>1, <1>2 DEF InsertNode

\* A new request comes after all others: an invalid one writes nothing, and the
\* DELETE of a valid one sees its scope as it is stored.
LEMMA AskKeepsGraphInv ==
    ASSUME GraphInv, NEW c \in Replacers, NEW body \in Bodies, AskToReplace(c, body)
    PROVE  GraphInv'
<1>1. PICK n \in Nat : n = Len(submitted)
  BY LenProperties DEF GraphInv, Submissions
<1>2. submitted' = Append(submitted, body) /\ submitted' \in Seq(Bodies)
      /\ Len(submitted') = n + 1 /\ submitted'[n + 1] = body
      /\ \A i \in 1 .. n : submitted'[i] = submitted[i]
  BY <1>1, AppendProperties DEF GraphInv, Submissions, AskToReplace
<1>3. n + 1 <= MaxReplacements
  <2>1. \A m \in Nat : n < m => n + 1 <= m
    OBVIOUS
  <2>2. n < MaxReplacements
    BY <1>1 DEF AskToReplace
  <2>3. QED
    BY <2>1, <2>2, GraphAssumption
<1>4. 0 .. n \subseteq 0 .. (n + 1) /\ 1 .. n \subseteq 1 .. (n + 1) /\ n + 1 \in 1 .. (n + 1)
      /\ n + 1 \in 0 .. (n + 1) /\ n + 1 \notin 1 .. n
  OBVIOUS
<1>5. LongerSubmissions /\ Submissions'
  BY <1>1, <1>2, <1>3, <1>4 DEF LongerSubmissions, Submissions
<1>6. nodes' = nodes /\ edges' = edges /\ newNodes' = newNodes /\ trace' = trace
      /\ phase[c] = "idle" /\ newNodes[c] = {}
  BY DEF AskToReplace, GraphInv, ReplacerSound
<1>7. ReplacerFunctions'
  BY DEF GraphInv, ReplacerFunctions, AskToReplace
<1>8. current'[c] = n + 1 /\ newNodes'[c] = {} /\ Body(c)' = body
  BY <1>2, <1>6 DEF GraphInv, ReplacerFunctions, AskToReplace, Body
<1>9. ASSUME NEW d \in Replacers \ {c}
      PROVE  SameReplacer(d)
  <2>1. current'[d] = current[d] /\ phase'[d] = phase[d] /\ seen'[d] = seen[d]
        /\ newNodes'[d] = newNodes[d] /\ ended'[d] = ended[d]
    BY DEF GraphInv, ReplacerFunctions, AskToReplace
  <2>2. overlapped[d] \in BOOLEAN
    BY DEF GraphInv, ReplacerSound, ReplacerTyped
  <2>3. overlapped'[d] = overlapped[d]
        \/ overlapped'[d] = (overlapped[d] \/ d \in Rivals(c, body.scope))
    BY DEF GraphInv, ReplacerFunctions, AskToReplace
  <2>4. overlapped'[d] \in BOOLEAN /\ (overlapped[d] => overlapped'[d])
    BY <2>2, <2>3
  <2>5. QED
    BY <2>1, <2>4 DEF SameReplacer
<1>10. ASSUME NEW d \in Replacers \ {c}
       PROVE  ReplacerSound(d)'
  BY <1>5, <1>6, <1>9, ReplacerIsKept DEF GraphInv
<1>11. ASSUME NEW b \in Replacers \ {c}, NEW d \in Replacers \ {c}, b # d
       PROVE  Disjoint(b, d)'
  <2>1. SameReplacer(b) /\ SameReplacer(d) /\ Disjoint(b, d)
        /\ ReplacerSound(b) /\ ReplacerSound(d)
    BY <1>9, <1>11 DEF GraphInv
  <2>2. QED
    BY <1>5, <2>1, DisjointIsKept
<1>12. NodesAreSound'
  BY <1>5, <1>6, NodesAreKept DEF GraphInv
<1>13. \A r \in Readers : TraceSound(r)'
  BY <1>6 DEF GraphInv, TraceSound
<1>14. ReplacerSound(c)' /\ \A d \in Replacers \ {c} : Disjoint(c, d)' /\ Disjoint(d, c)'
  <2>1. CASE ValidSnapshot(body)
    <3>1. phase'[c] = "deleting" /\ seen'[c] = InScope(body.scope) /\ ended'[c] = "none"
          /\ overlapped'[c] = (Rivals(c, body.scope) # {})
      BY <2>1 DEF GraphInv, ReplacerFunctions, AskToReplace
    <3>2. overlapped'[c] \in BOOLEAN
      BY <3>1
    <3>3. \A row \in nodes : row \in Node /\ row.snapshot \in 1 .. n
                             /\ row.scope = submitted[row.snapshot].scope
      BY <1>1 DEF GraphInv, NodesAreSound, SnapshotRows
    <3>4. ReplacerTyped(c)'
      BY <1>2, <1>4, <1>8, <3>1, <3>2, <3>3 DEF ReplacerTyped, InScope
    <3>5. \A d \in Rivals(c, body.scope) : overlapped'[d]
      BY <2>1 DEF GraphInv, AskToReplace, Rivals
    <3>6. SeenSound(c)'
      <4>1. current'[c] \in 1 .. Len(submitted') /\ ValidSnapshot(Body(c)')
        BY <1>2, <1>4, <1>8, <2>1
      <4>2. \A row \in seen'[c] : row.scope = Body(c)'.scope /\ row.snapshot \in 1 .. Len(submitted')
        BY <1>2, <1>4, <1>8, <3>1, <3>3 DEF InScope
      <4>3. \A row \in nodes' \cup seen'[c] : row.snapshot # current'[c]
        BY <1>4, <1>6, <1>8, <3>1, <3>3 DEF InScope
      <4>4. \A a \in seen'[c] \cap nodes', b \in nodes' : a.snapshot = b.snapshot => b \in seen'[c]
        BY <1>6, <3>1, <3>3 DEF InScope
      <4>5. \A row \in nodes' : row.scope = Body(c)'.scope => row \in seen'[c]
        BY <1>6, <1>8, <3>1 DEF InScope
      <4>6. QED
        BY <4>1, <4>2, <4>3, <4>4, <4>5 DEF SeenSound
    <3>7. ReplacerSound(c)'
      BY <1>8, <3>1, <3>4, <3>6 DEF ReplacerSound
    <3>8. ASSUME NEW d \in Replacers \ {c}, phase'[d] # "idle"
          PROVE  /\ current'[c] # current'[d]
                 /\ \A row \in seen'[c] : row.snapshot # current'[d]
                 /\ \A row \in seen'[d] : row.snapshot # current'[c]
                 /\ Body(c)'.scope = Body(d)'.scope => overlapped'[c] /\ overlapped'[d]
      <4>1. SameReplacer(d) /\ SeenSound(d)
        BY <1>9, <3>8 DEF SameReplacer, GraphInv, ReplacerSound
      <4>2. Body(d)' = Body(d)
        BY <1>5, <4>1, SameBody
      <4>3. current'[d] \in 1 .. n /\ \A row \in seen'[d] : row.snapshot \in 1 .. n
        BY <1>1, <4>1 DEF SameReplacer, SeenSound
      <4>4. \A row \in seen'[c] : row.snapshot # current'[d]
        BY <3>1, <4>1 DEF InScope, SeenSound, SameReplacer
      <4>5. Body(c)'.scope = Body(d)'.scope => d \in Rivals(c, body.scope)
        BY <1>8, <3>8, <4>1, <4>2 DEF Rivals, SameReplacer
      <4>6. QED
        BY <1>4, <1>8, <3>1, <3>5, <4>3, <4>4, <4>5
    <3>9. QED
      BY <1>8, <3>1, <3>7, <3>8 DEF Disjoint
  <2>2. CASE ~ValidSnapshot(body)
    <3>1. phase'[c] = "idle" /\ ended'[c] = "invalid" /\ seen'[c] = seen[c]
          /\ overlapped'[c] = overlapped[c]
      BY <1>6, <2>2 DEF GraphInv, ReplacerFunctions, AskToReplace
    <3>2. QED
      BY <1>2, <1>4, <1>6, <1>8, <3>1
      DEF GraphInv, ReplacerSound, ReplacerTyped, Disjoint
  <2>3. QED
    BY <2>1, <2>2
<1>15. ASSUME NEW d \in Replacers
       PROVE  ReplacerSound(d)'
  BY <1>10, <1>14
<1>16. ASSUME NEW b \in Replacers, NEW d \in Replacers, b # d
       PROVE  Disjoint(b, d)'
  <2>1. CASE b = c
    BY <1>14, <1>16, <2>1
  <2>2. CASE d = c
    BY <1>14, <1>16, <2>2
  <2>3. CASE b # c /\ d # c
    BY <1>11, <1>16, <2>3
  <2>4. QED
    BY <2>1, <2>2, <2>3
<1>17. QED
  BY <1>5, <1>7, <1>12, <1>13, <1>15, <1>16 DEF GraphInv

\* A commit takes the seen snapshots, with their edges, and puts its own in.
LEMMA CommitKeepsNodes ==
    ASSUME GraphInv, NEW c \in Replacers, CommitReplacement(c)
    PROVE  NodesAreSound'
<1> DEFINE own == SnapshotRows(Body(c), current[c])
           left == nodes \ seen[c]
           lost(e) == e.from \in IdsOf(seen[c]) \/ e.to \in IdsOf(seen[c])
<1>1. SeenSound(c) /\ InsertsSound(c) /\ ReplacerTyped(c) /\ submitted' = submitted
  BY DEF CommitReplacement, EndReplacement, GraphInv, ReplacerSound
<1>2. Body(c) \in Bodies /\ ValidSnapshot(Body(c)) /\ current[c] \in 1 .. Len(submitted)
      /\ submitted[current[c]] = Body(c)
  BY <1>1 DEF GraphInv, Submissions, SeenSound, Body
<1>3. newNodes[c] = own /\ newNodes[c] = FirstRows(Body(c), current[c], Len(Body(c).nodes))
  BY <1>1, <1>2, FirstRowsAreAll DEF CommitReplacement, InsertsSound
<1>4. nodes' = left \cup own
  BY <1>3 DEF CommitReplacement
<1>5. edges' = {e \in edges : ~lost(e)} \cup Body(c).edges
  BY DEF CommitReplacement
<1>6. \A row \in own : row.snapshot = current[c]
  BY DEF SnapshotRows
<1>7. ASSUME NEW row \in left
      PROVE  SnapshotRows(submitted[row.snapshot], row.snapshot) \subseteq left
  <2> SUFFICES ASSUME NEW other \in SnapshotRows(submitted[row.snapshot], row.snapshot)
               PROVE  other \in left
    OBVIOUS
  <2>1. other \in nodes /\ other.snapshot = row.snapshot
    BY DEF GraphInv, NodesAreSound, SnapshotRows
  <2>2. other \notin seen[c]
    BY <1>1, <2>1 DEF SeenSound
  <2>3. QED
    BY <2>1, <2>2
<1>8. ASSUME NEW number, ValidSnapshot(submitted[number]), NEW e \in submitted[number].edges
      PROVE  \E a, b \in SnapshotRows(submitted[number], number) : a.id = e.from /\ b.id = e.to
  BY <1>8, EndsAreRows
<1>9. ASSUME NEW row \in left
      PROVE  submitted[row.snapshot].edges \subseteq edges'
  <2> SUFFICES ASSUME NEW e \in submitted[row.snapshot].edges
               PROVE  e \in edges'
    OBVIOUS
  <2>1. e \in edges /\ ValidSnapshot(submitted[row.snapshot])
    BY DEF GraphInv, NodesAreSound
  <2>2. PICK a \in left, b \in left : a.id = e.from /\ b.id = e.to
    BY <1>7, <1>8, <2>1
  <2>3. \A v \in left, w \in seen[c] : v.id # w.id
    BY <1>1 DEF GraphInv, NodesAreSound, InsertsSound, Clash
  <2>4. ~lost(e)
    BY <2>2, <2>3 DEF IdsOf
  <2>5. QED
    BY <1>5, <2>1, <2>4
<1>10. nodes' \subseteq Node
  BY <1>1, <1>3, <1>4 DEF GraphInv, NodesAreSound, ReplacerTyped
<1>11. ASSUME NEW a \in nodes', NEW b \in nodes', Clash(a, b)
       PROVE  a = b
  <2>1. CASE a \in left /\ b \in left
    BY <1>11, <2>1 DEF GraphInv, NodesAreSound
  <2>2. CASE a \in own /\ b \in left
    BY <1>1, <1>3, <1>11, <2>2 DEF InsertsSound
  <2>3. CASE a \in left /\ b \in own
    BY <1>1, <1>3, <1>11, <2>3, ClashIsSymmetric DEF InsertsSound
  <2>4. CASE a \in own /\ b \in own
    BY <1>2, <1>3, <1>11, <2>4, FirstRowsDiffer
  <2>5. QED
    BY <1>4, <1>11, <2>1, <2>2, <2>3, <2>4
<1>12. ASSUME NEW row \in nodes'
       PROVE  /\ row.snapshot \in 1 .. Len(submitted)
              /\ ValidSnapshot(submitted[row.snapshot])
              /\ row \in SnapshotRows(submitted[row.snapshot], row.snapshot)
              /\ SnapshotRows(submitted[row.snapshot], row.snapshot) \subseteq nodes'
              /\ submitted[row.snapshot].edges \subseteq edges'
  <2>1. CASE row \in own
    <3>1. row.snapshot = current[c]
      BY <1>6, <2>1
    <3>2. SnapshotRows(submitted[row.snapshot], row.snapshot) = own
          /\ submitted[row.snapshot] = Body(c)
      BY <1>2, <3>1
    <3>3. QED
      BY <1>2, <1>4, <1>5, <2>1, <3>1, <3>2
  <2>2. CASE row \in left
    BY <1>4, <1>7, <1>9, <2>2 DEF GraphInv, NodesAreSound
  <2>3. QED
    BY <1>4, <1>12, <2>1, <2>2
<1>13. ASSUME NEW e \in edges'
       PROVE  \E row \in nodes' : e \in submitted[row.snapshot].edges
  <2>1. CASE e \in Body(c).edges
    <3>1. PICK a \in own : a.id = e.from
      BY <1>2, <1>8, <2>1
    <3>2. submitted[a.snapshot] = Body(c) /\ a \in nodes'
      BY <1>2, <1>4, <1>6, <3>1
    <3>3. QED
      BY <2>1, <3>2
  <2>2. CASE e \in edges /\ ~lost(e)
    <3>1. PICK row \in nodes : e \in submitted[row.snapshot].edges
      BY <2>2 DEF GraphInv, NodesAreSound
    <3>2. ValidSnapshot(submitted[row.snapshot])
          /\ SnapshotRows(submitted[row.snapshot], row.snapshot) \subseteq nodes
      BY DEF GraphInv, NodesAreSound
    <3>3. PICK a \in SnapshotRows(submitted[row.snapshot], row.snapshot) : a.id = e.from
      BY <1>8, <3>1, <3>2
    <3>4. a \in nodes /\ a \notin seen[c] /\ a.snapshot = row.snapshot
      BY <2>2, <3>2, <3>3 DEF IdsOf, SnapshotRows
    <3>5. QED
      BY <1>4, <3>1, <3>4
  <2>3. QED
    BY <1>5, <1>13, <2>1, <2>2
<1>14. QED
  BY <1>1, <1>10, <1>11, <1>12, <1>13 DEF NodesAreSound

\* The others find their own snapshots as before, none of them in the new one.
LEMMA CommitKeepsReplacer ==
    ASSUME GraphInv, NEW c \in Replacers, CommitReplacement(c), NEW d \in Replacers \ {c}
    PROVE  ReplacerSound(d)' /\ SameReplacer(d)
<1>1. SameReplacer(d) /\ submitted' = submitted
  BY DEF GraphInv, ReplacerSound, ReplacerTyped, ReplacerFunctions, CommitReplacement,
         EndReplacement, SameReplacer
<1>2. Body(d)' = Body(d)
  BY <1>1 DEF Body, SameReplacer
<1>3. phase[c] = "inserting" /\ InsertsSound(c) /\ Disjoint(c, d) /\ Disjoint(d, c)
  BY DEF GraphInv, ReplacerSound, CommitReplacement
<1>4. nodes' = (nodes \ seen[c]) \cup newNodes[c]
  BY DEF CommitReplacement
<1>5. \A row \in newNodes[c] : row.snapshot = current[c] /\ row.scope = Body(c).scope
  BY <1>3 DEF InsertsSound, FirstRows, RowAt
<1>6. ReplacerTyped(d)'
  BY <1>1 DEF GraphInv, ReplacerSound, ReplacerTyped, SameReplacer
<1>7. phase[d] # "idle" => SeenSound(d)'
  <2> SUFFICES ASSUME phase[d] # "idle", SeenSound(d)
               PROVE  SeenSound(d)'
    BY DEF GraphInv, ReplacerSound
  <2>1. current[c] # current[d] /\ \A row \in seen[d] : row.snapshot # current[c]
    BY <1>3 DEF Disjoint
  <2>2. current'[d] \in 1 .. Len(submitted') /\ ValidSnapshot(Body(d)')
    BY <1>1, <1>2 DEF SeenSound, SameReplacer
  <2>3. \A row \in seen'[d] : row.scope = Body(d)'.scope /\ row.snapshot \in 1 .. Len(submitted')
    BY <1>1, <1>2 DEF SeenSound, SameReplacer
  <2>4. \A row \in nodes' \cup seen'[d] : row.snapshot # current'[d]
    BY <1>1, <1>4, <1>5, <2>1 DEF SeenSound, SameReplacer
  <2>5. \A a \in seen'[d] \cap nodes', b \in nodes' : a.snapshot = b.snapshot => b \in seen'[d]
    BY <1>1, <1>4, <1>5, <2>1 DEF SeenSound, SameReplacer
  <2>6. ~overlapped'[d] => \A row \in nodes' : row.scope = Body(d)'.scope => row \in seen'[d]
    BY <1>1, <1>2, <1>3, <1>4, <1>5 DEF SeenSound, SameReplacer, Disjoint
  <2>7. QED
    BY <2>2, <2>3, <2>4, <2>5, <2>6 DEF SeenSound
<1>8. phase[d] = "inserting" => InsertsSound(d)'
  <2> SUFFICES ASSUME phase[d] = "inserting", InsertsSound(d)
               PROVE  InsertsSound(d)'
    BY DEF GraphInv, ReplacerSound
  <2>1. seen'[d] \subseteq nodes'
    BY <1>1, <1>3, <1>4 DEF InsertsSound, SameReplacer, Disjoint
  <2>2. \A a \in newNodes'[d], b \in nodes' \ seen'[d] : ~Clash(a, b)
    BY <1>1, <1>3, <1>4 DEF InsertsSound, SameReplacer, Disjoint
  <2>3. QED
    BY <1>1, <1>2, <2>1, <2>2 DEF InsertsSound, SameReplacer
<1>9. QED
  BY <1>1, <1>6, <1>7, <1>8 DEF GraphInv, ReplacerSound, SameReplacer

\* A commit keeps the invariant.
LEMMA CommitKeepsGraphInv ==
    ASSUME GraphInv, NEW c \in Replacers, CommitReplacement(c)
    PROVE  GraphInv'
<1>1. NodesAreSound'
  BY CommitKeepsNodes
<1>2. ReplacerFunctions' /\ submitted' = submitted
  BY DEF GraphInv, ReplacerFunctions, CommitReplacement, EndReplacement
<1>3. phase'[c] = "idle" /\ seen'[c] = {} /\ newNodes'[c] = {} /\ ended'[c] = "ok"
      /\ current'[c] = current[c] /\ overlapped'[c] = overlapped[c]
  BY DEF GraphInv, ReplacerFunctions, CommitReplacement, EndReplacement
<1>4. ReplacerSound(c)'
  BY <1>2, <1>3 DEF GraphInv, ReplacerSound, ReplacerTyped
<1>5. \A d \in Replacers \ {c} : ReplacerSound(d)' /\ SameReplacer(d)
  BY CommitKeepsReplacer
<1>6. LongerSubmissions
  BY <1>2 DEF LongerSubmissions
<1>7. ASSUME NEW b \in Replacers, NEW d \in Replacers, b # d
      PROVE  Disjoint(b, d)'
  <2>1. CASE b = c \/ d = c
    BY <1>3, <2>1 DEF Disjoint
  <2>2. CASE b # c /\ d # c
    <3>1. SameReplacer(b) /\ SameReplacer(d) /\ Disjoint(b, d)
          /\ ReplacerSound(b) /\ ReplacerSound(d)
      BY <1>5, <1>7, <2>2 DEF GraphInv
    <3>2. QED
      BY <1>6, <3>1, DisjointIsKept
  <2>3. QED
    BY <2>1, <2>2
<1>8. Submissions'
  BY <1>2 DEF GraphInv, Submissions
<1>9. \A r \in Readers : TraceSound(r)'
  <2>1. trace' = [r \in Readers |-> [trace[r] EXCEPT !.fresh = FALSE]]
    BY DEF CommitReplacement
  <2>2. QED
    BY <2>1 DEF GraphInv, TraceSound, NoTrace
<1>10. \A d \in Replacers : ReplacerSound(d)'
  BY <1>4, <1>5
<1>11. QED
  BY <1>1, <1>2, <1>7, <1>8, <1>9, <1>10 DEF GraphInv

-----------------------------------------------------------------------------
(* The invariant                                                           *)

\* A step that changes only the traces, and those soundly, keeps the invariant.
LEMMA ReadersKeepGraphInv ==
    ASSUME GraphInv, UNCHANGED <<nodes, edges, replacing>>,
           trace' = [r \in Readers |-> trace'[r]], \A r \in Readers : TraceSound(r)'
    PROVE  GraphInv'
<1>1. UNCHANGED <<submitted, phase, current, seen, newNodes, overlapped, ended>>
  BY DEF replacing
<1>2. LongerSubmissions /\ ReplacerFunctions' /\ Submissions'
  BY <1>1 DEF GraphInv, LongerSubmissions, ReplacerFunctions, Submissions
<1>3. \A d \in Replacers : SameReplacer(d)
  BY <1>1 DEF GraphInv, ReplacerSound, ReplacerTyped, SameReplacer
<1>4. NodesAreSound'
  BY <1>2, NodesAreKept DEF GraphInv
<1>5. \A d \in Replacers : ReplacerSound(d)'
  BY <1>2, <1>3, ReplacerIsKept DEF GraphInv
<1>6. \A b, d \in Replacers : b # d => Disjoint(b, d)'
  BY <1>2, <1>3, DisjointIsKept DEF GraphInv
<1>7. QED
  BY <1>2, <1>4, <1>5, <1>6 DEF GraphInv

\* A trace that moves on is still a trace.
LEMMA TracingKeepsGraphInv ==
    ASSUME GraphInv, NEW r \in Readers,
           ReadStep(r) \/ \E query \in Queries : ResolveRoot(r, query)
    PROVE  GraphInv'
<1>1. DOMAIN NoTrace = {"at", "query", "root", "nodes", "edges", "truncated", "fresh", "outcome"}
      /\ DOMAIN trace = Readers
  BY DEF NoTrace, GraphInv, ReplacerFunctions
<1>2. DOMAIN trace[r] = DOMAIN NoTrace /\ trace[r].query \in Queries
  BY DEF GraphInv, TraceSound
<1>3. ASSUME NEW new, trace' = [trace EXCEPT ![r] = new], DOMAIN new = DOMAIN NoTrace,
             new.at \in {"idle", "walking", "collecting"}, new.query \in Queries,
             UNCHANGED <<nodes, edges, replacing>>
      PROVE  GraphInv'
  <2>1. \A s \in Readers : trace'[s] = IF s = r THEN new ELSE trace[s]
    BY <1>1, <1>3
  <2>2. trace' = [s \in Readers |-> trace'[s]]
    BY <1>1, <1>3
  <2>3. \A s \in Readers : TraceSound(s)'
    BY <1>3, <2>1 DEF GraphInv, TraceSound, NoTrace
  <2>4. QED
    BY <1>3, <2>2, <2>3, ReadersKeepGraphInv
<1>4. CASE WalkGraph(r)
  <2> DEFINE found == Trace(edges, trace[r].query.direction, RootId(r), trace[r].query.maxDepth)
             new == [trace[r] EXCEPT !.at = "collecting",
                       !.nodes = {n \in found.nodes : n.id \in IdsOf(nodes)},
                       !.truncated = found.truncated]
  <2>1. trace' = [trace EXCEPT ![r] = new] /\ UNCHANGED <<nodes, edges, replacing>>
    BY <1>4 DEF WalkGraph
  <2>2. DOMAIN new = DOMAIN NoTrace /\ new.at = "collecting" /\ new.query = trace[r].query
    BY <1>1, <1>2
  <2> HIDE DEF new
  <2>3. QED
    BY <1>2, <1>3, <2>1, <2>2
<1>5. CASE CollectEdges(r)
  <2> DEFINE new == [trace[r] EXCEPT !.at = "idle",
                       !.edges = EdgesAmong(edges, IdsOf(trace[r].nodes)),
                       !.outcome = "answered"]
  <2>1. trace' = [trace EXCEPT ![r] = new] /\ UNCHANGED <<nodes, edges, replacing>>
    BY <1>5 DEF CollectEdges
  <2>2. DOMAIN new = DOMAIN NoTrace /\ new.at = "idle" /\ new.query = trace[r].query
    BY <1>1, <1>2
  <2> HIDE DEF new
  <2>3. QED
    BY <1>2, <1>3, <2>1, <2>2
<1>6. ASSUME NEW query \in Queries, ResolveRoot(r, query)
      PROVE  GraphInv'
  <2> DEFINE roots == {row \in nodes : /\ row.key = query.key
                                       /\ query.scope \in {Anywhere, row.scope}}
             at == IF Cardinality(roots) = 1 THEN "walking" ELSE "idle"
             root == IF Cardinality(roots) = 1 THEN roots ELSE {}
             ending == CASE roots = {}              -> "not found"
                          [] Cardinality(roots) = 1  -> "none"
                          [] OTHER                   -> "ambiguous"
             new == [NoTrace EXCEPT !.at = at, !.query = query, !.root = root,
                                    !.fresh = TRUE, !.outcome = ending]
  <2>1. trace' = [trace EXCEPT ![r] = new] /\ UNCHANGED <<nodes, edges, replacing>>
    BY <1>6 DEF ResolveRoot
  <2>2. at \in {"idle", "walking"}
    OBVIOUS
  <2> HIDE DEF roots, at, root, ending
  <2>3. DOMAIN new = DOMAIN NoTrace /\ new.at = at /\ new.query = query
    BY <1>1
  <2> HIDE DEF new
  <2>4. QED
    BY <1>3, <2>1, <2>2, <2>3
<1>7. QED
  BY <1>4, <1>5, <1>6 DEF ReadStep

\* The invariant holds at the start.
LEMMA GraphInvAtTheStart ==
    ASSUME GraphInit
    PROVE  GraphInv
<1>1. ReplacerFunctions /\ NodesAreSound
  BY DEF GraphInit, ReplacerFunctions, NodesAreSound
<1>2. Len(submitted) = 0 /\ submitted \in Seq(Bodies)
  BY EmptySeq DEF GraphInit
<1>3. Submissions
  <2>1. 0 <= MaxReplacements
    BY GraphAssumption
  <2>2. QED
    BY <1>2, <2>1 DEF Submissions
<1>4. ASSUME NEW c \in Replacers
      PROVE  ReplacerSound(c)
  BY <1>2 DEF GraphInit, ReplacerSound, ReplacerTyped
<1>5. \A c, d \in Replacers : Disjoint(c, d)
  BY DEF GraphInit, Disjoint
<1>6. \A r \in Readers : TraceSound(r)
  <2>1. (CHOOSE query \in Queries : TRUE) \in Queries
    BY GraphAssumption
  <2>2. QED
    BY <2>1 DEF GraphInit, TraceSound, NoTrace
<1>7. QED
  BY <1>1, <1>3, <1>4, <1>5, <1>6 DEF GraphInv

\* Every step keeps the invariant.
LEMMA GraphStepKeepsInv ==
    ASSUME GraphInv, GraphNext
    PROVE  GraphInv'
<1>1. ASSUME NEW c \in Replacers, ReplaceStep(c)
      PROVE  GraphInv'
  <2>1. CASE BreakReplacementDeadlock(c)
    BY <2>1, EndKeepsGraphInv DEF BreakReplacementDeadlock
  <2>2. QED
    BY <1>1, <2>1, DeleteKeepsGraphInv, InsertKeepsGraphInv, CommitKeepsGraphInv
    DEF ReplaceStep
<1>2. ASSUME NEW c \in Replacers, InterruptReplacement(c)
      PROVE  GraphInv'
  BY <1>2, EndKeepsGraphInv DEF InterruptReplacement
<1>3. ASSUME NEW c \in Replacers, NEW body \in Bodies, AskToReplace(c, body)
      PROVE  GraphInv'
  BY <1>3, AskKeepsGraphInv
<1>4. ASSUME NEW r \in Readers, ReadStep(r) \/ \E query \in Queries : ResolveRoot(r, query)
      PROVE  GraphInv'
  BY <1>4, TracingKeepsGraphInv
<1>5. QED
  BY <1>1, <1>2, <1>3, <1>4 DEF GraphNext

\* GraphInv is an inductive invariant of the graph.
LEMMA GraphInvariance == GraphSpec => []GraphInv
<1>1. ASSUME GraphInv, UNCHANGED graphVars
      PROVE  GraphInv'
  <2>1. UNCHANGED <<nodes, edges, replacing>> /\ trace' = trace
    BY <1>1 DEF graphVars
  <2>2. trace' = [r \in Readers |-> trace'[r]] /\ \A r \in Readers : TraceSound(r)'
    BY <1>1, <2>1 DEF GraphInv, ReplacerFunctions, TraceSound
  <2>3. QED
    BY <1>1, <2>1, <2>2, ReadersKeepGraphInv
<1>2. QED
  BY <1>1, GraphInvAtTheStart, GraphStepKeepsInv, PTL DEF GraphSpec

-----------------------------------------------------------------------------
(* The theorems                                                            *)

\* Snapshots are whole, because every node and every edge belongs to one that is.
LEMMA GraphInvKeepsSnapshotsWhole ==
    ASSUME GraphInv
    PROVE  SnapshotsAreWhole
<1>1. \A row \in nodes : /\ SnapshotRows(submitted[row.snapshot], row.snapshot) \subseteq nodes
                         /\ submitted[row.snapshot].edges \subseteq edges
  BY DEF GraphInv, NodesAreSound
<1>2. ASSUME NEW e \in edges
      PROVE  \E a, b \in nodes : a.id = e.from /\ b.id = e.to /\ a.snapshot = b.snapshot
  <2>1. PICK row \in nodes : e \in submitted[row.snapshot].edges
    BY DEF GraphInv, NodesAreSound
  <2>2. ValidSnapshot(submitted[row.snapshot])
    BY DEF GraphInv, NodesAreSound
  <2>3. PICK a \in SnapshotRows(submitted[row.snapshot], row.snapshot),
             b \in SnapshotRows(submitted[row.snapshot], row.snapshot) :
          a.id = e.from /\ b.id = e.to
    BY <2>1, <2>2, EndsAreRows
  <2>4. a.snapshot = b.snapshot
    BY DEF SnapshotRows
  <2>5. QED
    BY <1>1, <2>3, <2>4
<1>3. QED
  BY <1>1, <1>2 DEF SnapshotsAreWhole

\* Keys, snapshots and edges fit together at every moment, whatever the order in
\* which replacements of a scope overlap, die, wait for each other and commit
\* (saveArtifactGraphSnapshot).
THEOREM GraphStaysConsistent == GraphSpec => []GraphIsConsistent
<1>1. ASSUME GraphInv
      PROVE  GraphTypeOK
  <2>1. phase \in [Replacers -> {"idle", "deleting", "inserting"}]
        /\ current \in [Replacers -> 0 .. Len(submitted)]
        /\ overlapped \in [Replacers -> BOOLEAN]
        /\ ended \in [Replacers -> {"none", "ok", "invalid", "constraint", "deadlock",
                                    "interrupted"}]
    BY <1>1 DEF GraphInv, ReplacerFunctions, ReplacerSound, ReplacerTyped
  <2>2. QED
    BY <1>1, <2>1 DEF GraphInv, GraphTypeOK, NodesAreSound, Submissions, ReplacerSound,
                      ReplacerTyped, TraceSound
<1>2. QED
  BY <1>1, GraphInvKeepsSnapshotsWhole, GraphInvariance, PTL DEF GraphIsConsistent

\* Only a commit ends a replacement well.
LEMMA OnlyCommitsEndWell ==
    ASSUME GraphInv, GraphNext, NEW c \in Replacers,
           phase[c] = "inserting", ended'[c] = "ok"
    PROVE  CommitReplacement(c)
<1>1. ended[c] = "none" /\ ended = [d \in Replacers |-> ended[d]]
  BY DEF GraphInv, ReplacerFunctions, ReplacerSound
<1>2. ended # ended'
  BY <1>1
<1>3. ASSUME NEW d \in Replacers, NEW ending, EndReplacement(d, ending), ending # "ok"
      PROVE  FALSE
  BY <1>1, <1>3 DEF EndReplacement
<1>4. ASSUME NEW d \in Replacers, ReplaceStep(d)
      PROVE  CommitReplacement(c)
  <2>1. CASE DeleteScope(d)
    BY <1>2, <2>1 DEF DeleteScope
  <2>2. CASE InsertNode(d)
    BY <1>2, <1>3, <2>2 DEF InsertNode
  <2>3. CASE BreakReplacementDeadlock(d)
    BY <1>3, <2>3 DEF BreakReplacementDeadlock
  <2>4. CASE CommitReplacement(d)
    <3>1. d = c
      BY <1>1, <2>4 DEF CommitReplacement, EndReplacement
    <3>2. QED
      BY <2>4, <3>1
  <2>5. QED
    BY <1>4, <2>1, <2>2, <2>3, <2>4 DEF ReplaceStep
<1>5. ASSUME NEW d \in Replacers, InterruptReplacement(d)
      PROVE  FALSE
  BY <1>3, <1>5 DEF InterruptReplacement
<1>6. ASSUME NEW d \in Replacers, NEW body \in Bodies, AskToReplace(d, body)
      PROVE  FALSE
  BY <1>1, <1>6 DEF AskToReplace
<1>7. ASSUME NEW r \in Readers, ReadStep(r) \/ \E query \in Queries : ResolveRoot(r, query)
      PROVE  FALSE
  BY <1>2, <1>7 DEF ReadStep, WalkGraph, CollectEdges, ResolveRoot, replacing
<1>8. QED
  BY <1>4, <1>5, <1>6, <1>7 DEF GraphNext

\* A commit leaves the other scopes, and is alone in its own when nothing overlapped it.
LEMMA CommitTakesItsScope ==
    ASSUME GraphInv, NEW c \in Replacers, CommitReplacement(c)
    PROVE  /\ ~overlapped[c] => {row \in nodes' : row.scope = Body(c).scope}
                                    = SnapshotRows(Body(c), current[c])
           /\ {row \in nodes' : row.scope # Body(c).scope}
                  = {row \in nodes : row.scope # Body(c).scope}
<1>1. SeenSound(c) /\ InsertsSound(c)
  BY DEF CommitReplacement, GraphInv, ReplacerSound
<1>2. Body(c) \in Bodies
  BY <1>1 DEF GraphInv, Submissions, SeenSound, Body
<1>3. newNodes[c] = SnapshotRows(Body(c), current[c])
  BY <1>1, <1>2, FirstRowsAreAll DEF CommitReplacement, InsertsSound
<1>4. nodes' = (nodes \ seen[c]) \cup SnapshotRows(Body(c), current[c])
  BY <1>3 DEF CommitReplacement
<1>5. \A row \in SnapshotRows(Body(c), current[c]) : row.scope = Body(c).scope
  BY DEF SnapshotRows
<1>6. QED
  BY <1>1, <1>4, <1>5 DEF SeenSound

LoneStep == \A c \in Replacers :
    phase[c] = "inserting" /\ ended'[c] = "ok" /\ ~overlapped[c] =>
        {row \in nodes' : row.scope = Body(c).scope} = SnapshotRows(Body(c), current[c])

OthersStep == \A c \in Replacers : phase[c] = "inserting" /\ ended'[c] = "ok" =>
    {row \in nodes' : row.scope # Body(c).scope} = {row \in nodes : row.scope # Body(c).scope}

\* A replacement takes its scope and nothing else: a snapshot of another scope is never
\* touched, and a replacement that none overlaps leaves exactly its own rows.
THEOREM ReplacementsTakeTheirScope == GraphSpec => ReplacementTakesItsScope
<1>1. ASSUME GraphInv, GraphNext
      PROVE  LoneStep /\ OthersStep
  BY <1>1, OnlyCommitsEndWell, CommitTakesItsScope DEF LoneStep, OthersStep
<1>2. GraphInv /\ [GraphNext]_graphVars => [LoneStep]_graphVars
  BY <1>1
<1>3. GraphInv /\ [GraphNext]_graphVars => [OthersStep]_graphVars
  BY <1>1
<1>4. GraphSpec => LoneReplacementReplacesAll
  BY <1>2, GraphInvariance, PTL DEF GraphSpec, LoneReplacementReplacesAll, LoneStep
<1>5. GraphSpec => OtherScopesUntouched
  BY <1>3, GraphInvariance, PTL DEF GraphSpec, OtherScopesUntouched, OthersStep
<1>6. QED
  BY <1>4, <1>5 DEF ReplacementTakesItsScope

-----------------------------------------------------------------------------
(* Traces                                                                  *)

\* What a trace has found so far is what a trace of the present graph finds.
UpToDate(r) ==
    LET query == trace[r].query
        found == Trace(edges, query.direction, RootId(r), query.maxDepth)
    IN trace[r].nodes = found.nodes /\ trace[r].truncated = found.truncated

\* A trace since whose start nothing was committed starts at a stored row, and has
\* found all there is to find.
TraceExact(r) ==
    /\ trace[r].at # "idle" => trace[r].outcome # "answered"
    /\ trace[r].fresh /\ trace[r].at # "idle" => \E row \in nodes : trace[r].root = {row}
    /\ trace[r].fresh /\ trace[r].at = "collecting" => UpToDate(r)

ExactInv == IsFiniteSet(nodes) /\ \A r \in Readers : TraceExact(r)

\* A trace that starts at a stored row meets stored rows only.
LEMMA TracesMeetStoredRows ==
    ASSUME GraphInv, NEW direction, NEW row \in nodes, NEW maxDepth \in Nat
    PROVE  \A n \in Trace(edges, direction, row.id, maxDepth).nodes : n.id \in IdsOf(nodes)
<1>1. \A e \in edges : e.from \in IdsOf(nodes) /\ e.to \in IdsOf(nodes)
  <2> SUFFICES ASSUME NEW e \in edges
               PROVE  e.from \in IdsOf(nodes) /\ e.to \in IdsOf(nodes)
    OBVIOUS
  <2>1. \E a, b \in nodes : a.id = e.from /\ b.id = e.to
    BY GraphInvKeepsSnapshotsWhole DEF SnapshotsAreWhole
  <2>2. QED
    BY <2>1 DEF IdsOf
<1>2. Places(edges, row.id) \subseteq IdsOf(nodes)
  BY <1>1 DEF Places, Ends, IdsOf
<1>3. QED
  BY <1>2, TracesStayInPlaces

\* A trace that does not move, on a graph that does not change, stays exact.
LEMMA SameTraceIsExact ==
    ASSUME ExactInv, UNCHANGED <<nodes, edges>>, NEW r \in Readers, trace'[r] = trace[r]
    PROVE  TraceExact(r)'
<1>1. RootId(r)' = RootId(r)
  BY DEF RootId, IdsOf
<1>2. UpToDate(r) => UpToDate(r)'
  BY <1>1 DEF UpToDate
<1>3. QED
  BY <1>2 DEF ExactInv, TraceExact

\* A commit makes every trace one that may be late.
LEMMA CommitKeepsExact ==
    ASSUME GraphInv, ExactInv, NEW c \in Replacers, CommitReplacement(c)
    PROVE  ExactInv'
<1>1. IsFiniteSet(nodes')
  <2>1. IsFiniteSet(newNodes[c])
    BY DEF CommitReplacement, GraphInv, ReplacerSound, InsertsSound
  <2>2. IsFiniteSet(nodes \ seen[c])
    BY FS_Subset DEF ExactInv
  <2>3. QED
    BY <2>1, <2>2, FS_Union DEF CommitReplacement
<1>2. ASSUME NEW r \in Readers
      PROVE  TraceExact(r)'
  <2>1. DOMAIN trace[r] = {"at", "query", "root", "nodes", "edges", "truncated", "fresh",
                           "outcome"}
    BY DEF GraphInv, TraceSound, NoTrace
  <2>2. trace'[r] = [trace[r] EXCEPT !.fresh = FALSE]
    BY DEF CommitReplacement
  <2>3. ~trace'[r].fresh /\ trace'[r].at = trace[r].at /\ trace'[r].outcome = trace[r].outcome
    BY <2>1, <2>2
  <2>4. QED
    BY <2>3 DEF ExactInv, TraceExact
<1>3. QED
  BY <1>1, <1>2 DEF ExactInv

\* The root of a trace is one stored row, and the walk finds the trace of the graph.
LEMMA TracingKeepsExact ==
    ASSUME GraphInv, ExactInv, NEW r \in Readers,
           ReadStep(r) \/ \E query \in Queries : ResolveRoot(r, query)
    PROVE  ExactInv'
<1>1. DOMAIN NoTrace = {"at", "query", "root", "nodes", "edges", "truncated", "fresh", "outcome"}
      /\ DOMAIN trace = Readers
  BY DEF NoTrace, GraphInv, ReplacerFunctions
<1>2. DOMAIN trace[r] = DOMAIN NoTrace /\ trace[r].query \in Queries
  BY DEF GraphInv, TraceSound
<1>3. ASSUME NEW new, trace' = [trace EXCEPT ![r] = new],
             UNCHANGED <<nodes, edges>>, trace'[r] = new => TraceExact(r)'
      PROVE  ExactInv'
  <2>1. trace'[r] = new /\ \A s \in Readers \ {r} : trace'[s] = trace[s]
    BY <1>1, <1>3
  <2>2. \A s \in Readers : TraceExact(s)'
    BY <1>3, <2>1, SameTraceIsExact
  <2>3. QED
    BY <1>3, <2>2 DEF ExactInv
<1>4. CASE WalkGraph(r)
  <2> DEFINE found == Trace(edges, trace[r].query.direction, RootId(r), trace[r].query.maxDepth)
             new == [trace[r] EXCEPT !.at = "collecting",
                       !.nodes = {n \in found.nodes : n.id \in IdsOf(nodes)},
                       !.truncated = found.truncated]
  <2>1. trace' = [trace EXCEPT ![r] = new] /\ UNCHANGED <<nodes, edges>>
        /\ trace[r].at = "walking"
    BY <1>4 DEF WalkGraph
  <2>2. /\ new.at = "collecting" /\ new.query = trace[r].query /\ new.root = trace[r].root
        /\ new.fresh = trace[r].fresh /\ new.outcome = trace[r].outcome
        /\ new.nodes = {n \in found.nodes : n.id \in IdsOf(nodes)}
        /\ new.truncated = found.truncated
    BY <1>1, <1>2
  <2>3. ASSUME trace[r].fresh
        PROVE  {n \in found.nodes : n.id \in IdsOf(nodes)} = found.nodes
    <3>1. PICK row \in nodes : trace[r].root = {row}
      BY <2>1, <2>3 DEF ExactInv, TraceExact
    <3>2. RootId(r) = row.id
      BY <3>1 DEF RootId, IdsOf
    <3>3. trace[r].query.maxDepth \in Nat
      BY <1>2, GraphAssumption
    <3>4. QED
      BY <3>2, <3>3, TracesMeetStoredRows
  <2> HIDE DEF new, found
  <2>4. trace'[r] = new => TraceExact(r)'
    <3> SUFFICES ASSUME trace'[r] = new
                 PROVE  TraceExact(r)'
      OBVIOUS
    <3>1. RootId(r)' = RootId(r)
      BY <2>2 DEF RootId, IdsOf
    <3>2. trace[r].fresh => UpToDate(r)'
      BY <2>1, <2>2, <2>3, <3>1 DEF UpToDate, found
    <3>3. QED
      BY <2>1, <2>2, <3>2 DEF ExactInv, TraceExact
  <2>5. QED
    BY <1>3, <2>1, <2>4
<1>5. CASE CollectEdges(r)
  <2> DEFINE new == [trace[r] EXCEPT !.at = "idle",
                       !.edges = EdgesAmong(edges, IdsOf(trace[r].nodes)),
                       !.outcome = "answered"]
  <2>1. trace' = [trace EXCEPT ![r] = new] /\ UNCHANGED <<nodes, edges>>
    BY <1>5 DEF CollectEdges
  <2>2. new.at = "idle"
    BY <1>1, <1>2
  <2> HIDE DEF new
  <2>3. trace'[r] = new => TraceExact(r)'
    BY <2>2 DEF TraceExact
  <2>4. QED
    BY <1>3, <2>1, <2>3
<1>6. ASSUME NEW query \in Queries, ResolveRoot(r, query)
      PROVE  ExactInv'
  <2> DEFINE roots == {row \in nodes : /\ row.key = query.key
                                       /\ query.scope \in {Anywhere, row.scope}}
             at == IF Cardinality(roots) = 1 THEN "walking" ELSE "idle"
             root == IF Cardinality(roots) = 1 THEN roots ELSE {}
             ending == CASE roots = {}              -> "not found"
                          [] Cardinality(roots) = 1  -> "none"
                          [] OTHER                   -> "ambiguous"
             new == [NoTrace EXCEPT !.at = at, !.query = query, !.root = root,
                                    !.fresh = TRUE, !.outcome = ending]
  <2>1. trace' = [trace EXCEPT ![r] = new] /\ UNCHANGED <<nodes, edges>>
    BY <1>6 DEF ResolveRoot
  <2>2. roots \subseteq nodes /\ IsFiniteSet(roots)
    BY FS_Subset DEF ExactInv
  <2> HIDE DEF roots
  <2>3. ASSUME Cardinality(roots) = 1
        PROVE  ending # "answered" /\ \E row \in nodes : root = {row}
    <3>1. PICK row : roots = {row}
      BY <2>2, <2>3, FS_Singleton
    <3>2. QED
      BY <2>2, <2>3, <3>1
  <2> HIDE DEF at, root, ending
  <2>4. new.at = at /\ new.root = root /\ new.outcome = ending
    BY <1>1
  <2> HIDE DEF new
  <2>5. at # "idle" => Cardinality(roots) = 1
    BY DEF at
  <2>6. at # "collecting"
    BY DEF at
  <2>7. trace'[r] = new => TraceExact(r)'
    BY <2>1, <2>3, <2>4, <2>5, <2>6 DEF TraceExact
  <2>8. QED
    BY <1>3, <2>1, <2>7
<1>7. QED
  BY <1>4, <1>5, <1>6 DEF ReadStep

\* Every other step leaves the graph and the traces alone.
LEMMA GraphStepKeepsExact ==
    ASSUME GraphInv, ExactInv, GraphNext
    PROVE  ExactInv'
<1>1. ASSUME UNCHANGED <<nodes, edges, trace>>
      PROVE  ExactInv'
  BY <1>1, SameTraceIsExact DEF ExactInv
<1>2. ASSUME NEW c \in Replacers, ReplaceStep(c)
      PROVE  ExactInv'
  BY <1>1, <1>2, CommitKeepsExact
  DEF ReplaceStep, DeleteScope, InsertNode, BreakReplacementDeadlock
<1>3. ASSUME NEW c \in Replacers, InterruptReplacement(c)
      PROVE  ExactInv'
  BY <1>1, <1>3 DEF InterruptReplacement
<1>4. ASSUME NEW c \in Replacers, NEW body \in Bodies, AskToReplace(c, body)
      PROVE  ExactInv'
  BY <1>1, <1>4 DEF AskToReplace
<1>5. ASSUME NEW r \in Readers, ReadStep(r) \/ \E query \in Queries : ResolveRoot(r, query)
      PROVE  ExactInv'
  BY <1>5, TracingKeepsExact
<1>6. QED
  BY <1>2, <1>3, <1>4, <1>5 DEF GraphNext

\* A trace that is not late is exact at every moment.
LEMMA ExactInvariance == GraphSpec => []ExactInv
<1>1. GraphInit => ExactInv
  <2>1. GraphInit => NoTrace.at = "idle" /\ \A r \in Readers : trace[r] = NoTrace
    BY DEF GraphInit, NoTrace
  <2>2. QED
    BY <2>1, FS_EmptySet DEF GraphInit, ExactInv, TraceExact
<1>2. ASSUME ExactInv, UNCHANGED graphVars
      PROVE  ExactInv'
  BY <1>2, SameTraceIsExact DEF graphVars, ExactInv
<1>3. GraphInv /\ ExactInv /\ [GraphNext]_graphVars => ExactInv'
  BY <1>2, GraphStepKeepsExact
<1>4. QED
  BY <1>1, <1>3, GraphInvariance, PTL DEF GraphSpec

ExactStep == \A r \in Readers :
    trace[r].at = "collecting" /\ trace'[r].outcome = "answered" /\ trace[r].fresh =>
        LET query == trace[r].query
            expected == Reference(edges, query.direction, RootId(r), query.maxDepth)
        IN /\ trace'[r].nodes = expected.nodes
           /\ trace'[r].truncated = expected.truncated
           /\ trace'[r].edges = EdgesAmong(edges, IdsOf(expected.nodes))

\* Only the last statement of a trace answers it.
LEMMA OnlyCollectingAnswers ==
    ASSUME GraphInv, ExactInv, GraphNext, NEW r \in Readers,
           trace[r].at = "collecting", trace'[r].outcome = "answered"
    PROVE  CollectEdges(r)
<1>1. trace[r].outcome # "answered"
  BY DEF ExactInv, TraceExact
<1>2. trace' # trace /\ DOMAIN trace = Readers
  BY <1>1 DEF GraphInv, ReplacerFunctions
<1>3. ASSUME NEW c \in Replacers, CommitReplacement(c)
      PROVE  FALSE
  <2>1. DOMAIN trace[r] = {"at", "query", "root", "nodes", "edges", "truncated", "fresh",
                           "outcome"}
    BY DEF GraphInv, TraceSound, NoTrace
  <2>2. trace'[r] = [trace[r] EXCEPT !.fresh = FALSE]
    BY <1>3 DEF CommitReplacement
  <2>3. QED
    BY <1>1, <2>1, <2>2
<1>4. ASSUME NEW c \in Replacers,
             ReplaceStep(c) \/ InterruptReplacement(c) \/ \E body \in Bodies : AskToReplace(c, body)
      PROVE  FALSE
  BY <1>2, <1>3, <1>4 DEF ReplaceStep, DeleteScope, InsertNode, BreakReplacementDeadlock,
                          InterruptReplacement, AskToReplace
<1>5. ASSUME NEW s \in Readers, ReadStep(s) \/ \E query \in Queries : ResolveRoot(s, query)
      PROVE  s = r
  <2>1. s # r => trace'[r] = trace[r]
    BY <1>2, <1>5 DEF ReadStep, WalkGraph, CollectEdges, ResolveRoot
  <2>2. QED
    BY <1>1, <2>1
<1>6. ~WalkGraph(r) /\ \A query \in Queries : ~ResolveRoot(r, query)
  BY DEF WalkGraph, ResolveRoot
<1>7. QED
  BY <1>4, <1>5, <1>6 DEF GraphNext, ReadStep

\* A trace during which no replacement commits is, for a graph of any shape and size
\* and whatever else runs, the breadth-first answer to its query (traceArtifactGraph).
THEOREM UndisturbedTracesAreExact == GraphSpec => UndisturbedTraceIsExact
<1>1. ASSUME GraphInv, ExactInv, GraphNext
      PROVE  ExactStep
  <2> SUFFICES ASSUME NEW r \in Readers, trace[r].at = "collecting",
                      trace'[r].outcome = "answered", trace[r].fresh
               PROVE  LET query == trace[r].query
                          expected == Reference(edges, query.direction, RootId(r),
                                                query.maxDepth)
                      IN /\ trace'[r].nodes = expected.nodes
                         /\ trace'[r].truncated = expected.truncated
                         /\ trace'[r].edges = EdgesAmong(edges, IdsOf(expected.nodes))
    BY DEF ExactStep
  <2> DEFINE query == trace[r].query
             found == Trace(edges, query.direction, RootId(r), query.maxDepth)
             expected == Reference(edges, query.direction, RootId(r), query.maxDepth)
  <2>1. trace[r].nodes = found.nodes /\ trace[r].truncated = found.truncated
    BY <1>1 DEF ExactInv, TraceExact, UpToDate
  <2>2. found = expected
    <3>1. query.maxDepth \in Nat
      BY <1>1, GraphAssumption DEF GraphInv, TraceSound
    <3>2. QED
      BY <3>1, TracesAreBreadthFirst
  <2>3. /\ trace'[r].nodes = trace[r].nodes /\ trace'[r].truncated = trace[r].truncated
        /\ trace'[r].edges = EdgesAmong(edges, IdsOf(trace[r].nodes))
    <3>1. CollectEdges(r)
      BY <1>1, OnlyCollectingAnswers
    <3>2. DOMAIN trace = Readers
          /\ DOMAIN trace[r] = {"at", "query", "root", "nodes", "edges", "truncated", "fresh",
                                "outcome"}
      BY <1>1 DEF GraphInv, ReplacerFunctions, TraceSound, NoTrace
    <3>3. trace'[r] = [trace[r] EXCEPT !.at = "idle",
                         !.edges = EdgesAmong(edges, IdsOf(trace[r].nodes)),
                         !.outcome = "answered"]
      BY <3>1, <3>2 DEF CollectEdges
    <3>4. QED
      BY <3>2, <3>3
  <2>4. QED
    BY <2>1, <2>2, <2>3
<1>2. GraphInv /\ ExactInv /\ [GraphNext]_graphVars => [ExactStep]_graphVars
  BY <1>1
<1>3. QED
  BY <1>2, GraphInvariance, ExactInvariance, PTL
  DEF GraphSpec, UndisturbedTraceIsExact, ExactStep

-----------------------------------------------------------------------------
(*                           The planning writes                           *)
-----------------------------------------------------------------------------
(* The inductive invariant                                                 *)

SaverFunctions ==
    /\ stored = [t \in Tables |-> stored[t]]
    /\ written = [c \in Savers |-> written[c]]
    /\ statement = [c \in Savers |-> statement[c]]
    /\ table = [c \in Savers |-> table[c]]
    /\ asked = [c \in Savers |-> asked[c]]
    /\ todo = [c \in Savers |-> todo[c]]
    /\ ready = [c \in Savers |-> ready[c]]
    /\ result = [c \in Savers |-> result[c]]
    /\ reply = [c \in Savers |-> reply[c]]
    /\ known = [c \in Savers |-> known[c]]

TablesAreKeyed ==
    /\ \A t \in Tables : stored[t] \subseteq TableRows(t) /\ Keyed(stored[t])
    /\ \A c \in Savers : known[c] \subseteq stored["run"]

\* What two transactions have written to one table has nothing in common.
Apart(c, d) ==
    table[c] = table[d] =>
        \A a \in written[c], b \in written[d] : a.id # b.id /\ a.key # b.key

SaverTyped(c) ==
    /\ statement[c] \in Statements /\ table[c] \in Tables /\ reply[c] \in Answers
    /\ asked[c] \in Seq(TableRows(table[c]))
    /\ todo[c] \in Seq(TableRows(table[c]))
    /\ ready[c] \in Seq(TableRows(table[c]))
    /\ result[c] \in Seq(Ids(TableRows(table[c])))
    /\ written[c] \subseteq TableRows(table[c])

\* Where the rows of a request are at each statement.
Progress(c) ==
    /\ table[c] # "task" => Len(asked[c]) <= 1
    /\ statement[c] # "idle" => asked[c] # <<>>
    /\ statement[c] \in {"idle", "checking"} => ready[c] = <<>>
    /\ statement[c] = "checking" => todo[c] = asked[c]
    /\ statement[c] \in {"checking", "resolving"} => result[c] = <<>>
    /\ statement[c] \in {"idle", "checking", "resolving"} => written[c] = {}
    /\ statement[c] = "resolving" => todo[c] # <<>>
    /\ statement[c] = "writing" => ready[c] # <<>>
    /\ statement[c] = "writing" /\ result[c] = <<>> => written[c] = {}
    /\ statement[c] \in {"resolving", "writing"} =>
          Len(todo[c]) + Len(ready[c]) + Len(result[c]) = Len(asked[c])

\* A graph is looked up and written under the key that was asked for; the row
\* written and a stored one are the same graph by id when they are by key.
GraphSound(c) ==
    table[c] = "graph" /\ statement[c] # "idle" =>
        /\ statement[c] = "resolving" => Head(todo[c]).key = Head(asked[c]).key
        /\ statement[c] = "writing" => Head(ready[c]).key = Head(asked[c]).key
        /\ \A row \in written[c], graph \in stored["graph"] :
              row.id = graph.id <=> row.key = graph.key
        /\ statement[c] = "committing" =>
              \E graph \in Visible(c) :
                  result[c] = <<graph.id>> /\ graph.key = Head(asked[c]).key

\* A run that stayed as the request knew it is written as it is.
RunSound(c) ==
    table[c] = "run" =>
        \A run \in known[c] :
            /\ \A row \in written[c] : row.id = run.id => row = run
            /\ statement[c] = "writing" /\ Head(ready[c]).id = run.id => Head(ready[c]) = run

SaverSound(c) ==
    SaverTyped(c) /\ Keyed(Visible(c)) /\ Progress(c) /\ GraphSound(c) /\ RunSound(c)

SavesInv ==
    /\ SaverFunctions /\ TablesAreKeyed
    /\ \A c \in Savers : SaverSound(c)
    /\ \A c, d \in Savers : c # d => Apart(c, d)

-----------------------------------------------------------------------------
(* Rows                                                                    *)

\* A row that was given is a row of its table.
LEMMA GivenAreRows ==
    ASSUME NEW t \in Tables, NEW row \in Given(t)
    PROVE  row \in TableRows(t)
<1>1. row = [id |-> row.id, key |-> row.key, body |-> row.body]
  BY PlanningAssumption DEF Given, Tables
<1>2. row.id \in Ids(Given(t))
  BY DEF Ids
<1>3. QED
  BY <1>1, <1>2 DEF TableRows

\* A row of a table under the id of another one is a row of the table.
LEMMA RowUnderId ==
    ASSUME NEW t \in Tables, NEW row \in TableRows(t), NEW id \in Ids(TableRows(t))
    PROVE  /\ [row EXCEPT !.id = id] \in TableRows(t)
           /\ [row EXCEPT !.id = id].id = id
           /\ [row EXCEPT !.id = id].key = row.key
           /\ id = row.id => [row EXCEPT !.id = id] = row
<1>1. PICK r \in Given(t), i \in Ids(Given(t)) :
          row = [id |-> i, key |-> r.key, body |-> r.body]
  BY DEF TableRows
<1>2. id \in Ids(Given(t))
  BY DEF TableRows, Ids
<1>3. [row EXCEPT !.id = id] = [id |-> id, key |-> r.key, body |-> r.body]
  BY <1>1
<1>4. [row EXCEPT !.id = id] \in TableRows(t)
  BY <1>2, <1>3 DEF TableRows
<1>5. QED
  BY <1>1, <1>3, <1>4

\* The canonical row of a key.
LEMMA CanonicalRow ==
    ASSUME NEW t \in Tables, NEW row \in TableRows(t), NEW rows, rows \subseteq TableRows(t)
    PROVE  /\ Canonical(rows, row) \in TableRows(t)
           /\ Canonical(rows, row).key = row.key
<1>1. CASE UnderKey(rows, row.key) = {}
  BY <1>1 DEF Canonical
<1>2. CASE UnderKey(rows, row.key) # {}
  <2> DEFINE id == (CHOOSE r \in UnderKey(rows, row.key) : TRUE).id
  <2>1. id \in Ids(TableRows(t))
    BY <1>2 DEF UnderKey, Ids
  <2>2. Canonical(rows, row) = [row EXCEPT !.id = id]
    BY <1>2 DEF Canonical
  <2> HIDE DEF id
  <2>3. QED
    BY <2>1, <2>2, RowUnderId
<1>3. QED
  BY <1>1, <1>2

\* Rows written after others replace rows of what was visible.
LEMMA ReplacingMore ==
    \A rows, mine, more :
        Replacing(rows, Replacing(mine, more)) = Replacing(Replacing(rows, mine), more)
<1> TAKE rows, mine, more
<1>1. Ids(Replacing(mine, more)) = Ids(mine) \cup Ids(more)
  BY DEF Ids, Replacing
<1>2. QED
  BY <1>1 DEF Replacing

\* Rows of two transactions that have nothing in common can both be written.
LEMMA ReplacingTwice ==
    ASSUME NEW rows, NEW mine, NEW theirs,
           Keyed(Replacing(rows, mine)), Keyed(Replacing(rows, theirs)),
           \A a \in mine, b \in theirs : a.id # b.id /\ a.key # b.key
    PROVE  Keyed(Replacing(Replacing(rows, theirs), mine))
<1> SUFFICES ASSUME NEW a \in Replacing(Replacing(rows, theirs), mine),
                    NEW b \in Replacing(Replacing(rows, theirs), mine),
                    a.id = b.id \/ a.key = b.key
             PROVE  a = b
  BY DEF Keyed
<1>1. CASE a \in mine /\ b \in mine
  BY <1>1 DEF Keyed, Replacing
<1>2. CASE a \in mine /\ b \notin mine
  <2>1. b \in theirs \/ b \in rows
    BY <1>2 DEF Replacing
  <2>2. b.id \notin Ids(mine)
    BY <1>2 DEF Replacing
  <2>3. b \in rows => b \in Replacing(rows, mine)
    BY <2>2 DEF Replacing
  <2>4. a \in Replacing(rows, mine)
    BY <1>2 DEF Replacing
  <2>5. QED
    BY <1>2, <2>1, <2>3, <2>4 DEF Keyed
<1>3. CASE a \notin mine /\ b \in mine
  <2>1. a \in theirs \/ a \in rows
    BY <1>3 DEF Replacing
  <2>2. a.id \notin Ids(mine)
    BY <1>3 DEF Replacing
  <2>3. a \in rows => a \in Replacing(rows, mine)
    BY <2>2 DEF Replacing
  <2>4. b \in Replacing(rows, mine)
    BY <1>3 DEF Replacing
  <2>5. QED
    BY <1>3, <2>1, <2>3, <2>4 DEF Keyed
<1>4. CASE a \notin mine /\ b \notin mine
  <2>1. a \in Replacing(rows, theirs) /\ b \in Replacing(rows, theirs)
    BY <1>4 DEF Replacing
  <2>2. QED
    BY <2>1 DEF Keyed
<1>5. QED
  BY <1>1, <1>2, <1>3, <1>4

-----------------------------------------------------------------------------
(* One client's step                                                       *)

\* Client d's transaction is where it was.
SameSaver(d) ==
    /\ written'[d] = written[d] /\ statement'[d] = statement[d] /\ table'[d] = table[d]
    /\ asked'[d] = asked[d] /\ todo'[d] = todo[d] /\ ready'[d] = ready[d]
    /\ result'[d] = result[d] /\ reply'[d] = reply[d]

\* A step that commits nothing disturbs no other client.
LEMMA SaverIsKept ==
    ASSUME NEW d \in Savers, SaverSound(d), SameSaver(d), stored' = stored, known'[d] = known[d]
    PROVE  SaverSound(d)'
<1>1. Visible(d)' = Visible(d)
  BY DEF Visible, SameSaver
<1>2. SaverTyped(d)' /\ Progress(d)'
  BY DEF SaverSound, SaverTyped, Progress, SameSaver
<1>3. GraphSound(d)'
  BY <1>1 DEF SaverSound, GraphSound, SameSaver
<1>4. RunSound(d)'
  BY DEF SaverSound, RunSound, SameSaver
<1>5. QED
  BY <1>1, <1>2, <1>3, <1>4 DEF SaverSound

\* What one client's step must keep when it commits nothing.
LEMMA OneSaver ==
    ASSUME SavesInv, NEW c \in Savers, SaverFunctions', stored' = stored,
           \A d \in Savers \ {c} : SameSaver(d) /\ known'[d] = known[d],
           known'[c] \subseteq stored["run"], SaverSound(c)',
           \A d \in Savers \ {c} : Apart(c, d)'
    PROVE  SavesInv'
<1>1. TablesAreKeyed'
  BY DEF SavesInv, TablesAreKeyed
<1>2. \A d \in Savers : SaverSound(d)'
  BY SaverIsKept DEF SavesInv
<1>3. ASSUME NEW d \in Savers, NEW e \in Savers, d # e
      PROVE  Apart(d, e)'
  <2>1. CASE d = c
    BY <2>1, <1>3
  <2>2. CASE e = c
    <3>1. Apart(c, d)'
      BY <2>2, <1>3
    <3>2. QED
      BY <3>1, <2>2 DEF Apart
  <2>3. CASE d # c /\ e # c
    BY <2>3, <1>3 DEF SavesInv, Apart, SameSaver
  <2>4. QED
    BY <2>1, <2>2, <2>3
<1>4. QED
  BY <1>1, <1>2, <1>3 DEF SavesInv

\* A sequence that is not empty and has at most one element has one.
LEMMA LengthOne ==
    ASSUME NEW S, NEW s \in Seq(S), s # <<>>, Len(s) <= 1
    PROVE  Len(s) = 1
<1>1. Len(s) \in Nat /\ Len(s) # 0
  BY EmptySeq, LenProperties
<1>2. \A n : n \in Nat /\ n # 0 /\ n <= 1 => n = 1
  OBVIOUS
<1>3. QED
  BY <1>1, <1>2

\* One row is looked up or waits to be: the sum of the lengths leaves no other way.
LEMMA OneRowPending ==
    \A l, m, k, n : l \in Nat /\ l # 0 /\ m \in Nat /\ k = 0 /\ n \in Nat /\ n <= 1
                   /\ l + m + k = n => l = 1 /\ n = 1
OBVIOUS

\* A row moves from the head of one sequence to the end of another.
LEMMA RowMoved ==
    ASSUME NEW S, NEW T, NEW a \in Seq(S), NEW b \in Seq(T), NEW x \in T, a # <<>>
    PROVE  /\ Tail(a) \in Seq(S)
           /\ Append(b, x) \in Seq(T) /\ Append(b, x) # <<>>
           /\ Len(a) # 1 => Tail(a) # <<>>
           /\ Len(Tail(a)) + Len(Append(b, x)) = Len(a) + Len(b)
<1>1. Len(a) \in Nat /\ Len(a) # 0 /\ Len(b) \in Nat
  BY EmptySeq, LenProperties
<1>2. Tail(a) \in Seq(S) /\ Len(Tail(a)) = Len(a) - 1
  BY LenProperties
<1>3. Append(b, x) \in Seq(T) /\ Len(Append(b, x)) = Len(b) + 1
  BY AppendProperties
<1>4. Append(b, x) # <<>>
  BY AppendProperties
<1>5. \A l, m, n, k : l \in Nat /\ m \in Nat /\ n = l - 1 /\ k = m + 1 => n + k = l + m
  OBVIOUS
<1>6. Len(<<>>) = 0
  OBVIOUS
<1>7. \A l, n : l \in Nat /\ l # 1 /\ n = l - 1 => n # 0
  OBVIOUS
<1>8. Len(a) # 1 => Len(Tail(a)) # 0
  BY <1>1, <1>2, <1>7
<1>9. Len(a) # 1 => Tail(a) # <<>>
  BY <1>6, <1>8
<1>10. Len(Tail(a)) + Len(Append(b, x)) = Len(a) + Len(b)
  BY <1>1, <1>2, <1>3, <1>5
<1>11. QED
  BY <1>2, <1>3, <1>4, <1>9, <1>10

\* Nothing written replaces nothing.
LEMMA NothingReplaced ==
    ASSUME NEW rows
    PROVE  Replacing(rows, {}) = rows
BY DEF Replacing, Ids

\* A client that has written nothing sees what is stored.
LEMMA UnwrittenIsKeyed ==
    ASSUME TablesAreKeyed, NEW c \in Savers, table[c] \in Tables, written[c] = {}
    PROVE  Visible(c) = stored[table[c]] /\ Keyed(Visible(c))
<1>1. Visible(c) = stored[table[c]]
  BY NothingReplaced DEF Visible
<1>2. QED
  BY <1>1 DEF TablesAreKeyed

\* A request begins with the rows it asks to save.
LEMMA BeginSaveStep ==
    ASSUME SavesInv, NEW c \in Savers, NEW t \in Tables, NEW rows \in Seq(Given(t)),
           rows # <<>>, t # "task" => Len(rows) <= 1, BeginSave(c, t, rows)
    PROVE  SavesInv'
<1>1. rows \in Seq(TableRows(t))
  <2>1. Given(t) \subseteq TableRows(t)
    BY GivenAreRows
  <2>2. QED
    BY <2>1
<1>2. SaverFunctions'
  BY DEF SavesInv, SaverFunctions, BeginSave
<1>3. /\ stored' = stored /\ written' = written /\ ready' = ready
      /\ statement[c] = "idle" /\ statement'[c] = "checking"
      /\ table'[c] = t /\ asked'[c] = rows /\ todo'[c] = rows
      /\ result'[c] = <<>> /\ reply'[c] = "none" /\ known'[c] = stored["run"]
  BY DEF SavesInv, SaverFunctions, BeginSave
<1>4. \A d \in Savers \ {c} : SameSaver(d) /\ known'[d] = known[d]
  BY DEF SavesInv, SaverFunctions, BeginSave, SameSaver
<1>5. written[c] = {} /\ ready[c] = <<>>
  BY <1>3 DEF SavesInv, SaverSound, Progress
<1>6. SaverTyped(c)'
  BY <1>1, <1>3, <1>5 DEF SaverTyped, Statements, Answers
<1>7. Keyed(Visible(c)')
  <2>1. Visible(c)' = stored[t]
    BY <1>3, <1>5, NothingReplaced DEF Visible
  <2>2. QED
    BY <2>1 DEF SavesInv, TablesAreKeyed
<1>8. Progress(c)'
  BY <1>3, <1>5 DEF Progress
<1>9. GraphSound(c)'
  BY <1>3, <1>5 DEF GraphSound
<1>10. RunSound(c)'
  BY <1>3, <1>5 DEF RunSound
<1>11. SaverSound(c)'
  BY <1>6, <1>7, <1>8, <1>9, <1>10 DEF SaverSound, Keyed
<1>12. \A d \in Savers \ {c} : Apart(c, d)'
  BY <1>3, <1>5 DEF Apart
<1>13. QED
  BY <1>2, <1>3, <1>4, <1>11, <1>12, OneSaver

\* A request that fails leaves nothing behind.
LEMMA FailSaveStep ==
    ASSUME SavesInv, NEW c \in Savers, NEW ending \in Answers, FailSave(c, ending)
    PROVE  SavesInv'
<1>1. SaverFunctions'
  BY DEF SavesInv, SaverFunctions, FailSave, EndSave
<1>2. /\ stored' = stored /\ known' = known /\ table' = table /\ asked' = asked
      /\ result' = result /\ written'[c] = {} /\ statement'[c] = "idle"
      /\ todo'[c] = <<>> /\ ready'[c] = <<>> /\ reply'[c] = ending
  BY DEF SavesInv, SaverFunctions, FailSave, EndSave
<1>3. \A d \in Savers \ {c} : SameSaver(d) /\ known'[d] = known[d]
  BY DEF SavesInv, SaverFunctions, FailSave, EndSave, SameSaver
<1>4. SaverTyped(c)
  BY DEF SavesInv, SaverSound
<1>5. SaverTyped(c)'
  BY <1>2, <1>4 DEF SaverTyped, Statements
<1>6. Keyed(Visible(c)')
  <2>1. Visible(c)' = stored[table[c]]
    BY <1>2, NothingReplaced DEF Visible
  <2>2. QED
    BY <1>4, <2>1 DEF SavesInv, TablesAreKeyed, SaverTyped
<1>7. Progress(c)'
  BY <1>2 DEF SavesInv, SaverSound, Progress
<1>8. GraphSound(c)' /\ RunSound(c)'
  BY <1>2 DEF GraphSound, RunSound
<1>9. SaverSound(c)'
  BY <1>5, <1>6, <1>7, <1>8 DEF SaverSound, Keyed
<1>10. \A d \in Savers \ {c} : Apart(c, d)'
  BY <1>2 DEF Apart
<1>11. known'[c] \subseteq stored["run"]
  BY <1>2 DEF SavesInv, TablesAreKeyed
<1>12. QED
  BY <1>1, <1>2, <1>3, <1>9, <1>10, <1>11, OneSaver

\* A request passes its checks and goes on with the rows to look up.
LEMMA ProceedStep ==
    ASSUME SavesInv, NEW c \in Savers, statement[c] = "checking",
           NEW rows \in Seq(TableRows(table[c])), Len(rows) = Len(asked[c]), rows # <<>>,
           table[c] = "graph" => Head(rows).key = Head(asked[c]).key,
           Proceed(c, rows)
    PROVE  SavesInv'
<1>1. SaverFunctions'
  BY DEF SavesInv, SaverFunctions, Proceed
<1>2. /\ stored' = stored /\ written' = written /\ known' = known /\ table' = table
      /\ asked' = asked /\ result' = result /\ ready' = ready /\ reply' = reply
      /\ statement'[c] = "resolving" /\ todo'[c] = rows
  BY DEF SavesInv, SaverFunctions, Proceed
<1>3. \A d \in Savers \ {c} : SameSaver(d) /\ known'[d] = known[d]
  BY DEF SavesInv, SaverFunctions, Proceed, SameSaver
<1>4. SaverTyped(c) /\ Progress(c)
  BY DEF SavesInv, SaverSound
<1>5. SaverTyped(c)'
  BY <1>2, <1>4 DEF SaverTyped, Statements
<1>6. Keyed(Visible(c)')
  <2>1. Visible(c)' = Visible(c)
    BY <1>2 DEF Visible
  <2>2. QED
    BY <2>1 DEF SavesInv, SaverSound
<1>7. written[c] = {} /\ ready[c] = <<>> /\ result[c] = <<>> /\ asked[c] # <<>>
  BY <1>4 DEF Progress
<1>8. Progress(c)'
  BY <1>2, <1>4, <1>7 DEF Progress, SaverTyped
<1>9. GraphSound(c)'
  BY <1>2, <1>7 DEF GraphSound
<1>10. RunSound(c)'
  BY <1>2, <1>7 DEF RunSound
<1>11. SaverSound(c)'
  BY <1>5, <1>6, <1>8, <1>9, <1>10 DEF SaverSound, Keyed
<1>12. \A d \in Savers \ {c} : Apart(c, d)'
  BY <1>2, <1>7 DEF Apart
<1>13. known'[c] \subseteq stored["run"]
  BY <1>2 DEF SavesInv, TablesAreKeyed
<1>14. QED
  BY <1>1, <1>2, <1>3, <1>11, <1>12, <1>13, OneSaver

\* The checks of a graph.
LEMMA CheckGraphStep ==
    ASSUME SavesInv, NEW c \in Savers, CheckGraph(c)
    PROVE  SavesInv'
<1> DEFINE row == Head(todo[c])
           canonical == Canonical(stored["graph"], row)
<1>1. statement[c] = "checking" /\ table[c] = "graph"
  BY DEF CheckGraph
<1>2. SaverTyped(c) /\ Progress(c) /\ TablesAreKeyed
  BY DEF SavesInv, SaverSound
<1>3. /\ todo[c] = asked[c] /\ asked[c] # <<>> /\ Len(asked[c]) = 1
      /\ written[c] = {} /\ ready[c] = <<>> /\ result[c] = <<>>
      /\ asked[c] \in Seq(TableRows("graph"))
  <2>1. todo[c] = asked[c] /\ asked[c] # <<>> /\ Len(asked[c]) <= 1 /\ written[c] = {}
        /\ ready[c] = <<>> /\ result[c] = <<>>
    BY <1>1, <1>2 DEF Progress
  <2>2. asked[c] \in Seq(TableRows("graph"))
    BY <1>1, <1>2 DEF SaverTyped
  <2>3. Len(asked[c]) = 1
    BY <2>1, <2>2, LengthOne
  <2>4. QED
    BY <2>1, <2>2, <2>3
<1>4. row \in TableRows("graph") /\ row = Head(asked[c])
  BY <1>3
<1>5. stored["graph"] \subseteq TableRows("graph") /\ "graph" \in Tables
  BY <1>2 DEF TablesAreKeyed, Tables
<1>6. canonical \in TableRows("graph") /\ canonical.key = row.key
  BY <1>4, <1>5, CanonicalRow
<1>7. CASE FailSave(c, "conflict")
  BY <1>7, FailSaveStep DEF Answers
<1>8. CASE Proceed(c, <<canonical>>)
  <2>1. <<canonical>> \in Seq(TableRows(table[c])) /\ Len(<<canonical>>) = Len(asked[c])
        /\ <<canonical>> # <<>> /\ Head(<<canonical>>) = canonical
    BY <1>1, <1>3, <1>6
  <2>2. Head(<<canonical>>).key = Head(asked[c]).key
    BY <2>1, <1>4, <1>6
  <2> HIDE DEF canonical
  <2>3. QED
    BY <1>1, <1>8, <2>1, <2>2, ProceedStep
<1>9. CASE /\ canonical \in stored["graph"]
           /\ result' = [result EXCEPT ![c] = <<canonical.id>>]
           /\ todo' = [todo EXCEPT ![c] = <<>>]
           /\ statement' = [statement EXCEPT ![c] = "committing"]
           /\ UNCHANGED <<stored, written, table, asked, ready, reply, known, requests>>
  <2> HIDE DEF canonical
  <2>1. SaverFunctions'
    BY <1>9 DEF SavesInv, SaverFunctions
  <2>2. /\ stored' = stored /\ written' = written /\ known' = known /\ table' = table
        /\ asked' = asked /\ ready' = ready /\ reply' = reply
        /\ statement'[c] = "committing" /\ todo'[c] = <<>> /\ result'[c] = <<canonical.id>>
    BY <1>9 DEF SavesInv, SaverFunctions
  <2>3. \A d \in Savers \ {c} : SameSaver(d) /\ known'[d] = known[d]
    BY <1>9 DEF SavesInv, SaverFunctions, SameSaver
  <2>4. canonical.id \in Ids(TableRows("graph"))
    BY <1>6 DEF Ids
  <2>5. SaverTyped(c)'
    BY <1>1, <1>2, <2>2, <2>4 DEF SaverTyped, Statements
  <2>6. Visible(c)' = stored["graph"]
    BY <1>1, <1>3, <2>2, NothingReplaced DEF Visible
  <2>7. Keyed(Visible(c)')
    BY <1>2, <1>5, <2>6 DEF TablesAreKeyed
  <2>8. Progress(c)'
    BY <1>2, <1>3, <2>2 DEF Progress
  <2>9. GraphSound(c)'
    BY <1>3, <1>4, <1>6, <1>9, <2>2, <2>6 DEF GraphSound
  <2>10. RunSound(c)'
    BY <1>1, <2>2 DEF RunSound
  <2>11. SaverSound(c)'
    BY <2>5, <2>7, <2>8, <2>9, <2>10 DEF SaverSound, Keyed
  <2>12. \A d \in Savers \ {c} : Apart(c, d)'
    BY <1>3, <2>2 DEF Apart
  <2>13. known'[c] \subseteq stored["run"]
    BY <2>2 DEF SavesInv, TablesAreKeyed
  <2>14. QED
    BY <2>1, <2>2, <2>3, <2>11, <2>12, <2>13, OneSaver
<1>10. QED
  BY <1>7, <1>8, <1>9 DEF CheckGraph

\* The lookup of a graph.
LEMMA ResolveGraphStep ==
    ASSUME SavesInv, NEW c \in Savers, ResolveGraph(c)
    PROVE  SavesInv'
<1> DEFINE row == Head(todo[c])
           canonical == Canonical(stored["graph"], row)
<1>1. statement[c] = "resolving" /\ table[c] = "graph"
  BY DEF ResolveGraph
<1>2. SaverTyped(c) /\ Progress(c) /\ TablesAreKeyed /\ GraphSound(c)
  BY DEF SavesInv, SaverSound
<1>3. /\ todo[c] # <<>> /\ asked[c] # <<>> /\ Len(asked[c]) <= 1
      /\ written[c] = {} /\ result[c] = <<>>
      /\ Len(todo[c]) + Len(ready[c]) + Len(result[c]) = Len(asked[c])
  BY <1>1, <1>2 DEF Progress
<1>4. /\ todo[c] \in Seq(TableRows("graph")) /\ ready[c] \in Seq(TableRows("graph"))
      /\ asked[c] \in Seq(TableRows("graph"))
  BY <1>1, <1>2 DEF SaverTyped
<1>5. Len(todo[c]) = 1 /\ Len(asked[c]) = 1
      /\ Len(<<>>) + Len(todo[c]) + Len(result[c]) = Len(asked[c])
  <2>1. Len(todo[c]) \in Nat /\ Len(todo[c]) # 0
    BY <1>3, <1>4, EmptySeq, LenProperties
  <2>2. Len(ready[c]) \in Nat /\ Len(asked[c]) \in Nat
    BY <1>4, LenProperties
  <2>3. Len(result[c]) = 0 /\ Len(<<>>) = 0
    BY <1>3
  <2>4. Len(asked[c]) <= 1 /\ Len(todo[c]) + Len(ready[c]) + Len(result[c]) = Len(asked[c])
    BY <1>3
  <2>5. Len(todo[c]) = 1 /\ Len(asked[c]) = 1
    BY <2>1, <2>2, <2>3, <2>4, OneRowPending
  <2>6. 0 + 1 + 0 = 1
    OBVIOUS
  <2>7. QED
    BY <2>3, <2>5, <2>6, Zenon
<1>6. row \in TableRows("graph") /\ row.key = Head(asked[c]).key
  <2>1. row \in TableRows("graph")
    BY <1>3, <1>4
  <2>2. QED
    BY <1>1, <1>2, <2>1 DEF GraphSound
<1>7. stored["graph"] \subseteq TableRows("graph") /\ "graph" \in Tables
  BY <1>2 DEF TablesAreKeyed, Tables
<1>8. canonical \in TableRows("graph") /\ canonical.key = row.key
  BY <1>6, <1>7, CanonicalRow
<1>9. CASE FailSave(c, "conflict")
  BY <1>9, FailSaveStep DEF Answers
<1>10. CASE /\ ready' = [ready EXCEPT ![c] = <<canonical>>]
            /\ todo' = [todo EXCEPT ![c] = <<>>]
            /\ statement' = [statement EXCEPT ![c] = "writing"]
            /\ UNCHANGED <<stored, written, table, asked, result, reply, known, requests>>
  <2> HIDE DEF canonical, row
  <2>1. SaverFunctions'
    BY <1>10 DEF SavesInv, SaverFunctions
  <2>2. /\ stored' = stored /\ written' = written /\ known' = known /\ table' = table
        /\ asked' = asked /\ result' = result /\ reply' = reply
        /\ statement'[c] = "writing" /\ todo'[c] = <<>> /\ ready'[c] = <<canonical>>
    BY <1>10 DEF SavesInv, SaverFunctions
  <2>3. \A d \in Savers \ {c} : SameSaver(d) /\ known'[d] = known[d]
    BY <1>10 DEF SavesInv, SaverFunctions, SameSaver
  <2>4. <<canonical>> \in Seq(TableRows("graph")) /\ Len(<<canonical>>) = 1
        /\ <<canonical>> # <<>> /\ Head(<<canonical>>) = canonical
    BY <1>8
  <2>5. SaverTyped(c)'
    BY <1>1, <1>2, <2>2, <2>4 DEF SaverTyped, Statements
  <2>6. Visible(c)' = Visible(c)
    BY <2>2 DEF Visible
  <2>7. Keyed(Visible(c)')
    BY <2>6 DEF SavesInv, SaverSound
  <2>8. Progress(c)'
    <3>1. Len(ready'[c]) = Len(todo[c])
      BY <1>5, <2>2, <2>4
    <3>2. Len(todo'[c]) + Len(ready'[c]) + Len(result'[c]) = Len(asked'[c])
      BY <1>5, <2>2, <3>1, Zenon
    <3>3. QED
      BY <1>2, <1>3, <2>2, <2>4, <3>2 DEF Progress
  <2>9. GraphSound(c)'
    BY <1>3, <1>6, <1>8, <2>2, <2>4 DEF GraphSound
  <2>10. RunSound(c)'
    BY <1>1, <2>2 DEF RunSound
  <2>11. SaverSound(c)'
    BY <2>5, <2>7, <2>8, <2>9, <2>10 DEF SaverSound, Keyed
  <2>12. \A d \in Savers \ {c} : Apart(c, d)'
    BY <1>3, <2>2 DEF Apart
  <2>13. known'[c] \subseteq stored["run"]
    BY <2>2 DEF SavesInv, TablesAreKeyed
  <2>14. QED
    BY <2>1, <2>2, <2>3, <2>11, <2>12, <2>13, OneSaver
<1>11. QED
  BY <1>9, <1>10 DEF ResolveGraph

\* The checks of a batch of tasks.
LEMMA CheckTasksStep ==
    ASSUME SavesInv, NEW c \in Savers, CheckTasks(c)
    PROVE  SavesInv'
<1>1. statement[c] = "checking" /\ table[c] = "task"
  BY DEF CheckTasks
<1>2. SaverTyped(c) /\ Progress(c)
  BY DEF SavesInv, SaverSound
<1>3. todo[c] = asked[c] /\ asked[c] # <<>> /\ asked[c] \in Seq(TableRows(table[c]))
  BY <1>1, <1>2 DEF Progress, SaverTyped
<1>4. CASE Proceed(c, todo[c])
  BY <1>1, <1>3, <1>4, ProceedStep
<1>5. CASE FailSave(c, "invalid")
  BY <1>5, FailSaveStep DEF Answers
<1>6. QED
  BY <1>4, <1>5 DEF CheckTasks

\* The check of a run.
LEMMA CheckRunStep ==
    ASSUME SavesInv, NEW c \in Savers, CheckRun(c)
    PROVE  SavesInv'
<1>1. statement[c] = "checking" /\ table[c] = "run"
  BY DEF CheckRun
<1>2. SaverTyped(c) /\ Progress(c)
  BY DEF SavesInv, SaverSound
<1>3. todo[c] = asked[c] /\ asked[c] # <<>> /\ asked[c] \in Seq(TableRows(table[c]))
  BY <1>1, <1>2 DEF Progress, SaverTyped
<1>4. CASE Proceed(c, todo[c])
  BY <1>1, <1>3, <1>4, ProceedStep
<1>5. CASE FailSave(c, "invalid")
  BY <1>5, FailSaveStep DEF Answers
<1>6. QED
  BY <1>4, <1>5 DEF CheckRun

\* The lookup of one task of a batch.
LEMMA ResolveTaskStep ==
    ASSUME SavesInv, NEW c \in Savers, ResolveTask(c)
    PROVE  SavesInv'
<1> DEFINE row == Head(todo[c])
           found == IF row.id \in Ids(stored["task"])
                    THEN row ELSE Canonical(stored["task"], row)
           next == IF Len(todo[c]) = 1 THEN "writing" ELSE statement[c]
<1>1. statement[c] = "resolving" /\ table[c] = "task"
  BY DEF ResolveTask
<1>2. SaverTyped(c) /\ Progress(c) /\ TablesAreKeyed
  BY DEF SavesInv, SaverSound
<1>3. /\ todo[c] # <<>> /\ asked[c] # <<>> /\ written[c] = {} /\ result[c] = <<>>
      /\ Len(todo[c]) + Len(ready[c]) + Len(result[c]) = Len(asked[c])
  BY <1>1, <1>2 DEF Progress
<1>4. /\ todo[c] \in Seq(TableRows("task")) /\ ready[c] \in Seq(TableRows("task"))
      /\ asked[c] \in Seq(TableRows("task"))
  BY <1>1, <1>2 DEF SaverTyped
<1>5. row \in TableRows("task")
  BY <1>3, <1>4
<1>6. stored["task"] \subseteq TableRows("task") /\ "task" \in Tables
  BY <1>2 DEF TablesAreKeyed, Tables
<1>7. found \in TableRows("task")
  BY <1>5, <1>6, CanonicalRow
<1>8. /\ ready' = [ready EXCEPT ![c] = Append(ready[c], found)]
      /\ todo' = [todo EXCEPT ![c] = Tail(todo[c])]
      /\ statement' = [statement EXCEPT ![c] = next]
      /\ UNCHANGED <<stored, written, table, asked, result, reply, known, requests>>
  BY DEF ResolveTask
<1> HIDE DEF found
<1>9. SaverFunctions'
  BY <1>8 DEF SavesInv, SaverFunctions
<1>10. /\ stored' = stored /\ written' = written /\ known' = known /\ table' = table
       /\ asked' = asked /\ result' = result /\ reply' = reply
       /\ statement'[c] = next /\ todo'[c] = Tail(todo[c])
       /\ ready'[c] = Append(ready[c], found)
  BY <1>8 DEF SavesInv, SaverFunctions
<1>11. \A d \in Savers \ {c} : SameSaver(d) /\ known'[d] = known[d]
  BY <1>8 DEF SavesInv, SaverFunctions, SameSaver
<1>12. /\ Tail(todo[c]) \in Seq(TableRows("task"))
       /\ Append(ready[c], found) \in Seq(TableRows("task")) /\ Append(ready[c], found) # <<>>
       /\ Len(todo[c]) # 1 => Tail(todo[c]) # <<>>
       /\ Len(Tail(todo[c])) + Len(Append(ready[c], found)) = Len(todo[c]) + Len(ready[c])
  <2>1. todo[c] # <<>>
    BY <1>3
  <2>2. todo[c] \in Seq(TableRows("task")) /\ ready[c] \in Seq(TableRows("task"))
    BY <1>4
  <2>3. PICK a \in Seq(TableRows("task")) : a = todo[c]
    BY <2>2
  <2>4. PICK b \in Seq(TableRows("task")) : b = ready[c]
    BY <2>2
  <2>5. PICK x \in TableRows("task") : x = found
    BY <1>7
  <2>6. a # <<>>
    BY <2>1, <2>3
  <2>7. /\ Tail(a) \in Seq(TableRows("task"))
        /\ Append(b, x) \in Seq(TableRows("task")) /\ Append(b, x) # <<>>
        /\ Len(a) # 1 => Tail(a) # <<>>
        /\ Len(Tail(a)) + Len(Append(b, x)) = Len(a) + Len(b)
    BY <2>6, RowMoved
  <2>8. QED
    BY <2>3, <2>4, <2>5, <2>7, Zenon
<1>13. Len(Tail(todo[c])) + Len(Append(ready[c], found)) + Len(result[c]) = Len(asked[c])
  BY <1>3, <1>12
<1>14. SaverTyped(c)'
  BY <1>1, <1>2, <1>10, <1>12, <1>13 DEF SaverTyped, Statements
<1>15. Visible(c)' = Visible(c)
  BY <1>10 DEF Visible
<1>16. Keyed(Visible(c)')
  BY <1>15 DEF SavesInv, SaverSound
<1>17. Progress(c)'
  <2>1. next # "writing" => next = "resolving" /\ Tail(todo[c]) # <<>>
    BY <1>1, <1>12
  <2>2. next \in {"resolving", "writing"}
    BY <1>1
  <2> HIDE DEF next
  <2>3. QED
    BY <1>1, <1>3, <1>10, <1>12, <1>13, <2>1, <2>2 DEF Progress
<1>18. GraphSound(c)' /\ RunSound(c)'
  BY <1>1, <1>10 DEF GraphSound, RunSound
<1>19. SaverSound(c)'
  BY <1>14, <1>16, <1>17, <1>18 DEF SaverSound, Keyed
<1>20. \A d \in Savers \ {c} : Apart(c, d)'
  BY <1>3, <1>10 DEF Apart
<1>21. known'[c] \subseteq stored["run"]
  BY <1>10 DEF SavesInv, TablesAreKeyed
<1>22. QED
  BY <1>9, <1>10, <1>11, <1>19, <1>20, <1>21, OneSaver

\* The lookup of a run: what the request knew under its id is what it writes.
LEMMA ResolveRunStep ==
    ASSUME SavesInv, NEW c \in Savers, ResolveRun(c)
    PROVE  SavesInv'
<1>1. statement[c] = "resolving" /\ table[c] = "run"
  BY DEF ResolveRun
<1>2. SaverTyped(c) /\ Progress(c) /\ TablesAreKeyed
  BY DEF SavesInv, SaverSound
<1>3. /\ todo[c] # <<>> /\ asked[c] # <<>> /\ Len(asked[c]) <= 1
      /\ written[c] = {} /\ result[c] = <<>>
      /\ Len(todo[c]) + Len(ready[c]) + Len(result[c]) = Len(asked[c])
  BY <1>1, <1>2 DEF Progress
<1>4. /\ todo[c] \in Seq(TableRows("run")) /\ ready[c] \in Seq(TableRows("run"))
      /\ asked[c] \in Seq(TableRows("run"))
  BY <1>1, <1>2 DEF SaverTyped
<1>5. Len(todo[c]) = 1 /\ Len(asked[c]) = 1
      /\ Len(<<>>) + Len(todo[c]) + Len(result[c]) = Len(asked[c])
  <2>1. Len(todo[c]) \in Nat /\ Len(todo[c]) # 0
    BY <1>3, <1>4, EmptySeq, LenProperties
  <2>2. Len(ready[c]) \in Nat /\ Len(asked[c]) \in Nat
    BY <1>4, LenProperties
  <2>3. Len(result[c]) = 0 /\ Len(<<>>) = 0
    BY <1>3
  <2>4. Len(asked[c]) <= 1 /\ Len(todo[c]) + Len(ready[c]) + Len(result[c]) = Len(asked[c])
    BY <1>3
  <2>5. Len(todo[c]) = 1 /\ Len(asked[c]) = 1
    BY <2>1, <2>2, <2>3, <2>4, OneRowPending
  <2>6. 0 + 1 + 0 = 1
    OBVIOUS
  <2>7. QED
    BY <2>3, <2>5, <2>6, Zenon
<1>6. CASE FailSave(c, "conflict")
  BY <1>6, FailSaveStep DEF Answers
<1>7. CASE /\ ~RunConflict(Head(todo[c]))
           /\ ready' = [ready EXCEPT ![c] = todo[c]]
           /\ todo' = [todo EXCEPT ![c] = <<>>]
           /\ statement' = [statement EXCEPT ![c] = "writing"]
           /\ UNCHANGED <<stored, written, table, asked, result, reply, known, requests>>
  <2>1. SaverFunctions'
    BY <1>7 DEF SavesInv, SaverFunctions
  <2>2. /\ stored' = stored /\ written' = written /\ known' = known /\ table' = table
        /\ asked' = asked /\ result' = result /\ reply' = reply
        /\ statement'[c] = "writing" /\ todo'[c] = <<>> /\ ready'[c] = todo[c]
    BY <1>7 DEF SavesInv, SaverFunctions
  <2>3. \A d \in Savers \ {c} : SameSaver(d) /\ known'[d] = known[d]
    BY <1>7 DEF SavesInv, SaverFunctions, SameSaver
  <2>4. SaverTyped(c)'
    BY <1>1, <1>2, <2>2 DEF SaverTyped, Statements
  <2>5. Visible(c)' = Visible(c)
    BY <2>2 DEF Visible
  <2>6. Keyed(Visible(c)')
    BY <2>5 DEF SavesInv, SaverSound
  <2>7. Progress(c)'
    <3>1. Len(todo'[c]) + Len(ready'[c]) + Len(result'[c]) = Len(asked'[c])
      BY <1>5, <2>2, Zenon
    <3>2. QED
      BY <1>3, <2>2, <3>1 DEF Progress
  <2>8. GraphSound(c)'
    BY <1>1, <2>2 DEF GraphSound
  <2>9. RunSound(c)'
    <3>1. ASSUME NEW run \in known[c], Head(todo[c]).id = run.id
          PROVE  Head(todo[c]) = run
      <4>1. run \in stored["run"] /\ Keyed(stored["run"])
        BY <1>2 DEF TablesAreKeyed, Tables
      <4>2. Head(todo[c]).id \in Ids(stored["run"])
        BY <3>1, <4>1 DEF Ids
      <4>3. Head(todo[c]) \in stored["run"]
        BY <1>7, <4>2 DEF RunConflict
      <4>4. QED
        BY <3>1, <4>1, <4>3 DEF Keyed
    <3>2. QED
      BY <1>3, <2>2, <3>1 DEF RunSound
  <2>10. SaverSound(c)'
    BY <2>4, <2>6, <2>7, <2>8, <2>9 DEF SaverSound, Keyed
  <2>11. \A d \in Savers \ {c} : Apart(c, d)'
    BY <1>3, <2>2 DEF Apart
  <2>12. known'[c] \subseteq stored["run"]
    BY <2>2 DEF SavesInv, TablesAreKeyed
  <2>13. QED
    BY <2>1, <2>2, <2>3, <2>10, <2>11, <2>12, OneSaver
<1>8. QED
  BY <1>6, <1>7 DEF ResolveRun

\* The upsert keeps every key for one row, and graphs under their canonical id.
LEMMA WriteRowStep ==
    ASSUME SavesInv, NEW c \in Savers, WriteRow(c)
    PROVE  SavesInv'
<1> DEFINE row == Head(ready[c])
           old == Target(c, row)
           new == [row EXCEPT !.id = IF old = {} THEN row.id ELSE (CHOOSE r \in old : TRUE).id]
           clash == \E r \in Visible(c) \ old : r.id = new.id \/ r.key = new.key
           next == IF Len(ready[c]) = 1 THEN "committing" ELSE statement[c]
<1>1. statement[c] = "writing" /\ ~SaveWaits(c)
  BY DEF WriteRow
<1>2. SaverTyped(c) /\ Progress(c) /\ TablesAreKeyed /\ Keyed(Visible(c)) /\ GraphSound(c)
      /\ RunSound(c)
  BY DEF SavesInv, SaverSound
<1>3. /\ ready[c] # <<>> /\ asked[c] # <<>>
      /\ table[c] # "task" => Len(asked[c]) <= 1
      /\ result[c] = <<>> => written[c] = {}
      /\ Len(todo[c]) + Len(ready[c]) + Len(result[c]) = Len(asked[c])
  BY <1>1, <1>2 DEF Progress
<1>4. /\ todo[c] \in Seq(TableRows(table[c])) /\ ready[c] \in Seq(TableRows(table[c]))
      /\ asked[c] \in Seq(TableRows(table[c]))
      /\ result[c] \in Seq(Ids(TableRows(table[c])))
      /\ table[c] \in Tables /\ written[c] \subseteq TableRows(table[c])
  BY <1>2 DEF SaverTyped
<1>5. table[c] # "task" => Len(ready[c]) = 1 /\ result[c] = <<>>
  <2> SUFFICES ASSUME table[c] # "task"
               PROVE  Len(ready[c]) = 1 /\ Len(result[c]) = 0
    BY <1>4, EmptySeq
  <2>1. Len(ready[c]) \in Nat /\ Len(ready[c]) # 0
    BY <1>3, <1>4, EmptySeq, LenProperties
  <2>2. Len(todo[c]) \in Nat /\ Len(asked[c]) \in Nat /\ Len(result[c]) \in Nat
    BY <1>4, LenProperties
  <2>3. Len(asked[c]) <= 1 /\ Len(todo[c]) + Len(ready[c]) + Len(result[c]) = Len(asked[c])
    BY <1>3
  <2>4. \A l, m, k, n : l \in Nat /\ l # 0 /\ m \in Nat /\ k \in Nat /\ n \in Nat /\ n <= 1
                        /\ m + l + k = n => l = 1 /\ k = 0
    OBVIOUS
  <2>5. QED
    BY <2>1, <2>2, <2>3, <2>4
<1>6. table[c] # "task" => written[c] = {} /\ Visible(c) = stored[table[c]]
  BY <1>3, <1>5, NothingReplaced DEF Visible
<1>7. row \in TableRows(table[c])
  BY <1>3, <1>4
<1>8. Visible(c) \subseteq TableRows(table[c])
  BY <1>2, <1>4 DEF Visible, Replacing, TablesAreKeyed
<1>9. old \subseteq Visible(c)
  BY DEF Target
<1>10. /\ new \in TableRows(table[c]) /\ new.key = row.key
       /\ old = {} => new = row
       /\ old # {} => \E o \in old : new.id = o.id
       /\ (\A o \in old : o.id = row.id) => new = row
  <2>1. CASE old = {}
    <3>1. row.id \in Ids(TableRows(table[c]))
      BY <1>7 DEF Ids
    <3>2. new = [row EXCEPT !.id = row.id]
      BY <2>1
    <3> HIDE DEF new, old, row
    <3>3. new = row
      BY <1>4, <1>7, <3>1, <3>2, RowUnderId
    <3>4. QED
      BY <1>7, <2>1, <3>3
  <2>2. CASE old # {}
    <3>1. PICK o \in old : o = CHOOSE r \in old : TRUE
      BY <2>2
    <3>2. new = [row EXCEPT !.id = o.id]
      BY <2>2, <3>1
    <3>3. o.id \in Ids(TableRows(table[c]))
      BY <1>8, <1>9, <3>1 DEF Ids
    <3> HIDE DEF new, old, row
    <3>4. new \in TableRows(table[c]) /\ new.key = row.key /\ new.id = o.id
          /\ (o.id = row.id => new = row)
      BY <1>4, <1>7, <3>2, <3>3, RowUnderId
    <3>5. QED
      BY <2>2, <3>1, <3>4
  <2>3. QED
    BY <2>1, <2>2
<1>11. table[c] # "graph" => new = row
  <2>1. table[c] # "graph" => \A o \in old : o.id = row.id
    BY DEF Target
  <2>2. QED
    BY <1>10, <2>1
<1>12. CASE FailSave(c, "conflict")
  BY <1>12, FailSaveStep DEF Answers
<1>13. CASE /\ ~clash
            /\ written' = [written EXCEPT ![c] = Replacing(written[c], {new})]
            /\ result' = [result EXCEPT ![c] = Append(result[c], new.id)]
            /\ ready' = [ready EXCEPT ![c] = Tail(ready[c])]
            /\ statement' = [statement EXCEPT ![c] = next]
            /\ UNCHANGED <<stored, table, asked, todo, reply, known, requests>>
  <2>1. \A o \in old : o.id = new.id
    <3>1. CASE table[c] = "graph"
      <4>1. \A o \in old : o.key = row.key
        BY <3>1 DEF Target
      <4>2. QED
        BY <1>2, <1>9, <1>10, <4>1 DEF Keyed
    <3>2. CASE table[c] # "graph"
      BY <1>11, <3>2 DEF Target
    <3>3. QED
      BY <3>1, <3>2
  <2>2. \A r \in Visible(c) : r.id # new.id => r.key # new.key
    BY <1>13, <2>1
  <2>3. \A r \in Visible(c) : r.id = new.id \/ r.key = new.key => r \in old
    BY <1>13
  <2>4. table[c] = "graph" =>
           \A g \in stored["graph"] : new.id = g.id <=> new.key = g.key
    <3> SUFFICES ASSUME table[c] = "graph", NEW g \in stored["graph"]
                 PROVE  new.id = g.id <=> new.key = g.key
      OBVIOUS
    <3>1. g \in Visible(c)
      BY <1>6
    <3>2. g \in old => g.key = row.key /\ g.id = new.id
      BY <2>1 DEF Target
    <3>3. QED
      BY <1>10, <2>3, <3>1, <3>2
  <2>5. ASSUME NEW d \in Savers \ {c}, table[c] = table[d], NEW b \in written[d]
        PROVE  new.id # b.id /\ new.key # b.key
    <3>1. ~SaveWaitsFor(c, d)
      BY <1>1 DEF SaveWaits
    <3>2. b.id # row.id /\ b.key # row.key
          /\ \A o \in stored[table[c]] : ~(o.id = b.id /\ o.key = row.key)
      BY <1>1, <2>5, <3>1 DEF SaveWaitsFor
    <3>3. CASE table[c] = "graph"
      <4>1. \A o \in old : o \in stored[table[c]] /\ o.key = row.key
        BY <1>6, <3>3 DEF Target
      <4>2. QED
        BY <1>10, <3>2, <4>1
    <3>4. CASE table[c] # "graph"
      BY <1>11, <3>2, <3>4
    <3>5. QED
      BY <3>3, <3>4
  <2>6. new.id \in Ids(TableRows(table[c]))
    BY <1>10 DEF Ids
  <2>7. /\ Tail(ready[c]) \in Seq(TableRows(table[c]))
        /\ Append(result[c], new.id) \in Seq(Ids(TableRows(table[c])))
        /\ Append(result[c], new.id) # <<>>
        /\ Len(ready[c]) # 1 => Tail(ready[c]) # <<>>
        /\ Len(Tail(ready[c])) + Len(Append(result[c], new.id)) = Len(ready[c]) + Len(result[c])
    <3>1. PICK a \in Seq(TableRows(table[c])) : a = ready[c]
      BY <1>4
    <3>2. PICK b \in Seq(Ids(TableRows(table[c]))) : b = result[c]
      BY <1>4
    <3>3. PICK x \in Ids(TableRows(table[c])) : x = new.id
      BY <2>6
    <3>4. a # <<>>
      BY <1>3, <3>1
    <3>5. /\ Tail(a) \in Seq(TableRows(table[c]))
          /\ Append(b, x) \in Seq(Ids(TableRows(table[c]))) /\ Append(b, x) # <<>>
          /\ Len(a) # 1 => Tail(a) # <<>>
          /\ Len(Tail(a)) + Len(Append(b, x)) = Len(a) + Len(b)
      BY <3>4, RowMoved
    <3> HIDE DEF new
    <3>6. QED
      BY <3>1, <3>2, <3>3, <3>5, Zenon
  <2> HIDE DEF old, new, clash, row
  <2>8. SaverFunctions'
    BY <1>13 DEF SavesInv, SaverFunctions
  <2>9. /\ stored' = stored /\ known' = known /\ table' = table
        /\ asked' = asked /\ todo' = todo /\ reply' = reply
        /\ statement'[c] = next /\ ready'[c] = Tail(ready[c])
        /\ result'[c] = Append(result[c], new.id)
        /\ written'[c] = Replacing(written[c], {new})
    BY <1>13 DEF SavesInv, SaverFunctions
  <2>10. \A d \in Savers \ {c} : SameSaver(d) /\ known'[d] = known[d]
    BY <1>13 DEF SavesInv, SaverFunctions, SameSaver
  <2>11. next \in {"writing", "committing"} /\ (next = "writing" => Len(ready[c]) # 1)
    BY <1>1
  <2> HIDE DEF next
  <2>12. written'[c] \subseteq written[c] \cup {new} /\ new \in written'[c]
    BY <2>9 DEF Replacing
  <2>13. SaverTyped(c)'
    BY <1>2, <1>4, <1>10, <2>7, <2>9, <2>11, <2>12 DEF SaverTyped, Statements
  <2>14. Visible(c)' = Replacing(Visible(c), {new})
    <3>1. Visible(c)' = Replacing(stored[table[c]], Replacing(written[c], {new}))
      BY <2>9 DEF Visible
    <3>2. Visible(c) = Replacing(stored[table[c]], written[c])
      BY DEF Visible
    <3>3. QED
      BY <3>1, <3>2, ReplacingMore
  <2>15. Keyed(Visible(c)')
    BY <1>2, <2>2, <2>14 DEF Keyed, Replacing, Ids
  <2>16. Progress(c)'
    <3>1. Len(todo'[c]) + Len(ready'[c]) + Len(result'[c]) = Len(asked'[c])
      <4>1. PICK l \in Nat : l = Len(todo[c])
        BY <1>4, LenProperties
      <4>2. PICK m \in Nat : m = Len(ready[c])
        BY <1>4, LenProperties
      <4>3. PICK n \in Nat : n = Len(result[c])
        BY <1>4, LenProperties
      <4>4. PICK m1 \in Nat : m1 = Len(Tail(ready[c]))
        BY <2>7, LenProperties
      <4>5. PICK n1 \in Nat : n1 = Len(Append(result[c], new.id))
        BY <2>7, LenProperties
      <4>6. m1 + n1 = m + n
        BY <2>7, <4>2, <4>3, <4>4, <4>5
      <4>7. l + m1 + n1 = l + m + n
        BY <4>6
      <4>8. QED
        BY <1>3, <2>9, <4>1, <4>2, <4>3, <4>4, <4>5, <4>7, Zenon
    <3>2. QED
      BY <1>2, <1>3, <2>7, <2>9, <2>11, <3>1 DEF Progress
  <2>17. GraphSound(c)'
    <3> SUFFICES ASSUME table[c] = "graph"
                 PROVE  GraphSound(c)'
      BY <2>9 DEF GraphSound
    <3>1. next = "committing" /\ written'[c] = {new} /\ result'[c] = <<new.id>>
      <4>1. next = "committing"
        BY <1>5, <2>11
      <4>2. written'[c] = {new}
        BY <1>6, <2>9, <2>12
      <4>3. result'[c] = <<new.id>>
        <5>1. Append(<<>>, new.id) = <<new.id>>
          OBVIOUS
        <5>2. QED
          BY <1>5, <2>9, <5>1
      <4>4. QED
        BY <4>1, <4>2, <4>3
    <3>2. new.key = Head(asked[c]).key
      BY <1>1, <1>2, <1>10 DEF GraphSound, row
    <3>3. new \in Visible(c)'
      BY <2>14 DEF Replacing
    <3>4. QED
      BY <2>4, <2>9, <3>1, <3>2, <3>3 DEF GraphSound
  <2>18. RunSound(c)'
    <3> SUFFICES ASSUME table[c] = "run"
                 PROVE  RunSound(c)'
      BY <2>9 DEF RunSound
    <3>1. next = "committing"
      BY <1>5, <2>11
    <3>2. written'[c] = {new} /\ new = Head(ready[c])
      BY <1>6, <1>11, <2>9, <2>12 DEF row
    <3>3. QED
      BY <1>1, <1>2, <2>9, <3>1, <3>2 DEF RunSound
  <2>19. SaverSound(c)'
    BY <2>13, <2>15, <2>16, <2>17, <2>18 DEF SaverSound, Keyed
  <2>20. \A d \in Savers \ {c} : Apart(c, d)'
    <3> SUFFICES ASSUME NEW d \in Savers \ {c}, table[c] = table[d],
                        NEW a \in written'[c], NEW b \in written[d]
                 PROVE  a.id # b.id /\ a.key # b.key
      BY <2>9, <2>10 DEF Apart, SameSaver
    <3>1. CASE a = new
      BY <2>5, <3>1
    <3>2. CASE a \in written[c]
      <4>1. Apart(c, d)
        BY DEF SavesInv
      <4>2. QED
        BY <3>2, <4>1 DEF Apart
    <3>3. QED
      BY <2>12, <3>1, <3>2
  <2>21. known'[c] \subseteq stored["run"]
    BY <2>9 DEF SavesInv, TablesAreKeyed
  <2>22. QED
    BY <2>8, <2>9, <2>10, <2>19, <2>20, <2>21, OneSaver
<1>14. QED
  BY <1>12, <1>13 DEF WriteRow

\* What a commit changes: one table takes what one transaction has written.
LEMMA CommitSaveFacts ==
    ASSUME SavesInv, NEW c \in Savers, CommitSave(c)
    PROVE  /\ SaverFunctions' /\ table[c] \in Tables
           /\ stored'[table[c]] = Visible(c)
           /\ \A t \in Tables \ {table[c]} : stored'[t] = stored[t]
           /\ \A d \in Savers : known'[d] = known[d] \cap stored'["run"]
           /\ \A d \in Savers \ {c} : SameSaver(d)
           /\ statement[c] = "committing" /\ statement'[c] = "idle" /\ written'[c] = {}
           /\ table' = table /\ asked' = asked /\ result' = result
           /\ todo'[c] = <<>> /\ ready'[c] = <<>> /\ reply'[c] = "ok"
<1>1. table[c] \in Tables
  BY DEF SavesInv, SaverSound, SaverTyped
<1>2. SaverFunctions'
  BY DEF SavesInv, SaverFunctions, CommitSave, EndSave
<1>3. /\ stored'[table[c]] = Visible(c)
      /\ \A t \in Tables \ {table[c]} : stored'[t] = stored[t]
  BY <1>1 DEF SavesInv, SaverFunctions, CommitSave, EndSave, Visible
<1>4. \A d \in Savers : known'[d] = known[d] \cap stored'["run"]
  BY DEF CommitSave
<1>5. \A d \in Savers \ {c} : SameSaver(d)
  BY DEF SavesInv, SaverFunctions, CommitSave, EndSave, SameSaver
<1>6. /\ statement[c] = "committing" /\ statement'[c] = "idle" /\ written'[c] = {}
      /\ table' = table /\ asked' = asked /\ result' = result
      /\ todo'[c] = <<>> /\ ready'[c] = <<>> /\ reply'[c] = "ok"
  BY DEF SavesInv, SaverFunctions, CommitSave, EndSave
<1>7. QED
  BY <1>1, <1>2, <1>3, <1>4, <1>5, <1>6

\* A graph is found under its id and key after every commit.
LEMMA GraphsStay ==
    ASSUME SavesInv, NEW c \in Savers, CommitSave(c), NEW graph \in stored["graph"]
    PROVE  \E later \in stored'["graph"] : later.id = graph.id /\ later.key = graph.key
<1>1. CASE table[c] = "graph"
  <2>1. stored'["graph"] = Replacing(stored["graph"], written[c])
    BY <1>1, CommitSaveFacts DEF Visible
  <2>2. CASE graph.id \notin Ids(written[c])
    BY <2>1, <2>2 DEF Replacing
  <2>3. CASE graph.id \in Ids(written[c])
    <3>1. PICK row \in written[c] : row.id = graph.id
      BY <2>3 DEF Ids
    <3>2. statement[c] # "idle"
      BY DEF CommitSave
    <3>3. row.key = graph.key
      BY <1>1, <3>1, <3>2 DEF SavesInv, SaverSound, GraphSound
    <3>4. row \in stored'["graph"]
      BY <2>1 DEF Replacing
    <3>5. QED
      BY <3>1, <3>3, <3>4
  <2>4. QED
    BY <2>2, <2>3
<1>2. CASE table[c] # "graph"
  <2>1. stored'["graph"] = stored["graph"]
    BY <1>2, CommitSaveFacts DEF Tables
  <2>2. QED
    BY <2>1
<1>3. QED
  BY <1>1, <1>2

\* A commit disturbs no other client.
LEMMA CommitKeepsOthers ==
    ASSUME SavesInv, NEW c \in Savers, CommitSave(c), NEW d \in Savers \ {c}
    PROVE  SaverSound(d)'
<1>1. SameSaver(d) /\ SaverSound(d) /\ SaverSound(c) /\ Apart(d, c)
  BY CommitSaveFacts DEF SavesInv
<1>2. SaverTyped(d)' /\ Progress(d)'
  BY <1>1 DEF SaverSound, SaverTyped, Progress, SameSaver
<1>3. table[d] \in Tables /\ table[c] \in Tables /\ "graph" \in Tables
  BY <1>1 DEF SaverSound, SaverTyped, Tables
<1>4. Visible(d)' = Replacing(stored'[table[d]], written[d])
  BY <1>1 DEF Visible, SameSaver
<1>5. Keyed(Visible(d)')
  <2>1. CASE table[d] = table[c]
    <3>1. Visible(d)' = Replacing(Replacing(stored[table[d]], written[c]), written[d])
      BY <1>4, <2>1, CommitSaveFacts DEF Visible
    <3>2. /\ Keyed(Replacing(stored[table[d]], written[d]))
          /\ Keyed(Replacing(stored[table[d]], written[c]))
      BY <1>1, <2>1 DEF SaverSound, Visible
    <3>3. \A a \in written[d], b \in written[c] : a.id # b.id /\ a.key # b.key
      BY <1>1, <2>1 DEF Apart
    <3>4. QED
      BY <3>1, <3>2, <3>3, ReplacingTwice
  <2>2. CASE table[d] # table[c]
    <3>1. Visible(d)' = Visible(d)
      BY <1>3, <1>4, <2>2, CommitSaveFacts DEF Visible
    <3>2. QED
      BY <1>1, <3>1 DEF SaverSound
  <2>3. QED
    BY <2>1, <2>2
<1>6. GraphSound(d)'
  <2> SUFFICES ASSUME table[d] = "graph", statement[d] # "idle"
               PROVE  GraphSound(d)'
    BY <1>1 DEF GraphSound, SameSaver
  <2>1. GraphSound(d)
    BY <1>1 DEF SaverSound
  <2>2. ASSUME NEW row \in written[d], NEW graph \in stored'["graph"]
        PROVE  row.id = graph.id <=> row.key = graph.key
    <3>1. CASE graph \in stored["graph"]
      BY <2>1, <2>2, <3>1 DEF GraphSound
    <3>2. CASE graph \notin stored["graph"]
      <4>1. table[c] = "graph"
        BY <1>3, <2>2, <3>2, CommitSaveFacts
      <4>2. graph \in written[c]
        BY <2>2, <3>2, <4>1, CommitSaveFacts DEF Visible, Replacing
      <4>3. QED
        BY <1>1, <4>1, <4>2 DEF Apart
    <3>3. QED
      BY <3>1, <3>2
  <2>3. ASSUME statement[d] = "committing"
        PROVE  \E graph \in Visible(d)' :
                   result[d] = <<graph.id>> /\ graph.key = Head(asked[d]).key
    <3>1. PICK graph \in Visible(d) :
              result[d] = <<graph.id>> /\ graph.key = Head(asked[d]).key
      BY <2>1, <2>3 DEF GraphSound
    <3>2. CASE graph \in written[d]
      BY <1>4, <3>1, <3>2 DEF Replacing
    <3>3. CASE graph \notin written[d]
      <4>1. graph \in stored["graph"] /\ graph.id \notin Ids(written[d])
        BY <3>3 DEF Visible, Replacing
      <4>2. PICK later \in stored'["graph"] : later.id = graph.id /\ later.key = graph.key
        BY <4>1, GraphsStay
      <4>3. later \in Visible(d)'
        BY <1>4, <4>1, <4>2 DEF Replacing
      <4>4. QED
        BY <3>1, <4>2, <4>3
    <3>4. QED
      BY <3>2, <3>3
  <2>4. QED
    BY <1>1, <2>1, <2>2, <2>3 DEF GraphSound, SameSaver
<1>7. RunSound(d)'
  <2>1. known'[d] \subseteq known[d]
    BY CommitSaveFacts
  <2>2. QED
    BY <1>1, <2>1 DEF SaverSound, RunSound, SameSaver
<1>8. QED
  BY <1>2, <1>5, <1>6, <1>7 DEF SaverSound, Keyed

\* A commit.
LEMMA CommitSaveStep ==
    ASSUME SavesInv, NEW c \in Savers, CommitSave(c)
    PROVE  SavesInv'
<1>1. TablesAreKeyed'
  <2>1. ASSUME NEW t \in Tables
        PROVE  stored'[t] \subseteq TableRows(t) /\ Keyed(stored'[t])
    <3>1. CASE t = table[c]
      <4>1. stored'[t] = Visible(c)
        BY <3>1, CommitSaveFacts
      <4>2. Keyed(Visible(c)) /\ Visible(c) \subseteq stored[t] \cup written[c]
            /\ written[c] \subseteq TableRows(t)
        BY <3>1 DEF SavesInv, SaverSound, SaverTyped, Visible, Replacing
      <4>3. stored[t] \subseteq TableRows(t)
        BY DEF SavesInv, TablesAreKeyed
      <4>4. QED
        BY <4>1, <4>2, <4>3
    <3>2. CASE t # table[c]
      <4>1. stored'[t] = stored[t]
        BY <3>2, CommitSaveFacts
      <4>2. QED
        BY <4>1 DEF SavesInv, TablesAreKeyed
    <3>3. QED
      BY <3>1, <3>2
  <2>2. \A d \in Savers : known'[d] \subseteq stored'["run"]
    BY CommitSaveFacts
  <2>3. QED
    BY <2>1, <2>2 DEF TablesAreKeyed, Keyed
<1>2. SaverTyped(c)'
  <2>1. SaverTyped(c)
    BY DEF SavesInv, SaverSound
  <2>2. <<>> \in Seq(TableRows(table[c])) /\ "idle" \in Statements /\ "ok" \in Answers
    BY DEF Statements, Answers
  <2>3. /\ statement'[c] = "idle" /\ reply'[c] = "ok" /\ table'[c] = table[c]
        /\ asked'[c] = asked[c] /\ result'[c] = result[c] /\ todo'[c] = <<>>
        /\ ready'[c] = <<>> /\ written'[c] = {}
    BY CommitSaveFacts
  <2>4. QED
    BY <2>1, <2>2, <2>3 DEF SaverTyped
<1>3. Keyed(Visible(c)')
  <2>1. Visible(c)' = stored'[table[c]] /\ table[c] \in Tables
    <3>1. written'[c] = {} /\ table' = table /\ table[c] \in Tables
      BY CommitSaveFacts
    <3>2. Visible(c)' = Replacing(stored'[table[c]], {})
      BY <3>1 DEF Visible
    <3>3. QED
      BY <3>1, <3>2, NothingReplaced
  <2>2. QED
    BY <1>1, <2>1 DEF TablesAreKeyed, Keyed
<1>4. Progress(c)' /\ GraphSound(c)' /\ RunSound(c)'
  <2>1. Progress(c)
    BY DEF SavesInv, SaverSound
  <2>2. QED
    BY <2>1, CommitSaveFacts DEF Progress, GraphSound, RunSound
<1>5. SaverSound(c)'
  BY <1>2, <1>3, <1>4 DEF SaverSound, Keyed
<1>6. \A d \in Savers : SaverSound(d)'
  BY <1>5, CommitKeepsOthers
<1>7. ASSUME NEW d \in Savers, NEW e \in Savers, d # e
      PROVE  Apart(d, e)'
  <2>1. Apart(d, e)
    BY <1>7 DEF SavesInv
  <2>2. QED
    BY <1>7, <2>1, CommitSaveFacts DEF Apart, SameSaver
<1>8. SaverFunctions'
  BY CommitSaveFacts
<1>9. QED
  BY <1>1, <1>6, <1>7, <1>8 DEF SavesInv

-----------------------------------------------------------------------------
(* The theorems                                                            *)

\* The tables start with unique rows, and nobody has asked for anything.
LEMMA SavesInitIsSound == SavesInit => SavesInv
<1> SUFFICES ASSUME SavesInit
             PROVE  SavesInv
  OBVIOUS
<1>1. /\ stored["graph"] = StoredGraphs /\ stored["task"] = StoredTasks /\ stored["run"] = {}
      /\ stored = [t \in Tables |-> stored[t]]
  BY DEF SavesInit, Tables
<1>2. SaverFunctions
  BY <1>1 DEF SavesInit, SaverFunctions
<1>3. StoredGraphs \subseteq TableRows("graph") /\ StoredTasks \subseteq TableRows("task")
  BY GivenAreRows DEF Given, Tables
<1>4. Keyed({})
  BY DEF Keyed
<1>5. \A c \in Savers : known[c] = {}
  BY DEF SavesInit
<1>6. TablesAreKeyed
  BY <1>1, <1>3, <1>4, <1>5, PlanningAssumption DEF TablesAreKeyed, Tables
<1>7. ASSUME NEW c \in Savers
      PROVE  SaverSound(c)
  <2>1. /\ statement[c] = "idle" /\ table[c] = "graph" /\ reply[c] = "none"
        /\ written[c] = {} /\ asked[c] = <<>> /\ todo[c] = <<>> /\ ready[c] = <<>>
        /\ result[c] = <<>>
    BY DEF SavesInit
  <2>2. SaverTyped(c)
    BY <2>1 DEF SaverTyped, Statements, Tables, Answers
  <2>3. Keyed(Visible(c))
    BY <1>6, <2>1, UnwrittenIsKeyed DEF Tables
  <2>4. Progress(c) /\ GraphSound(c) /\ RunSound(c)
    BY <2>1 DEF Progress, GraphSound, RunSound
  <2>5. QED
    BY <2>2, <2>3, <2>4 DEF SaverSound
<1>8. \A c, d \in Savers : Apart(c, d)
  BY DEF Apart, SavesInit
<1>9. QED
  BY <1>2, <1>6, <1>7, <1>8 DEF SavesInv

\* Every request asks for one row, or for a batch of tasks that is not empty.
LEMMA AskToSaveStep ==
    ASSUME SavesInv, NEW c \in Savers, AskToSave(c)
    PROVE  SavesInv'
<1>1. ASSUME NEW row \in Graphs, BeginSave(c, "graph", <<row>>)
      PROVE  SavesInv'
  <2>1. row \in Given("graph") /\ "graph" \in Tables
    BY <1>1 DEF Given, Tables
  <2>2. <<row>> \in Seq(Given("graph")) /\ Len(<<row>>) <= 1 /\ <<row>> # <<>>
    BY <2>1
  <2>3. QED
    BY <1>1, <2>1, <2>2, BeginSaveStep
<1>2. ASSUME NEW row \in Runs, BeginSave(c, "run", <<row>>)
      PROVE  SavesInv'
  <2>1. row \in Given("run") /\ "run" \in Tables
    BY <1>2 DEF Given, Tables
  <2>2. <<row>> \in Seq(Given("run")) /\ Len(<<row>>) <= 1 /\ <<row>> # <<>>
    BY <2>1
  <2>3. QED
    BY <1>2, <2>1, <2>2, BeginSaveStep
<1>3. ASSUME NEW batch \in Batches, BeginSave(c, "task", batch)
      PROVE  SavesInv'
  <2>1. batch \in Seq(BatchRows) /\ batch # <<>>
    BY <1>3, PlanningAssumption
  <2>2. BatchRows \subseteq Given("task") /\ "task" \in Tables
    BY DEF Given, Tables
  <2>3. batch \in Seq(Given("task"))
    BY <2>1, <2>2
  <2>4. QED
    BY <1>3, <2>1, <2>2, <2>3, BeginSaveStep
<1>4. QED
  BY <1>1, <1>2, <1>3 DEF AskToSave

\* Every step keeps the invariant.
LEMMA SavesStepIsSound ==
    ASSUME SavesInv, SavesNext
    PROVE  SavesInv'
<1>1. PICK c \in Savers : AskToSave(c) \/ SaveStep(c) \/ InterruptSave(c)
  BY DEF SavesNext
<1>2. CASE AskToSave(c)
  BY <1>2, AskToSaveStep
<1>3. CASE BreakSaveDeadlock(c)
  BY <1>3, FailSaveStep DEF BreakSaveDeadlock, Answers
<1>4. CASE InterruptSave(c)
  BY <1>4, FailSaveStep DEF InterruptSave, Answers
<1>5. CASE SaveStep(c)
  BY <1>3, <1>5, CheckGraphStep, CheckTasksStep, CheckRunStep, ResolveGraphStep, ResolveTaskStep,
     ResolveRunStep, WriteRowStep, CommitSaveStep DEF SaveStep
<1>6. QED
  BY <1>1, <1>2, <1>4, <1>5

\* A step of nobody keeps the invariant.
LEMMA SavesStutter == SavesInv /\ UNCHANGED saveVars => SavesInv'
<1> SUFFICES ASSUME SavesInv, UNCHANGED saveVars
             PROVE  SavesInv'
  OBVIOUS
<1>1. /\ stored' = stored /\ written' = written /\ statement' = statement /\ table' = table
      /\ asked' = asked /\ todo' = todo /\ ready' = ready /\ result' = result
      /\ reply' = reply /\ known' = known
  BY DEF saveVars, local
<1>2. \A c \in Savers : SaverSound(c)'
  BY <1>1, SaverIsKept DEF SavesInv, SameSaver
<1>3. SaverFunctions' /\ TablesAreKeyed'
  BY <1>1 DEF SavesInv, SaverFunctions, TablesAreKeyed
<1>4. \A c, d \in Savers : c # d => Apart(c, d)'
  BY <1>1 DEF SavesInv, Apart
<1>5. QED
  BY <1>2, <1>3, <1>4 DEF SavesInv

\* The invariant holds at all times.
LEMMA SavesInvariance == SavesSpec => []SavesInv
<1>1. SavesInv /\ [SavesNext]_saveVars => SavesInv'
  BY SavesStepIsSound, SavesStutter
<1>2. QED
  BY SavesInitIsSound, <1>1, PTL DEF SavesSpec

\* Only a commit changes the tables or answers with success.
LEMMA OnlyCommitsAnswer ==
    ASSUME SavesInv, SavesNext
    PROVE  \/ \E c \in Savers : CommitSave(c)
           \/ stored' = stored /\ \A d \in Savers : reply'[d] = "ok" => reply[d] = "ok"
<1>1. PICK c \in Savers : AskToSave(c) \/ SaveStep(c) \/ InterruptSave(c)
  BY DEF SavesNext
<1>2. ASSUME NEW ending \in Answers, ending # "ok", FailSave(c, ending)
      PROVE  stored' = stored /\ \A d \in Savers : reply'[d] = "ok" => reply[d] = "ok"
  BY <1>2 DEF FailSave, EndSave, SavesInv, SaverFunctions
<1>3. ASSUME NEW t, NEW rows, BeginSave(c, t, rows)
      PROVE  stored' = stored /\ \A d \in Savers : reply'[d] = "ok" => reply[d] = "ok"
  BY <1>3 DEF BeginSave, SavesInv, SaverFunctions
<1>4. CASE AskToSave(c)
  BY <1>3, <1>4 DEF AskToSave
<1>5. CASE InterruptSave(c)
  BY <1>2, <1>5 DEF InterruptSave, Answers
<1>6. ASSUME stored' = stored, reply' = reply
      PROVE  stored' = stored /\ \A d \in Savers : reply'[d] = "ok" => reply[d] = "ok"
  BY <1>6
<1>7. CASE SaveStep(c)
  <2>1. CASE CheckGraph(c)
    BY <1>2, <1>6, <2>1 DEF CheckGraph, Proceed, Answers
  <2>2. CASE CheckTasks(c)
    BY <1>2, <1>6, <2>2 DEF CheckTasks, Proceed, Answers
  <2>3. CASE CheckRun(c)
    BY <1>2, <1>6, <2>3 DEF CheckRun, Proceed, Answers
  <2>4. CASE ResolveGraph(c)
    BY <1>2, <1>6, <2>4 DEF ResolveGraph, Answers
  <2>5. CASE ResolveTask(c)
    BY <1>6, <2>5 DEF ResolveTask
  <2>6. CASE ResolveRun(c)
    BY <1>2, <1>6, <2>6 DEF ResolveRun, Answers
  <2>7. CASE WriteRow(c)
    BY <1>2, <1>6, <2>7 DEF WriteRow, Answers
  <2>8. CASE BreakSaveDeadlock(c)
    BY <1>2, <2>8 DEF BreakSaveDeadlock, Answers
  <2>9. CASE CommitSave(c)
    BY <2>9
  <2>10. QED
    BY <1>7, <2>1, <2>2, <2>3, <2>4, <2>5, <2>6, <2>7, <2>8, <2>9 DEF SaveStep
<1>8. QED
  BY <1>1, <1>4, <1>5, <1>7

\* Ids and source keys stay unique in the tables of graphs, tasks and runs, whoever
\* saves what beside whom.
THEOREM RowsStayKeyed == SavesSpec => []RowsAreKeyed
<1>1. SavesInv => RowsAreKeyed
  BY DEF SavesInv, TablesAreKeyed, SaverSound, SaverTyped, Progress, RowsAreKeyed
<1>2. QED
  BY <1>1, SavesInvariance, PTL

\* What a step does to graphs and to the answers about them.
GraphsStep ==
    /\ \A graph \in stored["graph"] :
          \E later \in stored'["graph"] : later.id = graph.id /\ later.key = graph.key
    /\ \A c \in Savers :
          table[c] = "graph" /\ reply[c] = "none" /\ reply'[c] = "ok" =>
             \E graph \in stored'["graph"] :
                result'[c] = <<graph.id>> /\ graph.key = Head(asked[c]).key

\* A graph keeps its id and key, and who is answered gets the id it is stored under.
LEMMA GraphsStepHolds ==
    ASSUME SavesInv, SavesNext
    PROVE  GraphsStep
<1>1. CASE \E c \in Savers : CommitSave(c)
  <2>1. PICK c \in Savers : CommitSave(c)
    BY <1>1
  <2>2. \A graph \in stored["graph"] :
           \E later \in stored'["graph"] : later.id = graph.id /\ later.key = graph.key
    BY <2>1, GraphsStay
  <2>3. ASSUME NEW d \in Savers, table[d] = "graph", reply[d] = "none", reply'[d] = "ok"
        PROVE  \E graph \in stored'["graph"] :
                   result'[d] = <<graph.id>> /\ graph.key = Head(asked[d]).key
    <3>1. d = c
      BY <2>1, <2>3, CommitSaveFacts DEF SameSaver
    <3>2. statement[c] = "committing" /\ table[c] = "graph" /\ result' = result
          /\ stored'["graph"] = Visible(c)
      BY <2>1, <2>3, <3>1, CommitSaveFacts
    <3>3. GraphSound(c)
      BY DEF SavesInv, SaverSound
    <3>4. QED
      BY <3>1, <3>2, <3>3 DEF GraphSound
  <2>4. QED
    BY <2>2, <2>3 DEF GraphsStep
<1>2. CASE stored' = stored /\ \A d \in Savers : reply'[d] = "ok" => reply[d] = "ok"
  BY <1>2 DEF GraphsStep
<1>3. QED
  BY <1>1, <1>2, OnlyCommitsAnswer

\* Graphs are canonical: they keep id and identity, and answers name them rightly.
LEMMA GraphsHold == SavesSpec => GraphsAreCanonical
<1>1. SavesInv /\ [SavesNext]_saveVars => [GraphsStep]_saveVars
  BY GraphsStepHolds
<1>2. SavesSpec => [][GraphsStep]_saveVars
  BY <1>1, SavesInvariance, PTL DEF SavesSpec
<1>3. QED
  BY <1>2, PTL DEF GraphsAreCanonical, GraphsStep

\* What a step does to runs.
RunsStep ==
    \A run \in stored["run"] : \E later \in stored'["run"] :
        /\ later.id = run.id
        /\ \/ later = run
           \/ \E c \in Savers : later \in written[c] /\ run \notin known[c]

\* Only a request that began before a run was stored, or while it was displaced, can
\* overwrite it with another.
LEMMA RunsStepHolds ==
    ASSUME SavesInv, SavesNext
    PROVE  RunsStep
<1> SUFFICES ASSUME NEW run \in stored["run"]
             PROVE  \E later \in stored'["run"] :
                      /\ later.id = run.id
                      /\ \/ later = run
                         \/ \E c \in Savers : later \in written[c] /\ run \notin known[c]
  BY DEF RunsStep
<1>1. CASE \E c \in Savers : CommitSave(c)
  <2>1. PICK c \in Savers : CommitSave(c)
    BY <1>1
  <2>2. CASE table[c] = "run"
    <3>1. stored'["run"] = Replacing(stored["run"], written[c])
      BY <2>1, <2>2, CommitSaveFacts DEF Visible
    <3>2. CASE run.id \notin Ids(written[c])
      BY <3>1, <3>2 DEF Replacing
    <3>3. CASE run.id \in Ids(written[c])
      <4>1. PICK row \in written[c] : row.id = run.id
        BY <3>3 DEF Ids
      <4>2. row \in stored'["run"]
        BY <3>1 DEF Replacing
      <4>3. RunSound(c)
        BY DEF SavesInv, SaverSound
      <4>4. run \in known[c] => row = run
        BY <2>2, <4>1, <4>3 DEF RunSound
      <4>5. QED
        BY <4>1, <4>2, <4>4
    <3>4. QED
      BY <3>2, <3>3
  <2>3. CASE table[c] # "run"
    <3>1. stored'["run"] = stored["run"]
      BY <2>1, <2>3, CommitSaveFacts DEF Tables
    <3>2. QED
      BY <3>1
  <2>4. QED
    BY <2>2, <2>3
<1>2. CASE stored' = stored
  BY <1>2
<1>3. QED
  BY <1>1, <1>2, OnlyCommitsAnswer

\* Late requests leave runs what they are.
LEMMA RunsHold == SavesSpec => LateRunsKeepIdentity
<1>1. SavesInv /\ [SavesNext]_saveVars => [RunsStep]_saveVars
  BY RunsStepHolds
<1>2. SavesSpec => [][RunsStep]_saveVars
  BY <1>1, SavesInvariance, PTL DEF SavesSpec
<1>3. QED
  BY <1>2, PTL DEF LateRunsKeepIdentity, RunsStep

\* Whoever saves what, in whatever order and with whatever interruptions: rows stay
\* unique, graphs keep their canonical ids, and a run that a request found stored is
\* not moved by it.
THEOREM IdentitiesHold == SavesSpec => IdentitiesLast
BY RowsStayKeyed, GraphsHold, RunsHold DEF IdentitiesLast
=============================================================================
