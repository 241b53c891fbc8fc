----------------------------- MODULE WritesProofs -----------------------------
(***************************************************************************)
(* The active set and the writes of documents, for any number of callers   *)
(* and clients: callers are served alike and a corrupt state stays closed, *)
(* whatever two tables their constraints allow; rows, versions, keys, jobs *)
(* and answers of the writes fit together, for every batch and every       *)
(* splitting of contents.                                                  *)
(***************************************************************************)
EXTENDS ActiveProfile, DocumentWrites,
        FiniteSetTheorems, SequenceTheorems, WellFoundedInduction, TLAPS

-----------------------------------------------------------------------------
(*                            The active profile                           *)
-----------------------------------------------------------------------------

\* The id of a row of a legal table determines its kind.
LEMMA KindOfRow ==
    ASSUME NEW S, NEW p, Legal(S, p), NEW row \in S
    PROVE  KindOf(S, row.id) = row.kind
  <1>1. \A other \in S : other.id = row.id => other = row
    BY DEF Legal
  <1>2. (CHOOSE r \in S : r.id = row.id) = row
    BY <1>1
  <1> QED
    BY <1>2 DEF KindOf

\* A step that leaves both tables alone leaves the verdict on them alone.
LEMMA SameTables ==
    ASSUME UNCHANGED <<sets, active>>
    PROVE  Corrupt' <=> Corrupt
  BY DEF Corrupt, KindOf

\* The callers start in a database that the constraints allow.
LEMMA InitInv == Init => Inv
  <1> SUFFICES ASSUME Init PROVE Inv
    OBVIOUS
  <1>1. PICK db \in Databases : sets = db.sets /\ active = db.active
    BY DEF Init
  <1>2. sets \subseteq Rows /\ active \in Ids \cup {None} /\ Legal(sets, active)
    BY <1>1, DatabasesAssumption
  <1>3. TypeOK
    BY <1>2 DEF Init, TypeOK, Calls, Statements, Outcomes
  <1> QED
    BY <1>3, DatabasesAssumption DEF Init, Inv, Agreement, RefusedOnlyIfCorrupt,
       CreatorIsAlone, Creating, RowsMatchPlace, OwnRows, UsersAgree

\* A transaction that ends without a change of the tables.
LEMMA EndInv ==
    ASSUME Inv, NEW c \in Callers, NEW outcome \in Outcomes,
           End(c, outcome), UNCHANGED <<sets, active>>,
           outcome \in Ids => outcome = active,
           outcome = "failed" => Corrupt
    PROVE  Inv'
  <1>1. TypeOK'
    BY DEF Inv, TypeOK, End, Legal, Statements
  <1>2. Agreement'
    BY DEF Inv, TypeOK, Agreement, End
  <1>3. RefusedOnlyIfCorrupt'
    BY SameTables DEF Inv, TypeOK, RefusedOnlyIfCorrupt, End
  <1>4. CreatorIsAlone'
    <2> SUFFICES ASSUME NEW d \in Callers
                 PROVE  (/\ pc[d] = "deciding" => lock = d
                         /\ Creating(d) => /\ lock = d
                                           /\ active = None
                                           /\ \A row \in sets : row.kind = "legacy")'
      BY DEF CreatorIsAlone
    <2>1. CASE d = c
      BY <2>1 DEF Inv, TypeOK, Creating, End
    <2>2. CASE d # c
      BY <2>2 DEF Inv, TypeOK, CreatorIsAlone, Creating, End
    <2> QED
      BY <2>1, <2>2
  <1>5. RowsMatchPlace' /\ UsersAgree'
    BY DEF Inv, TypeOK, RowsMatchPlace, OwnRows, UsersAgree, End, KindOf
  <1> QED
    BY <1>1, <1>2, <1>3, <1>4, <1>5 DEF Inv

\* The pointer is used, or refused as another profile's.
LEMMA UsePointerInv ==
    ASSUME Inv, NEW c \in Callers, pc[c] \in {"probing", "deciding"}, UsePointer(c)
    PROVE  Inv'
  <1>1. PICK row \in sets : row.id = active /\ row.kind # "legacy"
    BY DEF Inv, TypeOK, Legal, UsePointer
  <1>2. KindOf(sets, active) = row.kind
    BY <1>1, KindOfRow DEF Inv, TypeOK
  <1>3. CASE Fail(c)
    <2>1. Corrupt \/ call[c] = "find"
      <3>1. SUFFICES ASSUME call[c] # "find", KindOf(sets, active) = "fixed" PROVE FALSE
        BY DEF Corrupt, UsePointer
      <3>2. Accepts(c, KindOf(sets, active))
        BY <3>1 DEF Accepts
      <3> QED
        BY <1>3, <3>2 DEF UsePointer, Goto, Fail, End, Inv, TypeOK
    <2>2. CASE call[c] = "find"
      <3>1. "nothing" \in Outcomes /\ "nothing" \notin Ids
        BY DatabasesAssumption DEF Outcomes
      <3> QED
        BY <1>3, <2>2, <3>1, EndInv DEF Fail
    <2>3. CASE call[c] # "find"
      <3>1. "failed" \in Outcomes /\ "failed" \notin Ids
        BY DatabasesAssumption DEF Outcomes
      <3> QED
        BY <1>3, <2>1, <2>3, <3>1, EndInv DEF Fail
    <2> QED
      BY <2>2, <2>3
  <1>4. CASE /\ Accepts(c, KindOf(sets, active))
             /\ Goto(c, "using")
             /\ found' = [found EXCEPT ![c] = active]
             /\ UNCHANGED lock
    <2>1. active \in Ids
      BY DEF UsePointer, Inv, TypeOK
    <2>2. TypeOK'
      BY <1>4, <2>1 DEF Inv, TypeOK, Goto, Legal, Statements
    <2>3. Agreement' /\ RefusedOnlyIfCorrupt'
      BY <1>4, SameTables DEF Inv, TypeOK, Agreement, RefusedOnlyIfCorrupt, Goto
    <2>4. CreatorIsAlone'
      BY <1>4 DEF Inv, TypeOK, CreatorIsAlone, Creating, Goto
    <2>5. newActive[c] = None
      BY DEF Inv, RowsMatchPlace
    <2>6. RowsMatchPlace'
      <3> SUFFICES ASSUME NEW d \in Callers
                   PROVE  (/\ OwnRows(d)
                           /\ newActive[d] # None =>
                                 pc[d] = "using" /\ newActive[d] = found[d])'
        BY DEF RowsMatchPlace
      <3>1. CASE d = c
        BY <1>4, <2>5, <3>1 DEF Inv, TypeOK, RowsMatchPlace, OwnRows, Goto
      <3>2. CASE d # c
        BY <1>4, <3>2 DEF Inv, TypeOK, RowsMatchPlace, OwnRows, Goto
      <3> QED
        BY <3>1, <3>2
    <2>7. UsersAgree'
      BY <1>4, <2>1, DatabasesAssumption
         DEF Inv, TypeOK, UsersAgree, UsePointer, Goto, Accepts, KindOf
    <2> QED
      BY <2>2, <2>3, <2>4, <2>6, <2>7 DEF Inv
  <1> QED
    BY <1>3, <1>4 DEF UsePointer

\* Moves that only change the place in the code, and perhaps take the lock.
LEMMA GotoInv ==
    ASSUME Inv, NEW c \in Callers, NEW statement \in Statements \ {"using"},
           Goto(c, statement), UNCHANGED found, newActive[c] = None,
           pc[c] # "pointing", statement # "pointing",
           lock' = lock \/ (lock = None /\ lock' = c),
           statement = "deciding" => lock' = c,
           statement = "inserting" =>
              /\ lock' = c
              /\ active = None
              /\ \A row \in sets : row.kind = "legacy"
    PROVE  Inv'
  <1>1. TypeOK'
    BY DEF Inv, TypeOK, Goto, Legal
  <1>2. Agreement' /\ RefusedOnlyIfCorrupt'
    BY SameTables DEF Inv, TypeOK, Agreement, RefusedOnlyIfCorrupt, Goto
  <1>3. CreatorIsAlone'
    <2> SUFFICES ASSUME NEW d \in Callers
                 PROVE  (/\ pc[d] = "deciding" => lock = d
                         /\ Creating(d) => /\ lock = d
                                           /\ active = None
                                           /\ \A row \in sets : row.kind = "legacy")'
      BY DEF CreatorIsAlone
    <2>1. CASE d = c
      BY <2>1 DEF Inv, TypeOK, Creating, Goto
    <2>2. CASE d # c
      <3>1. d # None
        BY DatabasesAssumption
      <3> QED
        BY <2>2, <3>1 DEF Inv, TypeOK, CreatorIsAlone, Creating, Goto
    <2> QED
      BY <2>1, <2>2
  <1>4. RowsMatchPlace'
    BY DEF Inv, TypeOK, RowsMatchPlace, OwnRows, Goto
  <1>5. UsersAgree'
    BY DEF Inv, TypeOK, UsersAgree, Goto, KindOf
  <1> QED
    BY <1>1, <1>2, <1>3, <1>4, <1>5 DEF Inv

\* The insertion of the set: its creator is alone, and names it.
LEMMA InsertSetInv ==
    ASSUME Inv, NEW c \in Callers, InsertSet(c)
    PROVE  Inv'
  <1>1. /\ lock = c /\ active = None
        /\ \A row \in sets : row.kind = "legacy"
        /\ newActive[c] = None
    BY DEF Inv, CreatorIsAlone, Creating, RowsMatchPlace, InsertSet
  <1>2. PICK id \in Ids \ {row.id : row \in sets} :
            /\ newSet' = [newSet EXCEPT ![c] = {[id |-> id, kind |-> "fixed"]}]
            /\ found' = [found EXCEPT ![c] = id]
            /\ pc' = [pc EXCEPT ![c] = "pointing"]
            /\ UNCHANGED <<sets, active, lock, newActive, call, answer>>
    BY <1>1 DEF InsertSet
  <1>3. TypeOK'
    <2>1. [id |-> id, kind |-> "fixed"] \in Rows
      BY DEF Rows, Kinds
    <2> QED
      BY <1>2, <2>1 DEF Inv, TypeOK, Legal, Statements
  <1>4. Agreement' /\ RefusedOnlyIfCorrupt'
    BY <1>2, SameTables DEF Inv, TypeOK, Agreement, RefusedOnlyIfCorrupt
  <1>5. CreatorIsAlone'
    BY <1>1, <1>2 DEF Inv, TypeOK, CreatorIsAlone, Creating
  <1>6. RowsMatchPlace'
    <2> SUFFICES ASSUME NEW d \in Callers
                 PROVE  (/\ OwnRows(d)
                         /\ newActive[d] # None =>
                               pc[d] = "using" /\ newActive[d] = found[d])'
      BY DEF RowsMatchPlace
    <2>1. CASE d = c
      BY <1>1, <1>2, <2>1 DEF Inv, TypeOK, OwnRows
    <2>2. CASE d # c
      BY <1>2, <2>2 DEF Inv, TypeOK, RowsMatchPlace, OwnRows
    <2> QED
      BY <2>1, <2>2
  <1>7. UsersAgree'
    BY <1>2 DEF Inv, TypeOK, UsersAgree, KindOf
  <1> QED
    BY <1>3, <1>4, <1>5, <1>6, <1>7 DEF Inv

\* The insertion of the pointer.
LEMMA InsertPointerInv ==
    ASSUME Inv, NEW c \in Callers, InsertPointer(c)
    PROVE  Inv'
  <1>1. /\ lock = c /\ active = None
        /\ \A row \in sets : row.kind = "legacy"
        /\ newActive[c] = None
        /\ found[c] \in Ids
        /\ OwnRows(c)
    BY DEF Inv, CreatorIsAlone, Creating, RowsMatchPlace, OwnRows, InsertPointer
  <1>2. /\ newActive' = [newActive EXCEPT ![c] = found[c]]
        /\ pc' = [pc EXCEPT ![c] = "using"]
        /\ UNCHANGED <<sets, active, lock, newSet, call, found, answer>>
    BY <1>1 DEF InsertPointer
  <1>3. TypeOK'
    BY <1>1, <1>2 DEF Inv, TypeOK, Legal, Statements
  <1>4. Agreement' /\ RefusedOnlyIfCorrupt'
    BY <1>2, SameTables DEF Inv, TypeOK, Agreement, RefusedOnlyIfCorrupt
  <1>5. CreatorIsAlone'
    BY <1>1, <1>2 DEF Inv, TypeOK, CreatorIsAlone, Creating
  <1>6. RowsMatchPlace'
    <2> SUFFICES ASSUME NEW d \in Callers
                 PROVE  (/\ OwnRows(d)
                         /\ newActive[d] # None =>
                               pc[d] = "using" /\ newActive[d] = found[d])'
      BY DEF RowsMatchPlace
    <2>1. CASE d = c
      BY <1>1, <1>2, <2>1, DatabasesAssumption
         DEF Inv, TypeOK, OwnRows, InsertPointer
    <2>2. CASE d # c
      BY <1>2, <2>2 DEF Inv, TypeOK, RowsMatchPlace, OwnRows
    <2> QED
      BY <2>1, <2>2
  <1>7. UsersAgree'
    BY <1>1, <1>2, DatabasesAssumption DEF Inv, TypeOK, UsersAgree, KindOf
  <1> QED
    BY <1>3, <1>4, <1>5, <1>6, <1>7 DEF Inv

\* The commit of the creator: nobody else is creating, and nobody has been
\* answered or refused before.
LEMMA CreatorCommitInv ==
    ASSUME Inv, NEW c \in Callers, Commit(c), newActive[c] # None
    PROVE  Inv'
  <1> DEFINE new == [id |-> found[c], kind |-> "fixed"]
  <1>1. /\ lock = c /\ active = None
        /\ \A row \in sets : row.kind = "legacy"
        /\ newActive[c] = found[c] /\ found[c] \in Ids
        /\ found[c] \notin {row.id : row \in sets}
        /\ newSet[c] = {new}
    BY DEF Inv, CreatorIsAlone, Creating, RowsMatchPlace, OwnRows
  <1>2. /\ sets' = sets \cup {new} /\ active' = found[c]
        /\ End(c, found[c])
    BY <1>1 DEF Commit
  <1>3. found[c] # None
    BY <1>1, DatabasesAssumption
  <1>4. Legal(sets', active')
    <2>1. \A a, b \in sets : a.id = b.id => a = b
      BY DEF Inv, TypeOK, Legal
    <2>2. \A a \in sets : a.kind # "fixed" /\ a.id # new.id
      BY <1>1
    <2>3. \A a, b \in sets' : a.id = b.id \/ (a.kind = "fixed" /\ b.kind = "fixed") => a = b
      BY <1>2, <2>1, <2>2
    <2>4. new \in sets' /\ new.id = active' /\ new.kind # "legacy"
      BY <1>2
    <2> QED
      BY <2>3, <2>4 DEF Legal
  <1>5. TypeOK'
    <2>1. new \in Rows
      BY <1>1 DEF Rows, Kinds
    <2>2. found[c] \in Outcomes
      BY <1>1 DEF Outcomes
    <2> QED
      BY <1>1, <1>2, <1>4, <2>1, <2>2 DEF Inv, TypeOK, End, Statements
  <1>6. ~Corrupt
    BY <1>1 DEF Corrupt
  <1>7. Agreement'
    BY <1>1, <1>2, DatabasesAssumption DEF Inv, TypeOK, Agreement, End
  <1>8. RefusedOnlyIfCorrupt'
    <2>1. \A d \in Callers : answer[d] # "failed"
      BY <1>6 DEF Inv, RefusedOnlyIfCorrupt
    <2>2. found[c] # "failed"
      BY <1>1, DatabasesAssumption
    <2> QED
      BY <1>2, <2>1, <2>2 DEF Inv, TypeOK, RefusedOnlyIfCorrupt, End
  <1>9. \A d \in Callers \ {c} : ~Creating(d) /\ pc[d] # "deciding"
    BY <1>1 DEF Inv, CreatorIsAlone
  <1>10. CreatorIsAlone'
    <2> SUFFICES ASSUME NEW d \in Callers
                 PROVE  (~Creating(d) /\ pc[d] # "deciding")'
      BY DEF CreatorIsAlone
    <2>1. CASE d = c
      BY <1>2, <2>1 DEF Inv, TypeOK, Creating, End
    <2>2. CASE d # c
      BY <1>2, <1>9, <2>2 DEF Inv, TypeOK, Creating, End
    <2> QED
      BY <2>1, <2>2
  <1>11. RowsMatchPlace'
    <2> SUFFICES ASSUME NEW d \in Callers
                 PROVE  (newSet[d] = {} /\ newActive[d] = None /\ pc[d] # "pointing")'
      BY DEF RowsMatchPlace, OwnRows
    <2>1. CASE d = c
      BY <1>2, <2>1 DEF Inv, TypeOK, End
    <2>2. CASE d # c
      BY <1>2, <1>9, <2>2 DEF Inv, TypeOK, Creating, RowsMatchPlace, OwnRows, End
    <2> QED
      BY <2>1, <2>2
  <1>12. UsersAgree'
    <2>1. \A d \in Callers \ {c} : pc[d] # "using"
      BY <1>1, <1>9 DEF Inv, UsersAgree, Creating
    <2> QED
      BY <1>2, <2>1 DEF Inv, TypeOK, UsersAgree, End
  <1> QED
    BY <1>5, <1>7, <1>8, <1>10, <1>11, <1>12 DEF Inv

\* The commit of a caller that found the pointer.
LEMMA UserCommitInv ==
    ASSUME Inv, NEW c \in Callers, Commit(c), newActive[c] = None
    PROVE  Inv'
  <1>1. newSet[c] = {} /\ found[c] = active /\ active \in Ids
    BY DEF Inv, TypeOK, RowsMatchPlace, OwnRows, UsersAgree, Commit
  <1>2. End(c, active) /\ UNCHANGED <<sets, active>>
    BY <1>1 DEF Commit
  <1>3. active \in Outcomes /\ active # "failed"
    BY <1>1, DatabasesAssumption DEF Outcomes
  <1> QED
    BY <1>2, <1>3, EndInv

\* Every step keeps the invariant.
LEMMA StepInv == Inv /\ [Next]_vars => Inv'
  <1> SUFFICES ASSUME Inv, [Next]_vars PROVE Inv'
    OBVIOUS
  <1>1. CASE UNCHANGED vars
    BY <1>1, SameTables DEF vars, Inv, TypeOK, Agreement, RefusedOnlyIfCorrupt,
       CreatorIsAlone, Creating, RowsMatchPlace, OwnRows, UsersAgree, Legal, KindOf
  <1>2. ASSUME NEW c \in Callers, NEW kind \in Calls, Ask(c, kind) PROVE Inv'
    <2>1. TypeOK'
      BY <1>2 DEF Inv, TypeOK, Ask, Legal, Statements, Outcomes
    <2>2. Agreement' /\ RefusedOnlyIfCorrupt'
      BY <1>2, SameTables, DatabasesAssumption
         DEF Inv, TypeOK, Agreement, RefusedOnlyIfCorrupt, Ask
    <2>3. CreatorIsAlone'
      BY <1>2 DEF Inv, TypeOK, CreatorIsAlone, Creating, Ask
    <2>4. RowsMatchPlace'
      BY <1>2 DEF Inv, TypeOK, RowsMatchPlace, OwnRows, Ask
    <2>5. UsersAgree'
      BY <1>2 DEF Inv, TypeOK, UsersAgree, Ask, KindOf
    <2> QED
      BY <2>1, <2>2, <2>3, <2>4, <2>5 DEF Inv
  <1>3. ASSUME NEW c \in Callers, Rollback(c) PROVE Inv'
    <2>1. "interrupted" \in Outcomes /\ "interrupted" \notin Ids
      BY DatabasesAssumption DEF Outcomes
    <2> QED
      BY <1>3, <2>1, EndInv DEF Rollback
  <1>4. ASSUME NEW c \in Callers, Probe(c) PROVE Inv'
    <2>1. newActive[c] = None
      BY <1>4 DEF Inv, RowsMatchPlace, Probe
    <2>2. CASE UsePointer(c)
      BY <1>4, <2>2, UsePointerInv DEF Probe
    <2>3. CASE Goto(c, "locking") /\ UNCHANGED <<lock, found>>
      BY <1>4, <2>1, <2>3, GotoInv DEF Probe, Statements
    <2>4. CASE call[c] = "find" /\ Fail(c)
      <3>1. "nothing" \in Outcomes /\ "nothing" \notin Ids
        BY DatabasesAssumption DEF Outcomes
      <3> QED
        BY <2>4, <3>1, EndInv DEF Fail
    <2> QED
      BY <1>4, <2>2, <2>3, <2>4 DEF Probe
  <1>5. ASSUME NEW c \in Callers, AcquireBootstrapLock(c) PROVE Inv'
    <2>1. newActive[c] = None
      BY <1>5 DEF Inv, RowsMatchPlace, AcquireBootstrapLock
    <2> QED
      BY <1>5, <2>1, GotoInv DEF AcquireBootstrapLock, Statements
  <1>6. ASSUME NEW c \in Callers, Decide(c) PROVE Inv'
    <2>1. newActive[c] = None /\ lock = c
      BY <1>6 DEF Inv, RowsMatchPlace, CreatorIsAlone, Decide
    <2>2. CASE UsePointer(c)
      BY <1>6, <2>2, UsePointerInv DEF Decide
    <2>3. CASE /\ active = None
               /\ \E row \in sets : row.kind # "legacy"
               /\ Fail(c)
      <3>1. {"failed", "nothing"} \subseteq Outcomes /\ Ids \cap {"failed", "nothing"} = {}
        BY DatabasesAssumption DEF Outcomes
      <3>2. Corrupt
        BY <2>3 DEF Corrupt
      <3> QED
        BY <2>3, <3>1, <3>2, EndInv DEF Fail
    <2>4. CASE /\ active = None
               /\ \A row \in sets : row.kind = "legacy"
               /\ Goto(c, "inserting")
               /\ UNCHANGED <<lock, found>>
      BY <1>6, <2>1, <2>4, GotoInv DEF Decide, Statements
    <2> QED
      BY <1>6, <2>2, <2>3, <2>4 DEF Decide
  <1>7. ASSUME NEW c \in Callers, Commit(c) PROVE Inv'
    BY <1>7, CreatorCommitInv, UserCommitInv
  <1> QED
    BY <1>1, <1>2, <1>3, <1>4, <1>5, <1>6, <1>7, InsertSetInv, InsertPointerInv
       DEF Next, Step

\* The inductive invariant holds in every reachable state.
THEOREM InvariantHolds == Spec => []Inv
  <1> QED
    BY InitInv, StepInv, PTL DEF Spec

\* The two tables and every caller keep their types, and the tables keep the
\* constraints of the schema.
THEOREM TypeCorrect == Spec => []TypeOK
  <1>1. Inv => TypeOK
    BY DEF Inv
  <1> QED
    BY <1>1, InvariantHolds, PTL

\* All callers that are answered an id are answered the active one, however
\* many servers and chunk writes start on an empty database at once.
THEOREM CallersAgree == Spec => []Agreement
  <1>1. Inv => Agreement
    BY DEF Inv
  <1> QED
    BY <1>1, InvariantHolds, PTL

\* Only a corrupt database refuses a caller.
THEOREM OnlyCorruptionRefuses == Spec => []RefusedOnlyIfCorrupt
  <1>1. Inv => RefusedOnlyIfCorrupt
    BY DEF Inv
  <1> QED
    BY <1>1, InvariantHolds, PTL

\* The two together, as the runs check them.
THEOREM CallersServedAlike == Spec => []CallersAreServedAlike
  BY CallersAgree, OnlyCorruptionRefuses, PTL DEF CallersAreServedAlike

\* In a corrupt database nobody is creating, and only a chunk write is using.
LEMMA CorruptIsIdle ==
    ASSUME Inv, Corrupt, NEW c \in Callers
    PROVE  /\ ~Creating(c)
           /\ pc[c] = "using" => call[c] = "require"
  <1>1. ~Creating(c)
    BY DEF Inv, CreatorIsAlone, Corrupt
  <1>2. pc[c] = "using" => call[c] = "require"
    BY <1>1 DEF Inv, UsersAgree, Creating, Corrupt
  <1> QED
    BY <1>1, <1>2

\* A corrupt database is neither completed nor, but for chunk writes, used.
THEOREM CorruptionFailsClosed == Spec => CorruptStaysClosed
  <1> DEFINE Closed(c) == pc[c] = "using" => call[c] = "require"
  <1>1. ASSUME Inv, Corrupt, [Next]_vars
        PROVE  /\ sets' = sets /\ active' = active
               /\ \A c \in Callers : Closed(c)'
    <2>1. \A c \in Callers : ~Creating(c) /\ Closed(c)
      BY <1>1, CorruptIsIdle
    <2>2. pc \in [Callers -> Statements] /\ call \in [Callers -> Calls]
      BY <1>1 DEF Inv, TypeOK
    <2>3. CASE UNCHANGED vars
      BY <2>1, <2>3 DEF vars
    <2>4. ASSUME NEW c \in Callers, NEW kind \in Calls, Ask(c, kind)
          PROVE  UNCHANGED <<sets, active>> /\ \A d \in Callers : Closed(d)'
      BY <2>1, <2>2, <2>4 DEF Ask
    <2>5. ASSUME NEW c \in Callers, NEW outcome, End(c, outcome)
          PROVE  \A d \in Callers : Closed(d)'
      BY <2>1, <2>2, <2>5 DEF End
    <2>6. ASSUME NEW c \in Callers, Rollback(c) \/ Fail(c)
          PROVE  UNCHANGED <<sets, active>> /\ \A d \in Callers : Closed(d)'
      BY <2>5, <2>6 DEF Rollback, Fail
    <2>7. ASSUME NEW c \in Callers, UsePointer(c)
          PROVE  UNCHANGED <<sets, active>> /\ \A d \in Callers : Closed(d)'
      <3>1. Accepts(c, KindOf(sets, active)) => call[c] = "require"
        BY <1>1, <2>7 DEF Accepts, Corrupt, UsePointer
      <3>2. CASE Fail(c)
        BY <2>6, <3>2
      <3>3. CASE ~Fail(c)
        BY <2>1, <2>2, <2>7, <3>1, <3>3 DEF UsePointer, Goto
      <3> QED
        BY <3>2, <3>3
    <2>8. ASSUME NEW c \in Callers, NEW statement, statement # "using",
                 Goto(c, statement)
          PROVE  UNCHANGED <<sets, active>> /\ \A d \in Callers : Closed(d)'
      BY <2>1, <2>2, <2>8 DEF Goto
    <2>9. ASSUME NEW c \in Callers, Probe(c) \/ AcquireBootstrapLock(c) \/ Decide(c)
          PROVE  UNCHANGED <<sets, active>> /\ \A d \in Callers : Closed(d)'
      BY <2>6, <2>7, <2>8, <2>9 DEF Probe, AcquireBootstrapLock, Decide
    <2>10. ASSUME NEW c \in Callers
           PROVE  ~InsertSet(c) /\ ~InsertPointer(c)
      BY <2>1 DEF Creating, InsertSet, InsertPointer
    <2>11. ASSUME NEW c \in Callers, Commit(c)
           PROVE  UNCHANGED <<sets, active>> /\ \A d \in Callers : Closed(d)'
      <3>1. newSet[c] = {} /\ newActive[c] = None
        BY <1>1, <2>1, <2>11 DEF Inv, RowsMatchPlace, OwnRows, Creating, Commit
      <3>2. UNCHANGED <<sets, active>>
        BY <2>11, <3>1 DEF Commit
      <3>3. \A d \in Callers : Closed(d)'
        BY <2>5, <2>11 DEF Commit
      <3> QED
        BY <3>2, <3>3
    <2> HIDE DEF Closed
    <2> QED
      BY <1>1, <2>3, <2>4, <2>6, <2>9, <2>10, <2>11 DEF Next, Step
  <1>2. Inv /\ [Next]_vars =>
           [Corrupt => /\ sets' = sets /\ active' = active
                       /\ \A c \in Callers : pc'[c] = "using" => call'[c] = "require"]_vars
    BY <1>1
  <1> QED
    BY <1>2, InvariantHolds, PTL DEF Spec, CorruptStaysClosed


-----------------------------------------------------------------------------
(*                         Documents and their chunks                      *)
-----------------------------------------------------------------------------

(* The inductive invariant                                                 *)

Functions ==
    /\ newDocs = [c \in Clients |-> newDocs[c]]
    /\ newChunks = [c \in Clients |-> newChunks[c]]
    /\ newJobs = [c \in Clients |-> newJobs[c]]
    /\ stage = [c \in Clients |-> stage[c]]
    /\ request = [c \in Clients |-> request[c]]
    /\ version = [c \in Clients |-> version[c]]
    /\ document = [c \in Clients |-> document[c]]
    /\ todo = [c \in Clients |-> todo[c]]
    /\ saved = [c \in Clients |-> saved[c]]
    /\ reply = [c \in Clients |-> reply[c]]

Tables ==
    /\ IsFiniteSet(documents) /\ documents \subseteq DocRows /\ OneOfEach(documents)
    /\ \A row \in chunks : row.doc \in IdsOf(documents)
    /\ IdsOf(chunks \ LegacyChunks) \subseteq jobs /\ jobs \subseteq IdsOf(chunks)
    /\ requests \in 0..MaxRequests

\* The row a transaction has inserted would be the next version.
Inserted(c) ==
    \/ newDocs[c] = {}
    \/ \E row \in DocRows :
          /\ newDocs[c] = {row} /\ row.version = Cardinality(documents) + 1
          /\ \A doc \in documents : doc.id # row.id /\ doc.hash # row.hash

\* One transaction at a time holds an uncommitted version.
OneWriter == \A c, d \in Clients : newDocs[c] # {} /\ newDocs[d] # {} => c = d

\* What is not committed yet has its keys for itself as well.
Keys ==
    /\ \A a, b \in chunks : SameKey(a, b) => a = b
    /\ \A c, d \in Clients :
          \A a \in newChunks[c], b \in chunks \cup newChunks[d] : SameKey(a, b) => a = b

NothingStored(c) == newChunks[c] = {} /\ newJobs[c] = {} /\ saved[c] = {}

AsksFor(c) ==
    /\ request[c].kind \in {"snapshot", "chunked", "chunks"}
    /\ IF request[c].kind = "chunks" THEN request[c].batch \in Batches
       ELSE request[c].content \in Contents /\ request[c].id \in DocIds

\* The transaction knows the snapshot it works on.
OnDocument(c) ==
    /\ IdsOf(newDocs[c]) \subseteq {document[c]}
    /\ IF request[c].kind = "chunks"
       THEN /\ newDocs[c] = {} /\ document[c] = request[c].id
            /\ document[c] \in IdsOf(documents)
       ELSE \E row \in documents \cup newDocs[c] :
               row.id = document[c] /\ row.hash = request[c].content

\* What is listed for the answer is stored, and was asked for.
Storing(c) ==
    /\ request[c].kind # "snapshot"
    /\ newChunks[c] \subseteq saved[c] /\ saved[c] \subseteq ChunksOf(c, document[c])
    /\ \A row \in saved[c] : \E i \in DOMAIN Wanted(c) : row.hash = Wanted(c)[i].hash
    /\ todo[c] \subseteq DOMAIN Wanted(c)

\* What the loop is through with has its job.
Queueing(c) ==
    /\ newJobs[c] \subseteq IdsOf(saved[c])
    /\ \A i \in DOMAIN Wanted(c) : \E row \in saved[c] :
          /\ row.hash = Wanted(c)[i].hash
          /\ i \in todo[c] \/ row.id \in jobs \cup newJobs[c]

Sound(c) ==
    /\ stage[c] \in Stages /\ reply[c] \in Replies
    /\ stage[c] # "idle" => AsksFor(c)
    /\ stage[c] \in {"idle", "finding", "inserting"} => newDocs[c] = {} /\ NothingStored(c)
    /\ stage[c] \in {"finding", "inserting"} => request[c].kind # "chunks"
    /\ stage[c] = "inserting" => version[c] \in 1..(Cardinality(documents) + 1)
    /\ stage[c] \in {"reading", "adding", "enqueuing", "committing"} => OnDocument(c)
    /\ stage[c] = "reading" => request[c].kind # "snapshot" /\ NothingStored(c)
    /\ stage[c] = "adding" => Storing(c) /\ newJobs[c] = {}
    /\ stage[c] = "enqueuing" => Storing(c) /\ Queueing(c)
    /\ stage[c] = "committing" =>
          IF request[c].kind = "snapshot" THEN NothingStored(c)
          ELSE Storing(c) /\ Queueing(c) /\ todo[c] = {}

Answered(c) ==
    reply[c] = "ok" =>
        \E doc \in documents :
            /\ IF request[c].kind = "chunks" THEN doc.id = request[c].id
                                             ELSE doc.hash = request[c].content
            /\ request[c].kind # "snapshot" =>
                  LET wanted == IF request[c].kind = "chunks" THEN request[c].batch
                                ELSE Generated(doc.id, request[c].content)
                  IN \A i \in DOMAIN wanted : \E row \in chunks :
                        /\ row.doc = doc.id
                        /\ row.hash = wanted[i].hash
                        /\ row.id \in jobs

IInv ==
    /\ Functions /\ Tables /\ OneWriter /\ Keys
    /\ \A c \in Clients : Sound(c) /\ Inserted(c) /\ Answered(c)

-----------------------------------------------------------------------------
(* One client's step                                                       *)

\* Client d's transaction is where it was.
Same(d) ==
    /\ newDocs'[d] = newDocs[d] /\ newChunks'[d] = newChunks[d] /\ newJobs'[d] = newJobs[d]
    /\ stage'[d] = stage[d] /\ request'[d] = request[d] /\ version'[d] = version[d]
    /\ document'[d] = document[d] /\ todo'[d] = todo[d] /\ saved'[d] = saved[d]
    /\ reply'[d] = reply[d]

\* Tables only grow.
Grown ==
    /\ documents \subseteq documents' /\ chunks \subseteq chunks' /\ jobs \subseteq jobs'
    /\ Cardinality(documents) \in Nat /\ Cardinality(documents') \in Nat
    /\ Cardinality(documents) <= Cardinality(documents')

\* Nobody is disturbed by what others commit.
LEMMA SoundIsKept ==
    ASSUME NEW d \in Clients, Sound(d), Same(d), Grown
    PROVE  Sound(d)'
<1>1. Wanted(d)' = Wanted(d)
  BY DEF Wanted, Same
<1>2. AsksFor(d)' <=> AsksFor(d)
  BY DEF AsksFor, Same
<1>3. NothingStored(d)' <=> NothingStored(d)
  BY DEF NothingStored, Same
<1>4. OnDocument(d) => OnDocument(d)'
  BY DEF OnDocument, Same, Grown, IdsOf
<1>5. Storing(d) => Storing(d)'
  BY <1>1 DEF Storing, Same, Grown, ChunksOf
<1>6. Queueing(d) => Queueing(d)'
  BY <1>1 DEF Queueing, Same, Grown, IdsOf
<1>7. version[d] \in 1..(Cardinality(documents) + 1)
        => version[d] \in 1..(Cardinality(documents') + 1)
  BY DEF Grown
<1>8. QED
  BY <1>2, <1>3, <1>4, <1>5, <1>6, <1>7 DEF Sound, Same

\* What has been answered stays true as tables grow.
LEMMA AnsweredIsKept ==
    ASSUME NEW d \in Clients, Answered(d), request'[d] = request[d], reply'[d] = reply[d], Grown
    PROVE  Answered(d)'
BY DEF Answered, Grown

\* A step of client c that commits nothing is sound if it is sound for c.
OnlyBy(c) ==
    /\ Functions' /\ \A d \in Clients \ {c} : Same(d)
    /\ UNCHANGED committed /\ requests' \in 0..MaxRequests

\* Tables that do not change have grown.
LEMMA NothingCommitted ==
    ASSUME IInv, UNCHANGED committed
    PROVE  Grown
<1>1. Cardinality(documents) \in Nat
  BY FS_CardinalityType DEF IInv, Tables
<1>2. QED
  BY <1>1 DEF Grown, committed

\* For a step that commits nothing, what it does to its own client is enough.
LEMMA OneClient ==
    ASSUME IInv, NEW c \in Clients, OnlyBy(c),
           Sound(c)', Inserted(c)', Answered(c)', OneWriter', Keys'
    PROVE  IInv'
<1>1. Tables'
  BY DEF IInv, Tables, OnlyBy, committed
<1>2. Grown
  BY NothingCommitted DEF OnlyBy
<1>3. ASSUME NEW d \in Clients \ {c}
      PROVE  Sound(d)' /\ Inserted(d)' /\ Answered(d)'
  <2>1. Same(d)
    BY DEF OnlyBy
  <2>2. Sound(d)'
    BY <1>2, <2>1, SoundIsKept DEF IInv
  <2>3. Answered(d)'
    BY <1>2, <2>1, AnsweredIsKept DEF IInv, Same
  <2>4. Inserted(d)'
    BY <2>1 DEF IInv, Inserted, Same, OnlyBy, committed
  <2> QED
    BY <2>2, <2>3, <2>4
<1>4. QED
  BY <1>1, <1>3 DEF IInv, OnlyBy

\* Most steps insert no row of documents and no chunk.
LEMMA NothingInserted ==
    ASSUME IInv, NEW c \in Clients, OnlyBy(c),
           newDocs'[c] \subseteq newDocs[c], newChunks'[c] \subseteq newChunks[c],
           Sound(c)', Answered(c)'
    PROVE  IInv'
<1>1. \A d \in Clients : newDocs'[d] \subseteq newDocs[d] /\ newChunks'[d] \subseteq newChunks[d]
  BY DEF OnlyBy, Same
<1>2. OneWriter'
  BY <1>1 DEF IInv, OneWriter
<1>3. Keys'
  BY <1>1 DEF IInv, Keys, OnlyBy, committed
<1>4. Inserted(c)'
  BY DEF IInv, Inserted, OnlyBy, committed
<1>5. QED
  BY <1>2, <1>3, <1>4, OneClient

\* A rollback keeps the invariant.
LEMMA RollBackStep ==
    ASSUME IInv, NEW c \in Clients, NEW outcome \in Replies \ {"ok"}, RollBack(c, outcome)
    PROVE  IInv'
<1>1. OnlyBy(c)
  BY DEF IInv, Functions, Tables, RollBack, EndRequest, OnlyBy, Same
<1>2. newDocs'[c] = {} /\ stage'[c] = "idle" /\ reply'[c] = outcome /\ NothingStored(c)'
  BY DEF IInv, Functions, RollBack, EndRequest, NothingStored
<1>3. newChunks'[c] = {}
  BY <1>2 DEF NothingStored
<1>4. Sound(c)' /\ Answered(c)'
  BY <1>2 DEF Sound, Stages, Answered
<1>5. QED
  BY <1>1, <1>2, <1>3, <1>4, NothingInserted

\* The invariant holds at the start.
LEMMA InitSound ==
    ASSUME WritesInit
    PROVE  IInv
<1>1. Functions
  BY DEF WritesInit, Functions
<1>2. Tables
  BY WritesAssumption DEF WritesInit, Tables, IdsOf
<1>3. OneWriter /\ Keys
  BY WritesAssumption DEF WritesInit, OneWriter, Keys
<1>4. \A c \in Clients : Sound(c) /\ Inserted(c) /\ Answered(c)
  BY DEF WritesInit, Sound, NothingStored, Inserted, Answered, Stages, Replies
<1>5. QED
  BY <1>1, <1>2, <1>3, <1>4 DEF IInv

-----------------------------------------------------------------------------
(* The actions                                                             *)

\* The least of the positions left is one of them.
LEMMA LeastIsIn ==
    ASSUME NEW I \in SUBSET Nat, I # {}
    PROVE  Least(I) \in I
<1>1. PICK x \in I : \A y \in I : ~(<<y, x>> \in OpToRel(<, Nat))
  BY NatLessThanWellFounded, WFMin
<1>2. \A y \in I : x <= y
  <2> SUFFICES ASSUME NEW y \in I, y < x
               PROVE  FALSE
    OBVIOUS
  <2>1. <<y, x>> \in OpToRel(<, Nat)
    BY DEF OpToRel
  <2> QED
    BY <1>1, <2>1
<1>3. QED
  BY <1>2 DEF Least

\* MAX(snapshot_version) is the number of snapshots.
LEMMA LargestVersion ==
    ASSUME Tables
    PROVE  /\ Cardinality(documents) \in Nat
           /\ Largest({0} \cup {row.version : row \in documents}) = Cardinality(documents)
<1> DEFINE n == Cardinality(documents)
           V == {0} \cup {row.version : row \in documents}
<1>1. n \in Nat
  BY FS_CardinalityType DEF Tables
<1>2. V = {0} \cup 1..n
  BY DEF Tables, OneOfEach
<1> HIDE DEF V, n
<1>3. n \in V /\ \A m \in V : m <= n
  BY <1>1, <1>2
<1>4. Largest(V) \in V /\ \A m \in V : m <= Largest(V)
  BY <1>3 DEF Largest
<1>5. V \subseteq Nat
  BY <1>1, <1>2
<1>6. Largest(V) = n
  <2>1. n <= Largest(V) /\ Largest(V) <= n /\ Largest(V) \in Nat
    BY <1>3, <1>4, <1>5
  <2> QED
    BY <1>1, <2>1
<1>7. QED
  BY <1>1, <1>6 DEF V, n

\* A request that begins keeps the invariant, if it asks for something.
LEMMA BeginStep ==
    ASSUME IInv, NEW c \in Clients, NEW r, NEW first, NEW doc, Begin(c, r, first, doc),
           r.kind \in {"snapshot", "chunked", "chunks"},
           IF r.kind = "chunks" THEN r.batch \in Batches
                                ELSE r.content \in Contents /\ r.id \in DocIds,
           \/ first = "finding" /\ r.kind # "chunks"
           \/ first = "reading" /\ r.kind = "chunks" /\ doc = r.id /\ doc \in IdsOf(documents)
    PROVE  IInv'
<1>1. OnlyBy(c)
  <2>1. requests' \in 0..MaxRequests
    BY WritesAssumption DEF Begin, IInv, Tables
  <2> QED
    BY <2>1 DEF IInv, Functions, Begin, OnlyBy, Same, own
<1>2. /\ stage[c] = "idle" /\ stage'[c] = first /\ request'[c] = r /\ document'[c] = doc
      /\ reply'[c] = "none" /\ UNCHANGED <<committed, own, version, todo, saved>>
  BY DEF IInv, Functions, Begin
<1>3. newDocs[c] = {} /\ NothingStored(c)
  BY <1>2 DEF IInv, Sound
<1>4. newDocs'[c] = {} /\ NothingStored(c)' /\ newChunks'[c] = newChunks[c]
  BY <1>2, <1>3 DEF NothingStored, own
<1>5. AsksFor(c)'
  BY <1>2 DEF AsksFor
<1>6. first = "reading" => OnDocument(c)' /\ request'[c].kind = "chunks"
  BY <1>2, <1>4 DEF OnDocument, committed, IdsOf
<1>7. Sound(c)'
  BY <1>2, <1>4, <1>5, <1>6 DEF Sound, Stages, Replies
<1>8. Answered(c)'
  BY <1>2 DEF Answered
<1>9. QED
  BY <1>1, <1>3, <1>4, <1>7, <1>8, NothingInserted

\* So does every request a client can send.
LEMMA SendStep ==
    ASSUME IInv, NEW c \in Clients, Send(c)
    PROVE  IInv'
<1>1. CASE \E kind \in {"snapshot", "chunked"}, content \in Contents, id \in DocIds :
              SaveDocumentSnapshot(c, kind, content, id)
  <2>1. PICK kind \in {"snapshot", "chunked"}, content \in Contents, id \in DocIds :
              Begin(c, Request(kind, content, id, <<>>), "finding", "none")
    BY <1>1 DEF SaveDocumentSnapshot
  <2> QED
    BY <2>1, BeginStep DEF Request
<1>2. CASE \E doc \in DocIds, batch \in Batches : SaveDocumentChunks(c, doc, batch)
  <2>1. PICK doc \in DocIds, batch \in Batches :
            /\ doc \in IdsOf(documents)
            /\ Begin(c, Request("chunks", "none", doc, batch), "reading", doc)
    BY <1>2 DEF SaveDocumentChunks, IdsOf
  <2> QED
    BY <2>1, BeginStep DEF Request
<1>3. QED
  BY <1>1, <1>2 DEF Send

\* A snapshot that is there already is worked on under its canonical id.
LEMMA KnownSnapshot ==
    ASSUME IInv, NEW c \in Clients, stage[c] \in {"finding", "inserting"},
           NEW row \in documents, row.hash = request[c].content, OnlyBy(c),
           document'[c] = row.id, stage'[c] = AfterSnapshot(c), UNCHANGED own,
           request'[c] = request[c], saved'[c] = saved[c], reply'[c] = reply[c]
    PROVE  IInv'
<1>1. /\ AsksFor(c) /\ newDocs[c] = {} /\ NothingStored(c) /\ request[c].kind # "chunks"
      /\ reply[c] \in Replies
  BY DEF IInv, Sound
<1>2. newDocs'[c] = {} /\ newChunks'[c] = newChunks[c] /\ NothingStored(c)' /\ AsksFor(c)'
  BY <1>1 DEF own, NothingStored, AsksFor
<1>3. OnDocument(c)'
  BY <1>1, <1>2 DEF OnDocument, OnlyBy, committed, IdsOf
<1>4. Sound(c)'
  BY <1>1, <1>2, <1>3 DEF Sound, AfterSnapshot, Stages, AsksFor
<1>5. Answered(c)'
  BY NothingCommitted, AnsweredIsKept DEF IInv, OnlyBy
<1>6. QED
  BY <1>1, <1>2, <1>4, <1>5, NothingInserted

\* The lookup keeps it: the next version is at most one above all others.
LEMMA FindSnapshotStep ==
    ASSUME IInv, NEW c \in Clients, FindSnapshot(c)
    PROVE  IInv'
<1>1. OnlyBy(c)
  BY DEF IInv, Functions, Tables, FindSnapshot, OnlyBy, Same, own
<1>2. /\ stage[c] = "finding" /\ UNCHANGED <<committed, own>>
      /\ request'[c] = request[c] /\ saved'[c] = saved[c] /\ reply'[c] = reply[c]
  BY DEF FindSnapshot
<1>3. CASE \E row \in documents : row.hash = request[c].content
  <2>1. PICK row \in documents : row.hash = request[c].content /\ document'[c] = row.id
    BY <1>3 DEF FindSnapshot, IInv, Functions
  <2>2. stage'[c] = AfterSnapshot(c)
    BY <1>3 DEF FindSnapshot, IInv, Functions
  <2> QED
    BY <1>1, <1>2, <2>1, <2>2, KnownSnapshot
<1>4. CASE \A row \in documents : row.hash # request[c].content
  <2>1. version'[c] = 1 + Largest({0} \cup {row.version : row \in documents})
    BY <1>4 DEF FindSnapshot, IInv, Functions
  <2>2. stage'[c] = "inserting"
    BY <1>4 DEF FindSnapshot, IInv, Functions
  <2>3. version'[c] \in 1..(Cardinality(documents') + 1)
    BY <1>2, <2>1, LargestVersion DEF IInv, committed
  <2>4. /\ AsksFor(c) /\ newDocs[c] = {} /\ NothingStored(c) /\ request[c].kind # "chunks"
        /\ reply[c] \in Replies
    BY <1>2 DEF IInv, Sound
  <2>5. newDocs'[c] = {} /\ newChunks'[c] = newChunks[c] /\ NothingStored(c)' /\ AsksFor(c)'
    BY <1>2, <2>4 DEF own, NothingStored, AsksFor
  <2>6. Sound(c)'
    BY <1>2, <2>2, <2>3, <2>4, <2>5 DEF Sound, Stages
  <2>7. Answered(c)'
    BY <1>2, NothingCommitted, AnsweredIsKept DEF IInv
  <2> QED
    BY <1>1, <2>4, <2>5, <2>6, <2>7, NothingInserted
<1>5. QED
  BY <1>3, <1>4
\* The next version is taken by nobody else: whoever holds it is waited for.
LEMMA InsertSnapshotStep ==
    ASSUME IInv, NEW c \in Clients, InsertSnapshot(c)
    PROVE  IInv'
<1> DEFINE row == [id |-> request[c].id, hash |-> request[c].content, version |-> version[c]]
<1>1. stage[c] = "inserting" /\ ~Waits(c)
  BY DEF InsertSnapshot
<1>2. /\ AsksFor(c) /\ newDocs[c] = {} /\ NothingStored(c) /\ request[c].kind # "chunks"
      /\ reply[c] \in Replies /\ version[c] \in 1..(Cardinality(documents) + 1)
  BY <1>1 DEF IInv, Sound
<1>3. CASE \E known \in documents :
             /\ known.hash = request[c].content /\ document' = [document EXCEPT ![c] = known.id]
             /\ stage' = [stage EXCEPT ![c] = AfterSnapshot(c)]
             /\ UNCHANGED <<committed, own, request, version, todo, saved, reply, requests>>
  <2>1. OnlyBy(c)
    BY <1>3 DEF IInv, Functions, Tables, OnlyBy, Same, own
  <2>2. PICK known \in documents : known.hash = request[c].content /\ document'[c] = known.id
    BY <1>3 DEF IInv, Functions
  <2>3. /\ stage'[c] = AfterSnapshot(c) /\ UNCHANGED own
        /\ request'[c] = request[c] /\ saved'[c] = saved[c] /\ reply'[c] = reply[c]
    BY <1>3 DEF IInv, Functions
  <2> QED
    BY <1>1, <2>1, <2>2, <2>3, KnownSnapshot
<1>4. CASE \E outcome \in {"duplicate_id", "duplicate_version"} : RollBack(c, outcome)
  BY <1>4, RollBackStep DEF Replies
<1>5. CASE /\ \A d \in documents :
                 d.hash # request[c].content /\ d.id # request[c].id /\ d.version # version[c]
           /\ newDocs' = [newDocs EXCEPT ![c] = {row}]
           /\ document' = [document EXCEPT ![c] = row.id]
           /\ stage' = [stage EXCEPT ![c] = AfterSnapshot(c)]
           /\ UNCHANGED <<committed, newChunks, newJobs, request, version, todo, saved, reply,
                          requests>>
  <2>1. OnlyBy(c)
    BY <1>5 DEF IInv, Functions, Tables, OnlyBy, Same
  <2>2. /\ newDocs'[c] = {row} /\ document'[c] = row.id /\ stage'[c] = AfterSnapshot(c)
        /\ newChunks'[c] = newChunks[c] /\ newJobs'[c] = newJobs[c]
        /\ request'[c] = request[c] /\ saved'[c] = saved[c] /\ reply'[c] = reply[c]
    BY <1>5 DEF IInv, Functions
  <2>3. row \in DocRows
    BY <1>2, LargestVersion DEF AsksFor, DocRows, IInv
  <2>4. version[c] = Cardinality(documents) + 1
    <3>1. version[c] \notin {d.version : d \in documents}
      BY <1>5
    <3>2. version[c] \notin 1..Cardinality(documents)
      BY <3>1 DEF IInv, Tables, OneOfEach
    <3> QED
      BY <1>2, <3>2, LargestVersion DEF IInv
  <2>5. Inserted(c)'
    BY <1>5, <2>2, <2>3, <2>4 DEF Inserted, committed
  <2>6. OneWriter'
    <3>1. \A d \in Clients \ {c} : newDocs[d] = {}
      <4> SUFFICES ASSUME NEW d \in Clients \ {c}, newDocs[d] # {}
                   PROVE  FALSE
        OBVIOUS
      <4>1. PICK other \in newDocs[d] : other.version = Cardinality(documents) + 1
        BY DEF IInv, Inserted
      <4>2. ClashingDoc(c, other)
        BY <2>4, <4>1 DEF ClashingDoc
      <4> QED
        BY <1>1, <4>1, <4>2 DEF Waits, WaitsFor
    <3>2. \A d \in Clients \ {c} : newDocs'[d] = {}
      BY <2>1, <3>1 DEF OnlyBy, Same
    <3> QED
      BY <3>2 DEF OneWriter
  <2>7. Keys'
    BY <1>5 DEF IInv, Keys, committed
  <2>8. OnDocument(c)'
    BY <1>2, <2>2 DEF OnDocument, IdsOf
  <2>9. NothingStored(c)' /\ AsksFor(c)'
    BY <1>2, <2>2 DEF NothingStored, AsksFor
  <2>10. Sound(c)'
    BY <1>2, <2>2, <2>8, <2>9 DEF Sound, AfterSnapshot, Stages, AsksFor
  <2>11. Answered(c)'
    BY <2>1, <2>2, NothingCommitted, AnsweredIsKept DEF IInv, OnlyBy
  <2> QED
    BY <2>1, <2>5, <2>6, <2>7, <2>10, <2>11, OneClient
<1>6. QED
  BY <1>3, <1>4, <1>5 DEF InsertSnapshot

\* Reading the chunks keeps it: those to store and those listed are apart.
LEMMA ReadChunksStep ==
    ASSUME IInv, NEW c \in Clients, ReadChunks(c)
    PROVE  IInv'
<1> DEFINE existing == ChunksOf(c, document[c])
<1>1. CASE RollBack(c, "rejected")
  BY <1>1, RollBackStep DEF Replies
<1>2. CASE /\ todo' = [todo EXCEPT ![c] = {i \in DOMAIN Wanted(c) :
                          \A row \in existing : row.hash # Wanted(c)[i].hash}]
           /\ saved' = [saved EXCEPT ![c] = {row \in existing :
                          \E i \in DOMAIN Wanted(c) : row.hash = Wanted(c)[i].hash}]
           /\ stage' = [stage EXCEPT ![c] = "adding"]
           /\ UNCHANGED <<committed, own, request, version, document, reply, requests>>
  <2>1. OnlyBy(c)
    BY <1>2 DEF IInv, Functions, Tables, OnlyBy, Same, own
  <2>2. /\ stage[c] = "reading" /\ stage'[c] = "adding"
        /\ UNCHANGED <<committed, own, request, document, reply>>
    BY <1>2 DEF IInv, Functions, ReadChunks
  <2>3. /\ AsksFor(c) /\ OnDocument(c) /\ request[c].kind # "snapshot" /\ NothingStored(c)
        /\ reply[c] \in Replies
    BY <2>2 DEF IInv, Sound
  <2>4. Wanted(c)' = Wanted(c) /\ ChunksOf(c, document[c])' = existing
    BY <2>2 DEF Wanted, ChunksOf, committed, own
  <2>5. /\ saved'[c] \subseteq existing /\ todo'[c] \subseteq DOMAIN Wanted(c)
        /\ \A row \in saved'[c] : \E i \in DOMAIN Wanted(c) : row.hash = Wanted(c)[i].hash
    BY <1>2 DEF IInv, Functions
  <2>6. Storing(c)' /\ newJobs'[c] = {}
    BY <2>2, <2>3, <2>4, <2>5 DEF Storing, NothingStored, own
  <2>7. OnDocument(c)' /\ AsksFor(c)'
    BY <2>2, <2>3 DEF OnDocument, AsksFor, committed, own
  <2>8. Sound(c)'
    BY <2>2, <2>3, <2>6, <2>7 DEF Sound, Stages
  <2>9. Answered(c)'
    BY <2>2, NothingCommitted, AnsweredIsKept DEF IInv
  <2> QED
    BY <2>1, <2>2, <2>8, <2>9, NothingInserted DEF own
<1>3. QED
  BY <1>1, <1>2 DEF ReadChunks
\* The chunk a loop has come to is one that was asked for.
LEMMA NextIsWanted ==
    ASSUME NEW c \in Clients, AsksFor(c), todo[c] \subseteq DOMAIN Wanted(c), todo[c] # {}
    PROVE  /\ Least(todo[c]) \in todo[c] /\ Least(todo[c]) \in DOMAIN Wanted(c)
           /\ NextChunk(c) = Wanted(c)[Least(todo[c])]
<1>1. DOMAIN Wanted(c) \subseteq Nat
  BY WritesAssumption DEF AsksFor, Wanted, Generated
<1>2. Least(todo[c]) \in todo[c]
  BY <1>1, LeastIsIn
<1>3. QED
  BY <1>2 DEF NextChunk

\* A chunk that is inserted has its keys for itself.
LEMMA InsertedKeys ==
    ASSUME IInv, NEW c \in Clients, stage[c] = "adding", todo[c] # {}, ~Waits(c), Stored(c) = {},
           NEW row, row = Row(document[c], NextChunk(c)),
           \A r \in chunks \cup newChunks[c] :
              r.id # row.id /\ ~(r.doc = row.doc /\ r.index = row.index),
           chunks' = chunks, newChunks' = [newChunks EXCEPT ![c] = @ \cup {row}]
    PROVE  Keys'
<1>1. /\ row.id = NextChunk(c).id /\ row.doc = document[c]
      /\ row.hash = NextChunk(c).hash /\ row.index = NextChunk(c).index
  BY DEF Row
<1>2. \A b \in chunks \cup newChunks[c] : ~SameKey(row, b)
  <2>1. \A b \in chunks \cup newChunks[c] : ~(b.doc = document[c] /\ b.hash = NextChunk(c).hash)
    BY DEF Stored, ChunksOf
  <2> QED
    BY <1>1, <2>1 DEF SameKey
<1>3. \A d \in Clients \ {c} : \A b \in newChunks[d] : ~SameKey(row, b)
  <2>1. \A d \in Clients \ {c} : \A b \in newChunks[d] : ~ClashingChunk(c, b)
    BY DEF Waits, WaitsFor
  <2> QED
    BY <1>1, <2>1 DEF ClashingChunk, SameKey
<1>4. \A d \in Clients : newChunks'[d] = IF d = c THEN newChunks[c] \cup {row} ELSE newChunks[d]
  BY DEF IInv, Functions
<1>5. \A a, b : SameKey(a, b) <=> SameKey(b, a)
  BY DEF SameKey
<1> HIDE DEF SameKey
<1>6. ASSUME NEW d \in Clients, NEW e \in Clients,
             NEW a \in newChunks'[d], NEW b \in chunks \cup newChunks'[e], SameKey(a, b)
      PROVE  a = b
  <2>1. a = row \/ a \in newChunks[d]
    BY <1>4
  <2>2. b = row \/ b \in chunks \cup newChunks[e]
    BY <1>4
  <2>3. CASE a = row /\ b # row
    BY <1>2, <1>3, <1>6, <2>2, <2>3
  <2>4. CASE a # row /\ b = row
    BY <1>2, <1>3, <1>5, <1>6, <2>1, <2>4
  <2>5. CASE a # row /\ b # row
    BY <1>6, <2>1, <2>2, <2>5 DEF IInv, Keys
  <2> QED
    BY <2>3, <2>4, <2>5
<1>7. QED
  BY <1>6 DEF IInv, Keys

\* Storing a chunk keeps it: found, inserted or refused.
LEMMA AddChunkStep ==
    ASSUME IInv, NEW c \in Clients, AddChunk(c)
    PROVE  IInv'
<1> DEFINE next == NextChunk(c)
           row == Row(document[c], next)
           known == Stored(c)
<1>1. stage[c] = "adding" /\ todo[c] # {} /\ ~Waits(c)
  BY DEF AddChunk
<1>2. /\ AsksFor(c) /\ OnDocument(c) /\ Storing(c) /\ newJobs[c] = {} /\ reply[c] \in Replies
  BY <1>1 DEF IInv, Sound
<1>3. PICK i \in DOMAIN Wanted(c) : next = Wanted(c)[i]
  BY <1>1, <1>2, NextIsWanted DEF Storing
<1>4. CASE \E outcome \in {"duplicate_id", "duplicate_index"} : RollBack(c, outcome)
  BY <1>4, RollBackStep DEF Replies
<1>5. ASSUME NEW more,
             OnlyBy(c), todo'[c] = Rest(c), saved'[c] = saved[c] \cup more,
             newChunks[c] \subseteq newChunks'[c], newChunks'[c] \subseteq newChunks[c] \cup more,
             \A r \in more : r.hash = next.hash /\ r.doc = document[c]
                              /\ r \in chunks \cup newChunks'[c],
             stage'[c] = stage[c], request'[c] = request[c], document'[c] = document[c],
             reply'[c] = reply[c], newJobs'[c] = newJobs[c], newDocs'[c] = newDocs[c]
      PROVE  Sound(c)' /\ Answered(c)'
  <2>1. Wanted(c)' = Wanted(c) /\ chunks' = chunks /\ documents' = documents
    BY <1>5 DEF Wanted, OnlyBy, committed
  <2>2. todo'[c] \subseteq DOMAIN Wanted(c)
    BY <1>2, <1>5 DEF Storing, Rest
  <2>3. /\ newChunks'[c] \subseteq saved'[c]
        /\ \A r \in saved'[c] : r \in chunks \cup newChunks'[c] /\ r.doc = document[c]
    BY <1>2, <1>5 DEF Storing, ChunksOf
  <2>4. \A r \in saved'[c] : \E j \in DOMAIN Wanted(c) : r.hash = Wanted(c)[j].hash
    BY <1>2, <1>3, <1>5 DEF Storing
  <2>5. Storing(c)'
    BY <1>2, <1>5, <2>1, <2>2, <2>3, <2>4 DEF Storing, ChunksOf
  <2>6. AsksFor(c)' /\ OnDocument(c)'
    BY <1>2, <1>5, <2>1 DEF AsksFor, OnDocument
  <2>7. Sound(c)'
    BY <1>1, <1>2, <1>5, <2>5, <2>6 DEF Sound, Stages
  <2>8. Answered(c)'
    BY <1>5, NothingCommitted, AnsweredIsKept DEF IInv, OnlyBy
  <2> QED
    BY <2>7, <2>8
<1>6. CASE /\ saved' = [saved EXCEPT ![c] = @ \cup {r \in known : r.id = next.id}]
           /\ todo' = [todo EXCEPT ![c] = Rest(c)]
           /\ UNCHANGED <<committed, own, stage, request, version, document, reply, requests>>
  <2> DEFINE more == {r \in known : r.id = next.id}
  <2>1. OnlyBy(c)
    BY <1>6 DEF IInv, Functions, Tables, OnlyBy, Same, own
  <2>2. \A r \in more : r.hash = next.hash /\ r.doc = document[c]
                         /\ r \in chunks \cup newChunks[c]
    BY DEF Stored, ChunksOf
  <2>3. /\ todo'[c] = Rest(c) /\ saved'[c] = saved[c] \cup more
        /\ UNCHANGED <<own, stage, request, document, reply>>
    BY <1>6 DEF IInv, Functions
  <2> HIDE DEF more, next
  <2>4. Sound(c)' /\ Answered(c)'
    BY <1>5, <2>1, <2>2, <2>3 DEF own
  <2> QED
    BY <2>1, <2>3, <2>4, NothingInserted DEF own
<1>7. CASE /\ known = {}
           /\ \A r \in chunks \cup newChunks[c] :
                 r.id # row.id /\ ~(r.doc = row.doc /\ r.index = row.index)
           /\ newChunks' = [newChunks EXCEPT ![c] = @ \cup {row}]
           /\ saved' = [saved EXCEPT ![c] = @ \cup {row}]
           /\ todo' = [todo EXCEPT ![c] = Rest(c)]
           /\ UNCHANGED <<committed, newDocs, newJobs, stage, request, version, document,
                          reply, requests>>
  <2>1. OnlyBy(c)
    BY <1>7 DEF IInv, Functions, Tables, OnlyBy, Same
  <2>2. row.hash = next.hash /\ row.doc = document[c]
    BY DEF Row
  <2>3. /\ todo'[c] = Rest(c) /\ saved'[c] = saved[c] \cup {row}
        /\ newChunks'[c] = newChunks[c] \cup {row}
        /\ UNCHANGED <<newDocs, newJobs, stage, request, document, reply>>
    BY <1>7 DEF IInv, Functions
  <2>4. Keys'
    BY <1>1, <1>7, InsertedKeys DEF committed
  <2> HIDE DEF row, next
  <2>5. Sound(c)' /\ Answered(c)'
    BY <1>5, <2>1, <2>2, <2>3
  <2>6. OneWriter' /\ Inserted(c)'
    BY <1>7 DEF IInv, OneWriter, Inserted, committed
  <2> QED
    BY <2>1, <2>4, <2>5, <2>6, OneClient
<1>8. QED
  BY <1>4, <1>6, <1>7 DEF AddChunk
\* Matching keeps it: nothing is queued that is not listed.
LEMMA MatchSavedStep ==
    ASSUME IInv, NEW c \in Clients, MatchSaved(c)
    PROVE  IInv'
<1>1. CASE RollBack(c, "not_found")
  BY <1>1, RollBackStep DEF Replies
<1>2. CASE /\ \A i \in DOMAIN Wanted(c) : \E row \in saved[c] : row.hash = Wanted(c)[i].hash
           /\ todo' = [todo EXCEPT ![c] = DOMAIN Wanted(c)]
           /\ stage' = [stage EXCEPT ![c] = "enqueuing"]
           /\ UNCHANGED <<committed, own, request, version, document, saved, reply, requests>>
  <2>1. OnlyBy(c)
    BY <1>2 DEF IInv, Functions, Tables, OnlyBy, Same, own
  <2>2. /\ stage[c] = "adding" /\ stage'[c] = "enqueuing" /\ todo'[c] = DOMAIN Wanted(c)
        /\ UNCHANGED <<committed, own, request, document, saved, reply>>
    BY <1>2 DEF IInv, Functions, MatchSaved
  <2>3. /\ AsksFor(c) /\ OnDocument(c) /\ Storing(c) /\ newJobs[c] = {} /\ reply[c] \in Replies
    BY <2>2 DEF IInv, Sound
  <2>4. Wanted(c)' = Wanted(c)
    BY <2>2 DEF Wanted
  <2>5. Storing(c)' /\ Queueing(c)'
    BY <1>2, <2>2, <2>3, <2>4 DEF Storing, Queueing, ChunksOf, committed, own
  <2>6. OnDocument(c)' /\ AsksFor(c)'
    BY <2>2, <2>3 DEF OnDocument, AsksFor, committed, own
  <2>7. Sound(c)'
    BY <2>2, <2>3, <2>5, <2>6 DEF Sound, Stages
  <2>8. Answered(c)'
    BY <2>2, NothingCommitted, AnsweredIsKept DEF IInv
  <2> QED
    BY <2>1, <2>2, <2>7, <2>8, NothingInserted DEF own
<1>3. QED
  BY <1>1, <1>2 DEF MatchSaved

\* Queuing a job keeps it: what is through has its job.
LEMMA EnqueueJobStep ==
    ASSUME IInv, NEW c \in Clients, EnqueueJob(c)
    PROVE  IInv'
<1>1. OnlyBy(c)
  BY DEF IInv, Functions, Tables, EnqueueJob, OnlyBy, Same
<1>2. /\ stage[c] = "enqueuing" /\ UNCHANGED <<committed, newDocs, newChunks, request, document,
                                               saved, reply>>
  BY DEF EnqueueJob
<1>3. AsksFor(c) /\ OnDocument(c) /\ Storing(c) /\ Queueing(c) /\ reply[c] \in Replies
  BY <1>2 DEF IInv, Sound
<1>4. Wanted(c)' = Wanted(c) /\ OnDocument(c)' /\ AsksFor(c)'
  BY <1>2, <1>3 DEF Wanted, OnDocument, AsksFor, committed
<1>5. Answered(c)'
  BY <1>2, NothingCommitted, AnsweredIsKept DEF IInv
<1>6. CASE todo[c] = {}
  <2>1. stage'[c] = "committing" /\ UNCHANGED <<newJobs, todo>>
    BY <1>6 DEF EnqueueJob, IInv, Functions
  <2>2. Storing(c)' /\ Queueing(c)'
    BY <1>2, <1>3, <1>4, <2>1 DEF Storing, Queueing, ChunksOf, committed
  <2>3. request'[c].kind # "snapshot" /\ todo'[c] = {}
    BY <1>2, <1>3, <1>6, <2>1 DEF Storing
  <2>4. Sound(c)'
    BY <1>2, <1>3, <1>4, <2>1, <2>2, <2>3 DEF Sound, Stages
  <2> QED
    BY <1>1, <1>2, <1>5, <2>4, NothingInserted
<1>7. CASE todo[c] # {}
  <2>1. PICK i \in DOMAIN Wanted(c) : i = Least(todo[c]) /\ NextChunk(c) = Wanted(c)[i]
    BY <1>3, <1>7, NextIsWanted DEF Storing
  <2>2. PICK row \in saved[c] : row = Listed(c) /\ row.hash = Wanted(c)[i].hash
    <3>1. \E row \in saved[c] : row.hash = NextChunk(c).hash
      BY <1>3, <2>1 DEF Queueing
    <3>2. Listed(c) \in saved[c] /\ Listed(c).hash = NextChunk(c).hash
      BY <3>1 DEF Listed
    <3> QED
      BY <2>1, <3>2
  <2>3. /\ newJobs'[c] = IF row.id \in jobs THEN newJobs[c] ELSE newJobs[c] \cup {row.id}
        /\ todo'[c] = todo[c] \ {i} /\ stage'[c] = stage[c]
    BY <1>7, <2>1, <2>2 DEF EnqueueJob, Rest, IInv, Functions
  <2>4. Storing(c)'
    BY <1>2, <1>3, <1>4, <2>3 DEF Storing, ChunksOf, committed
  <2>5. Queueing(c)'
    <3>1. newJobs'[c] \subseteq IdsOf(saved[c])
      BY <1>3, <2>2, <2>3 DEF Queueing, IdsOf
    <3>2. ASSUME NEW j \in DOMAIN Wanted(c)
          PROVE  \E r \in saved[c] :
                    r.hash = Wanted(c)[j].hash /\ (j \in todo'[c] \/ r.id \in jobs \cup newJobs'[c])
      <4>1. CASE j = i
        BY <2>2, <2>3, <4>1
      <4>2. CASE j # i
        BY <1>3, <2>3, <4>2 DEF Queueing
      <4> QED
        BY <4>1, <4>2
    <3> QED
      BY <1>2, <1>4, <3>1, <3>2 DEF Queueing, committed
  <2>6. Sound(c)'
    BY <1>2, <1>3, <1>4, <2>3, <2>4, <2>5 DEF Sound, Stages
  <2> QED
    BY <1>1, <1>2, <1>5, <2>6, NothingInserted
<1>8. QED
  BY <1>6, <1>7

-----------------------------------------------------------------------------
(* Commit                                                                  *)

\* What a transaction commits has all it needs with it.
LEMMA ReadyToCommit ==
    ASSUME IInv, NEW c \in Clients, stage[c] = "committing"
    PROVE  /\ AsksFor(c) /\ OnDocument(c) /\ newChunks[c] \subseteq saved[c]
           /\ \A row \in newChunks[c] : row.doc = document[c] /\ row.id \in jobs \cup newJobs[c]
           /\ \A row \in saved[c] : row \in chunks \cup newChunks[c] /\ row.doc = document[c]
           /\ newJobs[c] \subseteq IdsOf(saved[c])
<1>1. AsksFor(c) /\ OnDocument(c)
  BY DEF IInv, Sound
<1>2. CASE request[c].kind = "snapshot"
  BY <1>1, <1>2 DEF IInv, Sound, NothingStored
<1>3. CASE request[c].kind # "snapshot"
  <2>1. Storing(c) /\ Queueing(c) /\ todo[c] = {}
    BY <1>3 DEF IInv, Sound
  <2>2. \A row \in saved[c] : row \in chunks \cup newChunks[c] /\ row.doc = document[c]
    BY <2>1 DEF Storing, ChunksOf
  <2>3. ASSUME NEW row \in newChunks[c]
        PROVE  row.doc = document[c] /\ row.id \in jobs \cup newJobs[c]
    <3>1. row \in saved[c] /\ row.doc = document[c]
      BY <2>1, <2>2 DEF Storing
    <3>2. PICK i \in DOMAIN Wanted(c) : row.hash = Wanted(c)[i].hash
      BY <2>1, <3>1 DEF Storing
    <3>3. PICK r \in saved[c] : r.hash = Wanted(c)[i].hash /\ r.id \in jobs \cup newJobs[c]
      BY <2>1 DEF Queueing
    <3>4. SameKey(row, r)
      BY <2>2, <3>1, <3>2, <3>3 DEF SameKey
    <3>5. row = r
      BY <2>2, <3>4 DEF IInv, Keys
    <3> QED
      BY <3>1, <3>3, <3>5
  <2> QED
    BY <1>1, <2>1, <2>2, <2>3 DEF Storing, Queueing
<1>4. QED
  BY <1>2, <1>3

\* One version more, or none.
LEMMA CommitVersions ==
    ASSUME IInv, NEW c \in Clients, documents' = documents \cup newDocs[c]
    PROVE  /\ IsFiniteSet(documents') /\ documents' \subseteq DocRows /\ OneOfEach(documents')
           /\ Cardinality(documents) \in Nat /\ Cardinality(documents') \in Nat
           /\ Cardinality(documents) <= Cardinality(documents')
<1>1. Cardinality(documents) \in Nat /\ Inserted(c) /\ Tables
  BY LargestVersion DEF IInv
<1>2. CASE newDocs[c] = {}
  BY <1>1, <1>2 DEF Tables
<1>3. CASE newDocs[c] # {}
  <2>1. PICK row \in DocRows :
           /\ newDocs[c] = {row} /\ row.version = Cardinality(documents) + 1
           /\ \A doc \in documents : doc.id # row.id /\ doc.hash # row.hash
    BY <1>1, <1>3 DEF Inserted
  <2>2. row \notin documents /\ documents' = documents \cup {row}
    BY <2>1
  <2>3. IsFiniteSet(documents') /\ Cardinality(documents') = Cardinality(documents) + 1
    BY <1>1, <2>2, FS_AddElement DEF Tables
  <2>4. {doc.version : doc \in documents'} = 1..Cardinality(documents')
    <3>1. {doc.version : doc \in documents'} = {doc.version : doc \in documents} \cup {row.version}
      BY <2>2
    <3>2. {doc.version : doc \in documents} = 1..Cardinality(documents)
      BY <1>1 DEF Tables, OneOfEach
    <3>3. \A n \in Nat : (1..n) \cup {n + 1} = 1..(n + 1)
      OBVIOUS
    <3> QED
      BY <1>1, <2>1, <2>3, <3>1, <3>2, <3>3
  <2>5. OneOfEach(documents')
    BY <1>1, <2>1, <2>2, <2>4 DEF Tables, OneOfEach
  <2> QED
    BY <1>1, <2>2, <2>3, <2>5 DEF Tables
<1>4. QED
  BY <1>2, <1>3

\* A commit keeps the invariant, of the others too: nobody else holds its keys.
LEMMA CommitStep ==
    ASSUME IInv, NEW c \in Clients, CommitRequest(c)
    PROVE  IInv'
<1>1. /\ stage[c] = "committing" /\ documents' = documents \cup newDocs[c]
      /\ chunks' = chunks \cup newChunks[c] /\ jobs' = jobs \cup newJobs[c]
      /\ request' = request /\ requests' = requests
  BY DEF CommitRequest, EndRequest
<1>2. /\ newDocs'[c] = {} /\ newChunks'[c] = {} /\ newJobs'[c] = {} /\ saved'[c] = {}
      /\ stage'[c] = "idle" /\ reply'[c] = "ok"
      /\ \A d \in Clients \ {c} : Same(d)
      /\ Functions'
  BY DEF IInv, Functions, CommitRequest, EndRequest, Same
<1>3. Grown
  BY <1>1, CommitVersions DEF Grown
<1>4. Tables'
  <2>1. \A row \in chunks' : row.doc \in IdsOf(documents')
    <3>1. ASSUME NEW row \in newChunks[c]
          PROVE  row.doc \in IdsOf(documents')
      <4>1. row.doc = document[c] /\ OnDocument(c)
        BY <1>1, ReadyToCommit
      <4> QED
        BY <1>1, <4>1 DEF OnDocument, IdsOf
    <3> QED
      BY <1>1, <3>1 DEF IInv, Tables, IdsOf
  <2>2. IdsOf(chunks' \ LegacyChunks) \subseteq jobs' /\ jobs' \subseteq IdsOf(chunks')
    BY <1>1, ReadyToCommit DEF IInv, Tables, IdsOf
  <2> QED
    BY <1>1, <2>1, <2>2, CommitVersions DEF IInv, Tables
<1>5. OneWriter'
  BY <1>2 DEF IInv, OneWriter, Same
<1>6. Keys'
  <2>1. \A d \in Clients : newChunks'[d] \subseteq newChunks[d]
    BY <1>2 DEF Same
  <2>2. \A a, b : SameKey(a, b) <=> SameKey(b, a)
    BY DEF SameKey
  <2>3. \A a, b \in chunks' : SameKey(a, b) => a = b
    BY <1>1, <2>2 DEF IInv, Keys
  <2> QED
    BY <1>1, <2>1, <2>3 DEF IInv, Keys
<1>7. Sound(c)' /\ Inserted(c)'
  BY <1>2 DEF Sound, NothingStored, Inserted, Stages, Replies
<1>8. ASSUME NEW d \in Clients \ {c}
      PROVE  Sound(d)' /\ Inserted(d)' /\ Answered(d)'
  <2>1. Same(d)
    BY <1>2
  <2>2. Sound(d)' /\ Answered(d)'
    BY <1>3, <2>1, SoundIsKept, AnsweredIsKept DEF IInv, Same
  <2>3. newDocs[d] # {} => documents' = documents
    BY <1>1 DEF IInv, OneWriter
  <2>4. Inserted(d)'
    BY <2>1, <2>3 DEF IInv, Inserted, Same
  <2> QED
    BY <2>2, <2>4
<1>9. Answered(c)'
  <2>1. AsksFor(c) /\ OnDocument(c)
    BY <1>1, ReadyToCommit
  <2>2. PICK doc \in documents' :
           /\ doc.id = document[c]
           /\ IF request[c].kind = "chunks" THEN doc.id = request[c].id
                                            ELSE doc.hash = request[c].content
    BY <1>1, <2>1 DEF OnDocument, IdsOf
  <2>3. ASSUME request[c].kind # "snapshot", NEW i \in DOMAIN Wanted(c)
        PROVE  \E row \in chunks' :
                  row.doc = document[c] /\ row.hash = Wanted(c)[i].hash /\ row.id \in jobs'
    <3>1. Queueing(c) /\ todo[c] = {}
      BY <1>1, <2>3 DEF IInv, Sound
    <3> QED
      BY <1>1, <3>1, ReadyToCommit DEF Queueing
  <2> QED
    BY <1>1, <2>2, <2>3 DEF Answered, Wanted
<1>10. QED
  BY <1>2, <1>4, <1>5, <1>6, <1>7, <1>8, <1>9 DEF IInv

-----------------------------------------------------------------------------
(* Theorems                                                                *)

\* Every step keeps the invariant.
LEMMA StepSound ==
    ASSUME IInv, WritesNext
    PROVE  IInv'
<1>1. PICK c \in Clients : Advance(c) \/ Send(c) \/ Interrupt(c)
  BY DEF WritesNext
<1>2. BreakDeadlock(c) \/ Interrupt(c) => IInv'
  BY RollBackStep DEF BreakDeadlock, Interrupt, Replies
<1>3. QED
  BY <1>1, <1>2, SendStep, FindSnapshotStep, InsertSnapshotStep, ReadChunksStep, AddChunkStep,
     MatchSavedStep, EnqueueJobStep, CommitStep DEF Advance

\* So does a step that changes nothing.
LEMMA StutterSound ==
    ASSUME IInv, UNCHANGED writeVars
    PROVE  IInv'
<1>1. UNCHANGED <<documents, chunks, jobs, newDocs, newChunks, newJobs, stage, request, version,
                  document, todo, saved, reply, requests>>
  BY DEF writeVars, committed, own, local
<1>2. Functions' /\ Tables' /\ OneWriter' /\ Keys'
  BY <1>1 DEF IInv, Functions, Tables, OneWriter, Keys
<1>3. \A c \in Clients : Sound(c)' /\ Answered(c)' /\ Inserted(c)'
  <2> SUFFICES ASSUME NEW c \in Clients
               PROVE  Sound(c)' /\ Answered(c)' /\ Inserted(c)'
    OBVIOUS
  <2>1. Same(c)
    BY <1>1 DEF Same
  <2>2. Grown
    BY <1>1, NothingCommitted DEF committed
  <2>3. Sound(c)' /\ Answered(c)'
    BY <2>1, <2>2, SoundIsKept, AnsweredIsKept DEF IInv, Same
  <2>4. Inserted(c)'
    BY <1>1 DEF IInv, Inserted
  <2> QED
    BY <2>3, <2>4
<1>4. QED
  BY <1>2, <1>3 DEF IInv

\* Every reachable state satisfies the inductive invariant: each transaction knows
\* its snapshot, lists only what is stored, and holds its keys and its version
\* against all others.
THEOREM WritesAreSound == WritesSpec => []IInv
BY InitSound, StepSound, StutterSound, PTL DEF WritesSpec

\* Versions are 1 to n, one for each content; chunks keep their keys and have their
\* document and their job; and what is answered with success is stored: however
\* many clients write at once, wait for each other or fail.
THEOREM DocumentsStayConsistent == WritesSpec => []DocumentsAreConsistent
<1>1. IInv => DocumentsAreConsistent
  <2> SUFFICES ASSUME IInv
               PROVE  DocumentsAreConsistent
    OBVIOUS
  <2>1. ASSUME NEW c \in Clients
        PROVE  /\ newDocs[c] \subseteq DocRows /\ stage[c] \in Stages /\ reply[c] \in Replies
               /\ IdsOf(newDocs[c]) \subseteq {document[c]} /\ newChunks[c] \subseteq saved[c]
    <3>1. newDocs[c] \subseteq DocRows
      BY DEF IInv, Inserted
    <3>2. stage[c] \in Stages /\ reply[c] \in Replies
      BY DEF IInv, Sound
    <3>3. IdsOf(newDocs[c]) \subseteq {document[c]}
      BY DEF IInv, Sound, Stages, OnDocument, IdsOf
    <3>4. newChunks[c] \subseteq saved[c]
      BY DEF IInv, Sound, Stages, NothingStored, Storing
    <3> QED
      BY <3>1, <3>2, <3>3, <3>4
  <2>2. RowsAreTyped
    BY <2>1 DEF RowsAreTyped, IInv, Tables
  <2>3. VersionsAreDense /\ ChunksAreConsistent
    BY DEF VersionsAreDense, ChunksAreConsistent, IInv, Tables, Keys
  <2>4. AnsweredMeansStored
    BY DEF AnsweredMeansStored, IInv, Answered
  <2> QED
    BY <2>2, <2>3, <2>4 DEF DocumentsAreConsistent
<1>2. QED
  BY <1>1, WritesAreSound, PTL

-----------------------------------------------------------------------------
(* The history of snapshots                                                *)

HistoryOf(docs) == [v \in 1..Cardinality(docs) |-> (CHOOSE row \in docs : row.version = v).hash]

QueuedNow ==
    [content \in Contents |->
        {row.hash : row \in {chunk \in chunks :
            chunk.id \in jobs /\ ById(chunk.doc).hash = content}}]

\* As many versions as snapshots: no two have the same.
LEMMA VersionsAreUnique ==
    ASSUME NEW docs, IsFiniteSet(docs), OneOfEach(docs),
           NEW a \in docs, NEW b \in docs, a.version = b.version
    PROVE  a = b
<1> SUFFICES ASSUME a # b
             PROVE  FALSE
  OBVIOUS
<1> DEFINE n == Cardinality(docs)
           others == docs \ {a}
           f == [row \in others |-> row.version]
<1>1. n \in Nat /\ {row.version : row \in docs} = 1..n
  BY FS_CardinalityType DEF OneOfEach
<1>2. IsFiniteSet(others) /\ Cardinality(others) = n - 1
  BY FS_RemoveElement
<1>3. f \in Surjection(others, 1..n)
  <2>1. \A row \in others : f[row] \in 1..n
    BY <1>1
  <2>2. ASSUME NEW v \in 1..n
        PROVE  \E row \in others : f[row] = v
    <3>1. PICK row \in docs : row.version = v
      BY <1>1
    <3>2. CASE row = a
      <4>1. b \in others /\ f[b] = v
        BY <3>1, <3>2
      <4> QED
        BY <4>1
    <3>3. CASE row # a
      <4>1. row \in others /\ f[row] = v
        BY <3>1, <3>3
      <4> QED
        BY <4>1
    <3> QED
      BY <3>2, <3>3
  <2>3. f \in [others -> 1..n]
    BY <2>1
  <2> QED
    BY <2>2, <2>3 DEF Surjection
<1> HIDE DEF f, others
<1>4. Cardinality(1..n) <= n - 1
  BY <1>2, <1>3, FS_Surjection
<1>5. Cardinality(1..n) = n
  BY <1>1, FS_Interval
<1>6. QED
  BY <1>1, <1>4, <1>5

\* The history lists the content of each snapshot at its version, and nothing else.
LEMMA HistoryLists ==
    ASSUME NEW docs, IsFiniteSet(docs), docs \subseteq DocRows, OneOfEach(docs)
    PROVE  /\ HistoryOf(docs) \in Seq(Contents) /\ Len(HistoryOf(docs)) = Cardinality(docs)
           /\ \A row \in docs : row.version \in 1..Cardinality(docs)
                                 /\ HistoryOf(docs)[row.version] = row.hash
           /\ \A v \in 1..Cardinality(docs) :
                 \E row \in docs : row.version = v /\ HistoryOf(docs)[v] = row.hash
<1> DEFINE n == Cardinality(docs)
           h == HistoryOf(docs)
           at(v) == CHOOSE row \in docs : row.version = v
<1>1. n \in Nat /\ {row.version : row \in docs} = 1..n
  BY FS_CardinalityType DEF OneOfEach
<1>2. ASSUME NEW v \in 1..n
      PROVE  at(v) \in docs /\ at(v).version = v /\ at(v).hash \in Contents
  <2>1. \E row \in docs : row.version = v
    BY <1>1
  <2>2. at(v) \in docs /\ at(v).version = v
    BY <2>1
  <2> QED
    BY <2>2 DEF DocRows
<1>3. h = [v \in 1..n |-> at(v).hash]
  BY DEF HistoryOf
<1> HIDE DEF at, h
<1>4. h \in [1..n -> Contents]
  BY <1>2, <1>3
<1>5. h \in Seq(Contents) /\ Len(h) = n
  BY <1>1, <1>4
<1>6. ASSUME NEW row \in docs
      PROVE  row.version \in 1..n /\ h[row.version] = row.hash
  <2>1. row.version \in 1..n
    BY <1>1
  <2>2. at(row.version) = row
    BY <1>2, <2>1, VersionsAreUnique
  <2> QED
    BY <1>3, <2>1, <2>2
<1>7. \A v \in 1..n : \E row \in docs : row.version = v /\ h[v] = row.hash
  BY <1>2, <1>3
<1>8. QED
  BY <1>5, <1>6, <1>7 DEF h

\* A sequence that is one longer and agrees before its end is an Append.
LEMMA OneMore ==
    ASSUME NEW S, NEW h \in Seq(S), NEW x \in S, NEW g \in Seq(S), NEW m \in Nat,
           Len(h) = m, Len(g) = m + 1, g[m + 1] = x, \A v \in 1..m : g[v] = h[v]
    PROVE  g = Append(h, x)
<1>1. Append(h, x) \in Seq(S) /\ Len(Append(h, x)) = m + 1
  BY AppendProperties
<1>2. ASSUME NEW v \in 1..(m + 1)
      PROVE  g[v] = Append(h, x)[v]
  <2>1. v \in 1..m \/ v = m + 1
    OBVIOUS
  <2>2. CASE v \in 1..m
    BY <2>2, AppendProperties
  <2>3. CASE v = m + 1
    BY <2>3, AppendProperties
  <2> QED
    BY <2>1, <2>2, <2>3
<1>3. Len(g) = Len(Append(h, x))
  BY <1>1
<1> QED
  BY <1>1, <1>2, <1>3, SeqEqual

\* A commit appends what the history does not have yet, and nothing else.
LEMMA HistoryGrows ==
    ASSUME IInv, NEW c \in Clients, CommitRequest(c),
           NEW content, \E row \in documents' : row.id = document[c] /\ row.hash = content
    PROVE  IF content \in {HistoryOf(documents)[v] : v \in DOMAIN HistoryOf(documents)}
           THEN HistoryOf(documents') = HistoryOf(documents)
           ELSE HistoryOf(documents') = Append(HistoryOf(documents), content)
<1> DEFINE n == Cardinality(documents)
           h == HistoryOf(documents)
           g == HistoryOf(documents')
<1>1. /\ stage[c] = "committing" /\ documents' = documents \cup newDocs[c]
      /\ Tables /\ Inserted(c) /\ OnDocument(c)
  BY ReadyToCommit DEF CommitRequest, IInv
<1>2. /\ IsFiniteSet(documents') /\ documents' \subseteq DocRows /\ OneOfEach(documents')
      /\ n \in Nat
  BY <1>1, CommitVersions
<1>3. /\ h \in Seq(Contents) /\ Len(h) = n
      /\ \A row \in documents : row.version \in 1..n /\ h[row.version] = row.hash
      /\ \A v \in 1..n : \E row \in documents : row.version = v /\ h[v] = row.hash
  BY <1>1, HistoryLists DEF Tables
<1>4. /\ g \in Seq(Contents) /\ Len(g) = Cardinality(documents')
      /\ \A row \in documents' : row.version \in 1..Cardinality(documents')
                                 /\ g[row.version] = row.hash
  BY <1>2, HistoryLists
<1> HIDE DEF h, g
<1>5. CASE newDocs[c] = {}
  <2>1. documents' = documents
    BY <1>1, <1>5
  <2>2. g = h
    BY <2>1 DEF g, h
  <2>3. PICK row \in documents : row.hash = content
    BY <2>1
  <2>4. content \in {h[v] : v \in DOMAIN h}
    BY <1>2, <1>3, <2>3
  <2> QED
    BY <2>2, <2>4 DEF g, h
<1>6. CASE newDocs[c] # {}
  <2>1. PICK row \in DocRows :
           /\ newDocs[c] = {row} /\ row.version = n + 1
           /\ \A doc \in documents : doc.id # row.id /\ doc.hash # row.hash
    BY <1>1, <1>6 DEF Inserted
  <2>2. row.id = document[c]
    BY <1>1, <2>1 DEF OnDocument, IdsOf
  <2>3. row.hash = content
    BY <1>1, <2>1, <2>2
  <2>4. Cardinality(documents') = n + 1
    <3>1. row \notin documents
      BY <2>1
    <3>2. documents' = documents \cup {row}
      BY <1>1, <2>1
    <3>3. IsFiniteSet(documents)
      BY <1>1 DEF Tables
    <3>4. Cardinality(documents \cup {row}) = n + 1
      BY <3>1, <3>3, FS_AddElement
    <3> QED
      BY <3>2, <3>4
  <2>5. content \notin {h[v] : v \in DOMAIN h}
    <3>1. \A v \in 1..n : h[v] # content
      BY <1>3, <2>1, <2>3
    <3> QED
      BY <1>2, <1>3, <3>1
  <2>6. g[n + 1] = content
    BY <1>1, <1>4, <2>1, <2>3
  <2>7. ASSUME NEW v \in 1..n
        PROVE  g[v] = h[v]
    <3>1. PICK old \in documents : old.version = v /\ h[v] = old.hash
      BY <1>3
    <3>2. old \in documents'
      BY <1>1
    <3>3. g[old.version] = old.hash
      BY <1>4, <3>2
    <3> QED
      BY <3>1, <3>3
  <2>8. g = Append(h, content)
    <3>1. content \in Contents
      BY <2>3 DEF DocRows
    <3>2. PICK m \in Nat : m = n
      BY <1>2
    <3>3. h \in Seq(Contents) /\ Len(h) = m
      BY <1>3, <3>2
    <3>4. g \in Seq(Contents) /\ Len(g) = m + 1
      BY <1>4, <2>4, <3>2
    <3>5. g[m + 1] = content /\ \A v \in 1..m : g[v] = h[v]
      BY <2>6, <2>7, <3>2
    <3> QED
      BY <3>1, <3>3, <3>4, <3>5, OneMore
  <2> QED
    BY <2>5, <2>8 DEF g, h
<1>7. QED
  BY <1>5, <1>6

\* What it queues belongs to the snapshot it works on.
LEMMA QueueGrows ==
    ASSUME IInv, NEW c \in Clients, CommitRequest(c),
           NEW doc \in documents', doc.id = document[c]
    PROVE  QueuedNow' = [QueuedNow EXCEPT ![doc.hash] = @ \cup
               IF request[c].kind = "snapshot" THEN {}
               ELSE {Wanted(c)[i].hash : i \in DOMAIN Wanted(c)}]
<1> DEFINE asked == IF request[c].kind = "snapshot" THEN {}
                    ELSE {Wanted(c)[i].hash : i \in DOMAIN Wanted(c)}
<1>1. /\ stage[c] = "committing" /\ documents' = documents \cup newDocs[c]
      /\ chunks' = chunks \cup newChunks[c] /\ jobs' = jobs \cup newJobs[c] /\ Tables /\ Keys
  BY DEF CommitRequest, IInv
<1>2. documents' \subseteq DocRows /\ OneOfEach(documents') /\ OneOfEach(documents)
  BY <1>1, CommitVersions DEF Tables
<1>3. /\ \A row \in saved[c] : row \in chunks' /\ row.doc = document[c]
      /\ newChunks[c] \subseteq saved[c] /\ newJobs[c] \subseteq IdsOf(saved[c])
  BY <1>1, ReadyToCommit
<1>4. \A row \in documents' : ById(row.id)' = row
  BY <1>2 DEF ById, OneOfEach
<1>5. \A row \in documents : ById(row.id) = row
  BY <1>2 DEF ById, OneOfEach
<1>6. ASSUME NEW chunk \in chunks
      PROVE  ById(chunk.doc)' = ById(chunk.doc)
  <2>1. PICK row \in documents : row.id = chunk.doc
    BY <1>1 DEF Tables, IdsOf
  <2> QED
    BY <1>1, <1>4, <1>5, <2>1
<1>7. ASSUME NEW chunk \in saved[c]
      PROVE  ById(chunk.doc)' = doc
  BY <1>3, <1>4
<1>8. ASSUME NEW row \in saved[c]
      PROVE  row.hash \in asked
  BY <1>1 DEF IInv, Sound, NothingStored, Storing
<1>9. ASSUME NEW hash \in asked
      PROVE  \E row \in saved[c] : row.hash = hash /\ row.id \in jobs'
  BY <1>1 DEF IInv, Sound, Queueing
<1>10. ASSUME NEW chunk \in chunks', chunk.id \in jobs', chunk \notin chunks \/ chunk.id \notin jobs
       PROVE  chunk \in saved[c]
  <2>1. CASE chunk \notin chunks
    BY <1>1, <1>3, <2>1
  <2>2. CASE chunk \in chunks
    <3>1. PICK row \in saved[c] : row.id = chunk.id
      BY <1>1, <1>3, <1>10, <2>2 DEF IdsOf
    <3>2. row \in chunks \cup newChunks[c] /\ SameKey(row, chunk) /\ SameKey(chunk, row)
      BY <1>1, <1>3, <3>1 DEF SameKey
    <3>3. row = chunk
      BY <1>1, <2>2, <3>2 DEF Keys
    <3> QED
      BY <3>1, <3>3
  <2> QED
    BY <2>1, <2>2
<1> DEFINE Old(content) == {row.hash : row \in {chunk \in chunks :
                               chunk.id \in jobs /\ ById(chunk.doc).hash = content}}
           New(content) == {row.hash : row \in {chunk \in chunks' :
                               chunk.id \in jobs' /\ ById(chunk.doc)'.hash = content}}
<1> HIDE DEF asked
<1>11. ASSUME NEW content
       PROVE  New(content) = Old(content) \cup IF content = doc.hash THEN asked ELSE {}
  <2>1. ASSUME NEW chunk \in chunks', chunk.id \in jobs', ById(chunk.doc)'.hash = content
        PROVE  chunk.hash \in Old(content) \cup IF content = doc.hash THEN asked ELSE {}
    <3>1. CASE chunk \in chunks /\ chunk.id \in jobs
      BY <1>6, <2>1, <3>1
    <3>2. CASE chunk \notin chunks \/ chunk.id \notin jobs
      BY <1>7, <1>8, <1>10, <2>1, <3>2
    <3> QED
      BY <3>1, <3>2
  <2>2. ASSUME NEW chunk \in chunks, chunk.id \in jobs, ById(chunk.doc).hash = content
        PROVE  chunk.hash \in New(content)
    BY <1>1, <1>6, <2>2
  <2>3. ASSUME content = doc.hash, NEW hash \in asked
        PROVE  hash \in New(content)
    <3>1. PICK row \in saved[c] : row.hash = hash /\ row.id \in jobs'
      BY <1>9
    <3> QED
      BY <1>3, <1>7, <2>3, <3>1
  <2> QED
    BY <2>1, <2>2, <2>3
<1>12. QueuedNow = [content \in Contents |-> Old(content)]
  BY DEF QueuedNow
<1>13. QueuedNow' = [content \in Contents |-> New(content)]
  BY DEF QueuedNow
<1> HIDE DEF Old, New
<1>14. doc.hash \in Contents
  BY <1>2 DEF DocRows
<1>15. QueuedNow' = [QueuedNow EXCEPT ![doc.hash] = @ \cup asked]
  BY <1>11, <1>12, <1>13, <1>14
<1>16. QED
  BY <1>15 DEF asked

\* A commit is one request of the history, with all of its chunks and jobs.
LEMMA CommitAppends ==
    ASSUME IInv, NEW c \in Clients, CommitRequest(c)
    PROVE  History!Next
<1>1. /\ stage[c] = "committing" /\ documents' = documents \cup newDocs[c]
      /\ Tables /\ AsksFor(c) /\ OnDocument(c)
  BY ReadyToCommit DEF CommitRequest, IInv, Sound
<1>2. documents' \subseteq DocRows
  BY <1>1, CommitVersions
<1>3. PICK doc \in documents' :
         /\ doc.id = document[c]
         /\ request[c].kind # "chunks" => doc.hash = request[c].content
         /\ request[c].kind = "chunks" => doc \in documents /\ documents' = documents
  BY <1>1 DEF OnDocument, IdsOf
<1>4. doc.hash \in Contents
  BY <1>2 DEF DocRows
<1> DEFINE h == HistoryOf(documents)
           asked == IF request[c].kind = "snapshot" THEN {}
                    ELSE {Wanted(c)[i].hash : i \in DOMAIN Wanted(c)}
           elements == {h[v] : v \in DOMAIN h}
<1>5. HistoryOf(documents') = IF doc.hash \in elements THEN h ELSE Append(h, doc.hash)
  BY <1>3, HistoryGrows
<1>6. QueuedNow' = [QueuedNow EXCEPT ![doc.hash] = @ \cup asked]
  BY <1>3, QueueGrows
<1>7. CASE request[c].kind = "snapshot"
  <2>1. QueuedNow' = QueuedNow
    BY <1>6, <1>7 DEF QueuedNow
  <2>2. History!SaveSnapshot(doc.hash)
    BY <1>5, <2>1 DEF History!SaveSnapshot, History!Extended, History!Elements, HistoryOf,
       QueuedNow
  <2> QED
    BY <1>4, <2>2 DEF History!Next
<1>8. CASE request[c].kind = "chunked"
  <2>1. Wanted(c) = Generated(document[c], doc.hash)
    BY <1>3, <1>8 DEF Wanted
  <2>2. asked = {Split[doc.hash][i] : i \in DOMAIN Split[doc.hash]}
    BY <1>8, <2>1 DEF Generated
  <2>3. History!SaveChunkedSnapshot(doc.hash)
    BY <1>5, <1>6, <2>2 DEF History!SaveChunkedSnapshot, History!Extended, History!Elements,
       HistoryOf, QueuedNow
  <2> QED
    BY <1>4, <2>3 DEF History!Next
<1>9. CASE request[c].kind = "chunks"
  <2>1. request[c].batch \in Batches /\ Wanted(c) = request[c].batch
    BY <1>1, <1>9 DEF AsksFor, Wanted
  <2>2. asked \in SUBSET UNION {{batch[i].hash : i \in DOMAIN batch} : batch \in Batches}
    BY <1>9, <2>1
  <2>3. HistoryOf(documents') = h
    BY <1>3, <1>9
  <2>4. doc.hash \in elements
    <3>1. /\ h \in Seq(Contents) /\ Len(h) = Cardinality(documents)
          /\ doc.version \in 1..Cardinality(documents) /\ h[doc.version] = doc.hash
      BY <1>1, <1>3, <1>9, HistoryLists DEF Tables
    <3> QED
      BY <3>1
  <2>5. PICK hashes \in SUBSET UNION {{batch[i].hash : i \in DOMAIN batch} : batch \in Batches} :
           hashes = asked
    BY <2>2
  <2>6. History!SaveChunks(doc.hash, hashes)
    BY <1>6, <2>3, <2>4, <2>5 DEF History!SaveChunks, History!Elements, HistoryOf, QueuedNow
  <2> QED
    BY <1>4, <2>6 DEF History!Next
<1>10. QED
  BY <1>1, <1>7, <1>8, <1>9 DEF AsksFor

\* Nothing but a commit can be seen from outside.
LEMMA StepImplements ==
    ASSUME IInv, WritesNext
    PROVE  History!Next \/ UNCHANGED <<HistoryOf(documents), QueuedNow>>
<1>1. PICK c \in Clients : Advance(c) \/ Send(c) \/ Interrupt(c)
  BY DEF WritesNext
<1>2. CommitRequest(c) \/ UNCHANGED committed
  BY <1>1 DEF Advance, Send, Interrupt, RollBack, SaveDocumentSnapshot, SaveDocumentChunks, Begin,
     FindSnapshot, InsertSnapshot, ReadChunks, AddChunk, MatchSaved, EnqueueJob, BreakDeadlock
<1>3. CASE UNCHANGED committed
  BY <1>3 DEF committed, HistoryOf, QueuedNow, ById
<1>4. CASE CommitRequest(c)
  BY <1>4, CommitAppends
<1>5. QED
  BY <1>2, <1>3, <1>4

\* Whatever overlaps, waits or fails, requests take effect one at a time, whole or
\* not at all: the store implements the append-only history of DocumentHistory.
THEOREM HistoryIsImplemented == WritesSpec => ImplementsHistory
<1>1. WritesInit => History!Init
  BY DEF WritesInit, History!Init
<1>2. IInv /\ [WritesNext]_writeVars => [History!Next]_<<HistoryOf(documents), QueuedNow>>
  <2>1. UNCHANGED writeVars => UNCHANGED <<HistoryOf(documents), QueuedNow>>
    BY DEF writeVars, committed, HistoryOf, QueuedNow, ById
  <2> QED
    BY <2>1, StepImplements
<1>3. QED
  BY <1>1, <1>2, WritesAreSound, PTL DEF WritesSpec, ImplementsHistory, History!Spec, HistoryOf,
     QueuedNow
=============================================================================
