---------------------------- MODULE ActiveProfile ----------------------------
(***************************************************************************)
(* The active embedding profile: the tables embedding_sets and             *)
(* embedding_active_profiles, and the three ways to ask for the active     *)
(* set.  The first caller on an empty database creates the set and the     *)
(* pointer, under an advisory lock that lasts as long as the caller's      *)
(* transaction.                                                            *)
(*                                                                         *)
(*   resolve  the provider's initialization and every poll of the worker   *)
(*   require  a chunk write, inside the transaction of its request         *)
(*   find     the reconciler, which never creates anything                 *)
(*                                                                         *)
(* embedding_active_profiles has one row at most: its primary key is a     *)
(* scope that a CHECK fixes to 'server_global'.                            *)
(***************************************************************************)
EXTENDS FiniteSets

CONSTANTS
    Callers,     \* concurrent transactions
    Ids,         \* embedding set ids
    None,        \* no id, no pointer, no lock holder
    Databases    \* contents of the two tables before the callers start

Kinds == {"legacy",    \* a set of one project, scope LEGACY
          "fixed",     \* SERVER_GLOBAL, with the profile this server is built for
          "foreign"}   \* SERVER_GLOBAL, with another profile

Rows == [id : Ids, kind : Kinds]

KindOf(S, id) == (CHOOSE row \in S : row.id = id).kind

\* What keys, foreign keys and triggers allow.
Legal(S, pointer) ==
    /\ \A a, b \in S : a.id = b.id \/ (a.kind = "fixed" /\ b.kind = "fixed") => a = b
    /\ pointer # None =>
          \E row \in S : row.id = pointer /\ row.kind # "legacy"

ASSUME DatabasesAssumption ==
    /\ None \notin Ids \cup Callers
    /\ Ids \cap {"none", "failed", "nothing", "interrupted"} = {}
    /\ \A db \in Databases :
          /\ db.sets \subseteq Rows
          /\ db.active \in Ids \cup {None}
          /\ Legal(db.sets, db.active)

VARIABLES
    sets,      \* committed rows of embedding_sets
    active,    \* committed pointer
    lock,      \* holder of pg_advisory_xact_lock
    newSet,    \* rows each open transaction has inserted
    newActive, \* pointer each open transaction has inserted
    pc,        \* next statement of each caller
    call,      \* resolve, require or find
    found,     \* id the caller's transaction is going to use
    answer     \* how the caller's last call ended

vars == <<sets, active, lock, newSet, newActive, pc, call, found, answer>>

Calls == {"resolve", "require", "find"}

Statements == {"idle", "probing", "locking", "deciding", "inserting", "pointing",
               "using"}

Outcomes == Ids \cup {"none", "failed", "nothing", "interrupted"}

Init ==
    /\ \E db \in Databases : sets = db.sets /\ active = db.active
    /\ lock = None
    /\ newSet = [c \in Callers |-> {}]
    /\ newActive = [c \in Callers |-> None]
    /\ pc = [c \in Callers |-> "idle"]
    /\ call = [c \in Callers |-> "resolve"]
    /\ found = [c \in Callers |-> None]
    /\ answer = [c \in Callers |-> "none"]

-----------------------------------------------------------------------------
\* The transaction is over: what it inserted and locked is released.
End(c, outcome) ==
    /\ newSet' = [newSet EXCEPT ![c] = {}]
    /\ newActive' = [newActive EXCEPT ![c] = None]
    /\ lock' = IF lock = c THEN None ELSE lock
    /\ pc' = [pc EXCEPT ![c] = "idle"]
    /\ found' = [found EXCEPT ![c] = None]
    /\ answer' = [answer EXCEPT ![c] = outcome]
    /\ UNCHANGED call

\* Every failure leaves as one exception and rolls back; find answers null.
Fail(c) ==
    /\ End(c, IF call[c] = "find" THEN "nothing" ELSE "failed")
    /\ UNCHANGED <<sets, active>>

Goto(c, statement) ==
    /\ pc' = [pc EXCEPT ![c] = statement]
    /\ UNCHANGED <<sets, active, newSet, newActive, call, answer>>

\* Mutant of Accepts: any existing set will do.
AcceptsAny(c, kind) == kind \in Kinds

\* resolveExistingPointer compares the whole profile, resolvePersistedPointer
\* only the scope.
Accepts(c, kind) ==
    IF call[c] = "require" THEN kind # "legacy" ELSE kind = "fixed"

\* The pointer is there: use it if it is acceptable.
UsePointer(c) ==
    /\ active # None
    /\ IF Accepts(c, KindOf(sets, active))
       THEN /\ Goto(c, "using")
            /\ found' = [found EXCEPT ![c] = active]
            /\ UNCHANGED lock
       ELSE Fail(c)

-----------------------------------------------------------------------------
Ask(c, kind) ==
    /\ pc[c] = "idle"
    /\ pc' = [pc EXCEPT ![c] = IF kind = "resolve" THEN "locking" ELSE "probing"]
    /\ call' = [call EXCEPT ![c] = kind]
    /\ answer' = [answer EXCEPT ![c] = "none"]
    /\ UNCHANGED <<sets, active, lock, newSet, newActive, found>>

\* require and find look first, without the advisory lock.
Probe(c) ==
    /\ pc[c] = "probing"
    /\ \/ UsePointer(c)
       \/ /\ active = None
          /\ call[c] = "require"
          /\ Goto(c, "locking")
          /\ UNCHANGED <<lock, found>>
       \/ /\ active = None
          /\ call[c] = "find"
          /\ Fail(c)

\* Mutant of AcquireBootstrapLock: no lock.
SkipBootstrapLock(c) ==
    /\ pc[c] = "locking"
    /\ Goto(c, "deciding")
    /\ UNCHANGED <<lock, found>>

AcquireBootstrapLock(c) ==
    /\ pc[c] = "locking"
    /\ lock = None
    /\ lock' = c
    /\ Goto(c, "deciding")
    /\ UNCHANGED found

\* Under the lock the pointer is read again.  Without one, a server-global set
\* that exists is a corrupt state, never completed.
Decide(c) ==
    /\ pc[c] = "deciding"
    /\ \/ UsePointer(c)
       \/ /\ active = None
          /\ \E row \in sets : row.kind # "legacy"
          /\ Fail(c)
       \/ /\ active = None
          /\ \A row \in sets : row.kind = "legacy"
          /\ Goto(c, "inserting")
          /\ UNCHANGED <<lock, found>>

\* INSERT INTO embedding_sets, unique on the fingerprint of the profile: waits
\* for another transaction's row, and is refused if that commits.
InsertSet(c) ==
    /\ pc[c] = "inserting"
    /\ \A d \in Callers \ {c} : newSet[d] = {}
    /\ \/ /\ \E row \in sets : row.kind = "fixed"
          /\ Fail(c)
       \/ /\ \A row \in sets : row.kind # "fixed"
          /\ \E id \in Ids \ {row.id : row \in sets} :
                /\ newSet' = [newSet EXCEPT ![c] = {[id |-> id, kind |-> "fixed"]}]
                /\ found' = [found EXCEPT ![c] = id]
          /\ pc' = [pc EXCEPT ![c] = "pointing"]
          /\ UNCHANGED <<sets, active, lock, newActive, call, answer>>

\* INSERT INTO embedding_active_profiles, with its primary key.
InsertPointer(c) ==
    /\ pc[c] = "pointing"
    /\ \A d \in Callers \ {c} : newActive[d] = None
    /\ \/ /\ active # None
          /\ Fail(c)
       \/ /\ active = None
          /\ newActive' = [newActive EXCEPT ![c] = found[c]]
          /\ pc' = [pc EXCEPT ![c] = "using"]
          /\ UNCHANGED <<sets, active, lock, newSet, call, found, answer>>

\* The transaction commits: at once for resolve and find, with the rest of the
\* request for require.
Commit(c) ==
    /\ pc[c] = "using"
    /\ sets' = sets \cup newSet[c]
    /\ active' = IF newActive[c] # None THEN newActive[c] ELSE active
    /\ End(c, found[c])

\* The request fails after all, the process stops, the connection is lost.
Rollback(c) ==
    /\ pc[c] # "idle"
    /\ End(c, "interrupted")
    /\ UNCHANGED <<sets, active>>

-----------------------------------------------------------------------------
Step(c) ==
    \/ Probe(c) \/ AcquireBootstrapLock(c) \/ Decide(c)
    \/ InsertSet(c) \/ InsertPointer(c) \/ Commit(c)

Next == \E c \in Callers :
    \/ \E kind \in Calls : Ask(c, kind)
    \/ Step(c)
    \/ Rollback(c)

Spec == Init /\ [][Next]_vars

\* Statements end, and a waiting caller of the advisory lock gets it in turn.
FairSpec == Spec /\ \A c \in Callers :
    WF_vars(Step(c)) /\ SF_vars(AcquireBootstrapLock(c))

-----------------------------------------------------------------------------
(* Properties.                                                             *)

TypeOK ==
    /\ sets \subseteq Rows
    /\ active \in Ids \cup {None}
    /\ Legal(sets, active)
    /\ lock \in Callers \cup {None}
    /\ newSet \in [Callers -> SUBSET Rows]
    /\ newActive \in [Callers -> Ids \cup {None}]
    /\ pc \in [Callers -> Statements]
    /\ call \in [Callers -> Calls]
    /\ found \in [Callers -> Ids \cup {None}]
    /\ answer \in [Callers -> Outcomes]

\* A database nobody may repair: a pointer to another profile, or a set of the
\* server without its pointer.
Corrupt ==
    IF active = None THEN \E row \in sets : row.kind # "legacy"
                     ELSE KindOf(sets, active) # "fixed"

\* All callers that were answered an id were answered the same one, and it is
\* still the active one: two servers that start at once, and a chunk write
\* beside them, embed into the same set.
Agreement == \A c \in Callers : answer[c] \in Ids => answer[c] = active

\* A caller is refused only by a corrupt database.  On an empty one everybody
\* is served, however many start at once and whoever is rolled back.
RefusedOnlyIfCorrupt ==
    \A c \in Callers : answer[c] = "failed" => Corrupt

\* All callers are served alike: with the one active set, or not at all because
\* the database is corrupt.
CallersAreServedAlike == Agreement /\ RefusedOnlyIfCorrupt

\* A corrupt database is never used by the worker, the provider or the
\* reconciler, and never completed: it fails closed until an operator acts.
CorruptStaysClosed ==
    [][Corrupt => /\ sets' = sets /\ active' = active
                  /\ \A c \in Callers : pc'[c] = "using" => call'[c] = "require"]_vars

\* Every call ends, though the lock is held until the creator's whole request
\* is over.
EveryCallEnds == \A c \in Callers : pc[c] # "idle" ~> pc[c] = "idle"

-----------------------------------------------------------------------------
(* What makes them inductive.                                              *)

\* Whoever decides to create the set, or has created it, holds the lock, and
\* the database still has neither a pointer nor a set of the server.
Creating(c) == pc[c] \in {"inserting", "pointing"} \/ newActive[c] # None

CreatorIsAlone ==
    \A c \in Callers :
        /\ pc[c] = "deciding" => lock = c
        /\ Creating(c) => /\ lock = c
                          /\ active = None
                          /\ \A row \in sets : row.kind = "legacy"

\* The rows of an open transaction follow from its place in the code.
OwnRows(c) ==
    IF pc[c] = "pointing" \/ newActive[c] # None
    THEN /\ found[c] \in Ids
         /\ found[c] \notin {row.id : row \in sets}
         /\ newSet[c] = {[id |-> found[c], kind |-> "fixed"]}
    ELSE newSet[c] = {}

RowsMatchPlace ==
    \A c \in Callers :
        /\ OwnRows(c)
        /\ newActive[c] # None => pc[c] = "using" /\ newActive[c] = found[c]

\* Whoever is going to use an id has created it, or has found it active.
UsersAgree ==
    \A c \in Callers : pc[c] = "using" /\ newActive[c] = None =>
        /\ active # None
        /\ found[c] = active
        /\ call[c] # "require" => KindOf(sets, active) = "fixed"

Inv ==
    /\ TypeOK
    /\ Agreement
    /\ RefusedOnlyIfCorrupt
    /\ CreatorIsAlone
    /\ RowsMatchPlace
    /\ UsersAgree
=============================================================================
