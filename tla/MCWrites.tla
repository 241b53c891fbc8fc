------------------------------- MODULE MCWrites --------------------------------
(***************************************************************************)
(* The active set and the writes of documents.  Each behaviour runs one of *)
(* them, the other stays as it started:                                    *)
(*   "profile"    three transactions that ask for the active set of a      *)
(*                database that is empty, holds sets of projects only, is  *)
(*                ready, has the pointer at another profile, or has a set  *)
(*                of the server without its pointer,                       *)
(*   "documents"  two clients.  The document was captured before the queue *)
(*                existed, with one of its two chunks; explicit batches    *)
(*                overlap it in ids, hashes and order,                     *)
(*   "answers"    the same with one request of each client, or two of one, *)
(*                to check that every request is answered.                 *)
(***************************************************************************)
EXTENDS ActiveProfile, DocumentWrites, Sequences

CONSTANTS Focus,    \* the components to run
          i1, i2    \* embedding sets

VARIABLE focus

SetRow(id, kind) == [id |-> id, kind |-> kind]

Database(S, pointer) == [sets |-> S, active |-> pointer]

DatabasesDef ==
    {Database({}, None),
     Database({SetRow(i1, "legacy")}, None),
     Database({SetRow(i1, "fixed")}, i1),
     Database({SetRow(i1, "foreign")}, i1),
     Database({SetRow(i1, "fixed"), SetRow(i2, "foreign")}, i2),
     Database({SetRow(i1, "fixed")}, None),
     Database({SetRow(i1, "foreign")}, None)}

SplitDef == [content \in Contents |-> CASE content = "old"   -> <<"h1", "h2">>
                                        [] content = "new"   -> <<"h3", "h4">>
                                        [] content = "newer" -> <<"h3">>]

\* Chunk ids a client makes up, beside the generated <<document, hash>>.
Chunk(id, hash, index) == [id |-> <<"client", id>>, hash |-> hash, index |-> index]

BatchesDef == {<<Chunk("x", "h2", 2), Chunk("y", "h9", 9)>>,
               <<Chunk("y", "h9", 9), Chunk("z", "h2", 2)>>,
               <<Chunk("y", "h8", 2)>>}

LegacyDocsDef == {[id |-> "d1", hash |-> "old", version |-> 1]}

LegacyChunksDef == {[id |-> <<"d1", "h1">>, doc |-> "d1", hash |-> "h1", index |-> 1]}

\* The same with fewer requests.
Answering == INSTANCE DocumentWrites WITH MaxRequests <- 2

MCInit == /\ focus \in Focus
          /\ Init /\ WritesInit
          /\ focus # "profile" => sets = {}

ProfileStep == focus = "profile" /\ Next /\ UNCHANGED <<focus, writeVars>>
DocumentStep == /\ \/ focus = "documents" /\ WritesNext
                   \/ focus = "answers" /\ Answering!WritesNext
                /\ UNCHANGED <<focus, vars>>

MCSpec == MCInit /\ [][ProfileStep \/ DocumentStep]_<<focus, vars, writeVars>>

\* Fairness as in ActiveProfile and DocumentWrites, of the component that runs.
ProfileFairness == \A c \in Callers :
    /\ WF_vars(focus = "profile" /\ Step(c))
    /\ SF_vars(focus = "profile" /\ AcquireBootstrapLock(c))

AnswerFairness ==
    \A c \in Clients : WF_writeVars(focus = "answers" /\ Answering!Advance(c))

\* Under the fairness of the database every call for the active set ends, and
\* every write is answered.
EveryRequestEnds ==
    /\ focus = "profile" /\ ProfileFairness => EveryCallEnds
    /\ focus = "answers" /\ AnswerFairness => EveryRequestIsAnswered
=============================================================================
