---------------------------- MODULE EmbeddingQueue ----------------------------
(***************************************************************************)
(* What the embedding queue promises about each document chunk, with no    *)
(* workers, leases, attempts or statements: a stored chunk is owed an      *)
(* embedding, and the debt is paid or written off.                         *)
(***************************************************************************)
CONSTANTS
    Chunks,   \* document chunks
    Legacy    \* chunks stored before the queue existed

VARIABLE promise   \* the state of the promise to each chunk

Init == promise = [c \in Chunks |-> IF c \in Legacy THEN "missing" ELSE "absent"]

Turn(c, from, to) ==
    /\ promise[c] \in from
    /\ promise' = [promise EXCEPT ![c] = to]

\* A document write stores the chunk and owes it an embedding at once.
Store(c) == Turn(c, {"absent", "missing"}, "owed")

\* A chunk without a job is adopted.
Adopt(c) == Turn(c, {"missing"}, "owed")

Settle(c) == Turn(c, {"owed"}, "embedded") \/ Turn(c, {"owed"}, "failed")

Revive(c) == Turn(c, {"failed"}, "owed")

Delete(c) == Turn(c, {"missing", "owed", "embedded", "failed"}, "deleted")

Next == \E c \in Chunks : Store(c) \/ Adopt(c) \/ Settle(c) \/ Revive(c) \/ Delete(c)

Spec == Init /\ [][Next]_promise
=============================================================================
