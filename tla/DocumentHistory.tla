--------------------------- MODULE DocumentHistory ---------------------------
(***************************************************************************)
(* What the document store promises about one logical scope (project,      *)
(* iteration, artifact type and source path), whoever writes at the same   *)
(* time: a history that is only appended to, in which no content is        *)
(* repeated, and for each content a growing set of chunks queued for       *)
(* embedding.  A request happens at once or not at all.                    *)
(***************************************************************************)
EXTENDS Sequences

CONSTANTS
    Contents,   \* contents, that is content hashes
    Split,      \* Split[content]: its paragraph-2000 chunk hashes, in order
    Hashes,     \* all chunk hashes
    Before      \* history when the queue was introduced

VARIABLES
    history,    \* contents in the order of their snapshot versions
    queued      \* queued[content]: hashes of its chunks that have a job

Elements(s) == {s[i] : i \in DOMAIN s}

Init ==
    /\ history = Before
    /\ queued = [content \in Contents |-> {}]

Extended(content) ==
    IF content \in Elements(history) THEN history ELSE Append(history, content)

SaveSnapshot(content) ==
    /\ history' = Extended(content)
    /\ UNCHANGED queued

SaveChunkedSnapshot(content) ==
    /\ history' = Extended(content)
    /\ queued' = [queued EXCEPT ![content] = @ \cup Elements(Split[content])]

SaveChunks(content, hashes) ==
    /\ content \in Elements(history)
    /\ queued' = [queued EXCEPT ![content] = @ \cup hashes]
    /\ UNCHANGED history

Next == \E content \in Contents :
    \/ SaveSnapshot(content)
    \/ SaveChunkedSnapshot(content)
    \/ \E hashes \in SUBSET Hashes : SaveChunks(content, hashes)

Spec == Init /\ [][Next]_<<history, queued>>
=============================================================================
