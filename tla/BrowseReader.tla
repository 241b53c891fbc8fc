---------------------------- MODULE BrowseReader ----------------------------
(***************************************************************************)
(* The browse page of the dashboard (dashboardShell.tsx) with the artifact *)
(* viewer in it (artifact-viewer/ArtifactViewer.tsx).  The address names   *)
(* an iteration and a selected artifact.  The viewer asks for the artifact *)
(* in an effect, which runs after the page has been rendered, shows it,    *)
(* and hands it to the page for the pane beside it, where the gates of the *)
(* iteration and the work linked to the artifact are derived               *)
(* (artifactPresentation.ts, gateLineagePresentation.ts).  Meanwhile the   *)
(* address changes, answers are late, and what is stored changes.          *)
(***************************************************************************)
EXTENDS Naturals, FiniteSets

CONSTANTS
    Artifacts, Iterations,
    Home,      \* the iteration of each artifact
    Kind,      \* the gate document its source path makes it, or None
    Work,      \* the artifacts that are tasks and runs
    Refs,      \* the task and run identifiers an artifact refers to
    Named,     \* the artifacts that go by such an identifier
    MaxWrites

Unset == "none"
Gates == {"product_spec", "task_graph", "final_review"}

ASSUME ReaderAssumption ==
    /\ Unset \notin Artifacts /\ Home \in [Artifacts -> Iterations]
    /\ Kind \in [Artifacts -> Gates \cup {Unset}]
    /\ Work \subseteq Artifacts /\ Named \in [UNION {Refs[a] : a \in Artifacts} -> SUBSET Work]
    /\ MaxWrites \in Nat

Audits == {"absent", "malformed", "valid"}
DocStatuses == {"absent", "approved", "draft", "other"}
DocContents == [audit : Audits, status : DocStatuses]

VARIABLES
    stored,    \* what the memory server holds of each artifact
    writes,
    at,        \* the address: the iteration and the selected artifact
    effect,    \* the viewer's effect has not run since the address changed
    request,   \* the artifact asked for, not aborted and not answered
    viewer,    \* the viewer's state: whose it is, and what came back
    loaded,    \* the artifact the viewer handed to the page
    listed     \* the two queries of the iteration: their status and items

readerVars == <<stored, writes, at, effect, request, viewer, loaded, listed>>

Loading == [of |-> Unset, status |-> "loading", content |-> Unset]
Nothing == [of |-> Unset, content |-> Unset]
Unlisted == [status |-> "pending", items |-> {}]

ReaderInit ==
    /\ stored \in [Artifacts -> {[audit |-> "absent", status |-> "absent"]}]
    /\ writes = 0
    /\ at = [scope |-> Unset, selected |-> Unset]
    /\ effect = FALSE /\ request = Unset
    /\ viewer = Loading /\ loaded = Nothing /\ listed = Unlisted
-----------------------------------------------------------------------------
\* What is shown

(* The viewer shows an answer only while it is for the artifact asked for. *)
Reader == IF at.selected # Unset /\ viewer.of = at.selected /\ viewer.status = "success"
          THEN [of |-> viewer.of, content |-> viewer.content] ELSE Nothing

(* Mutant: the pane shows whatever artifact was loaded last. *)
LastLoaded == loaded

(* matchesSelectedArtifact: the pane shows the loaded artifact only while it
   is the selected one. *)
Context == IF at.selected # Unset /\ loaded.of = at.selected THEN loaded ELSE Nothing

(* classifyPriorityDocuments: the document of a gate is the selected artifact
   if it is stored under that gate's path, else the first that is. *)
Candidates == {a \in listed.items : Home[a] = at.scope}
DocumentOf(gate) ==
    LET matches == {a \in Candidates : Kind[a] = gate}
    IN IF at.selected \in matches THEN at.selected
       ELSE IF matches = {} THEN Unset ELSE CHOOSE a \in matches : TRUE

(* deriveGateProgressItem *)
GateStatus(audit, status, present) ==
    CASE audit = "valid" -> "approved"
      [] audit = "malformed" /\ status = "draft" -> "draft"
      [] audit = "malformed" /\ status = "approved" -> "conflict"
      [] audit = "malformed" /\ status \notin {"draft", "approved"} -> "unknown"
      [] audit = "absent" /\ status \in {"approved", "draft"} -> status
      [] audit = "absent" /\ status = "other" -> "conflict"
      [] OTHER -> IF present THEN "pending" ELSE "unknown"

(* gateProgressFor: only the artifact that is open tells of its approval, any
   other document that is listed is pending. *)
GateShown(gate) ==
    LET document == DocumentOf(gate)
        open == document # Unset /\ Context.of = document
    IN IF open THEN GateStatus(Context.content.audit, Context.content.status, TRUE)
       ELSE IF document # Unset THEN "pending" ELSE GateStatus("absent", "absent", FALSE)

(* deriveLineageWork: every reference must name exactly one listed task or
   run other than the artifact itself. *)
Matching(shown, ref) == {w \in (Work \cap listed.items) \ {shown.of} : w \in Named[ref]}
LinkedWork(shown) ==
    CASE shown = Nothing -> {}
      [] shown # Nothing /\ \E ref \in Refs[shown.of] : Cardinality(Matching(shown, ref)) # 1 -> {}
      [] OTHER -> UNION {Matching(shown, ref) : ref \in Refs[shown.of]}
-----------------------------------------------------------------------------
\* The page

(* A new address is rendered: a query of another iteration starts anew, a
   viewer that leaves the page loses its state, and the effect is due. *)
Open(address) ==
    /\ ~effect /\ address # at
    /\ at' = address
    /\ listed' = IF address.scope = at.scope THEN listed ELSE Unlisted
    /\ viewer' = IF address.selected = Unset THEN Loading ELSE viewer
    /\ effect' = (address.selected # at.selected)
    /\ UNCHANGED <<stored, writes, request, loaded>>

(* A click on a document or on the tree (browseSearchForSelection). *)
SelectArtifact(a) == Open([scope |-> Home[a], selected |-> a])

(* The effect aborts the earlier request and makes the next.  The page is told
   that nothing is loaded, unless there is no viewer left to tell it. *)
RunEffect ==
    /\ effect
    /\ effect' = FALSE
    /\ request' = at.selected
    /\ loaded' = IF at.selected = Unset THEN loaded ELSE Nothing
    /\ UNCHANGED <<stored, writes, at, viewer, listed>>

(* The answer to a request that was not aborted, also when the address has
   changed and the effect has not run yet. *)
Answered ==
    /\ request # Unset
    /\ LET answer == [of |-> request, content |-> stored[request]]
       IN \/ /\ viewer' = IF at.selected = Unset THEN viewer
                          ELSE [of |-> request, status |-> "success", content |-> answer.content]
             /\ loaded' = answer
          \/ /\ viewer' = IF at.selected = Unset THEN viewer
                          ELSE [of |-> request, status |-> "error", content |-> Unset]
             /\ UNCHANGED loaded
    /\ request' = Unset
    /\ UNCHANGED <<stored, writes, at, effect, listed>>

(* The queries of the iteration are answered: a page of its artifacts, with
   or without some document; or they fail, and are tried again. *)
ListAnswered ==
    /\ at.scope # Unset /\ listed.status # "ready"
    /\ \/ \E items \in SUBSET {a \in Artifacts : Home[a] = at.scope} :
             listed' = [status |-> "ready", items |-> items]
       \/ listed' = [status |-> "error", items |-> {}]
    /\ UNCHANGED <<stored, writes, at, effect, request, viewer, loaded>>

(* The memory stores another version of an artifact. *)
Store(a) ==
    /\ writes < MaxWrites
    /\ writes' = writes + 1
    /\ \E content \in DocContents : stored' = [stored EXCEPT ![a] = content]
    /\ UNCHANGED <<at, effect, request, viewer, loaded, listed>>

ReaderNext ==
    \/ \E a \in Artifacts : SelectArtifact(a) \/ Store(a)
    \/ \E scope \in Iterations \cup {Unset}, selected \in Artifacts \cup {Unset} :
          Open([scope |-> scope, selected |-> selected])
    \/ RunEffect \/ Answered \/ ListAnswered

ReaderSpec == ReaderInit /\ [][ReaderNext]_readerVars
-----------------------------------------------------------------------------
(* The text and the pane beside it never tell of two artifacts, nor of two
   versions of one: what each shows is the selected artifact as the same
   answer brought it, and the linked work they derive is the same
   (dashboardShell.test.tsx:295). *)
ReaderAndContextAgree ==
    /\ Context # Nothing => Context.of = at.selected
    /\ Reader # Nothing /\ Context # Nothing =>
          Reader = Context /\ LinkedWork(Reader) = LinkedWork(Context)

(* A gate is shown approved only while its document in the iteration of the
   address is open and records the approval in the version read: by a valid
   audit, or by its status with no audit that contradicts it
   (gateLineagePresentation.test.ts:29, 51). *)
ApprovalIsRecorded ==
    \A gate \in Gates : GateShown(gate) = "approved" =>
        /\ Home[at.selected] = at.scope /\ Kind[at.selected] = gate
        /\ \/ Context.content.audit = "valid"
           \/ Context.content.audit = "absent" /\ Context.content.status = "approved"

(* What is shown of an artifact is one version of one artifact. *)
ReadingIsOfOneArtifact == ReaderAndContextAgree /\ ApprovalIsRecorded
=============================================================================
