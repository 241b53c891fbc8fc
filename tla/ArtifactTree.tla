---------------------------- MODULE ArtifactTree ----------------------------
(***************************************************************************)
(* The tree of projects, iterations and artifacts of the dashboard         *)
(* (artifact-tree/ArtifactTree.tsx) and its roving keyboard focus.  A node *)
(* is the path of names from its project down to itself, so that the       *)
(* parent of a node is its path less the last name.  Every expanded node   *)
(* loads the list of its children page by page; an answer may bring nodes  *)
(* or take them away, a failure hides the whole list.  One item of the     *)
(* tree, the active one, can be reached with the Tab key.  When it         *)
(* disappears a microtask, scheduled by the effects of the components,     *)
(* picks the closest item that is left and moves the focus if the focus    *)
(* was on the item that disappeared.                                       *)
(***************************************************************************)
EXTENDS Naturals, Sequences, FiniteSets, SequencesExt

CONSTANT Order    \* every node there may be, in the order of the page

NoNode == << >>
Nodes == ToSet(Order)
Parent(n) == IF n = NoNode THEN NoNode ELSE Front(n)
Ancestors(n) == Prefixes(Parent(n)) \ {NoNode}
Children(l) == {n \in Nodes : Parent(n) = l}

\* Every node is a path, and the nodes above it are nodes.
ASSUME TreeAssumption ==
    /\ Order \in Seq(Seq(UNION {ToSet(n) : n \in Nodes}) \ {NoNode})
    /\ \A n \in Nodes : Ancestors(n) \subseteq Nodes

Depth == 3
Branches == {l \in Nodes \cup {NoNode} : Len(l) < Depth}

VARIABLES
    lists,        \* the query of each list: state and items loaded
    expanded,     \* the disclosure state of each mounted node
    active,       \* activeNodeIdRef: the item with tabIndex 0
    lastFocused,  \* lastFocusedNodeIdRef
    pending,      \* pendingFocusNodeIdRef
    prev,         \* previousTreeItemsRef: the items at the last check
    keyboard,     \* where the keyboard focus of the page is
    scheduled     \* rovingFocusCheckScheduledRef

treeVars == <<lists, expanded, active, lastFocused, pending, prev, keyboard, scheduled>>

On(n) == [at |-> "item", node |-> n]
OnButton(n) == [at |-> "button", node |-> n]
Outside == [at |-> "outside", node |-> NoNode]
Lost == [at |-> "lost", node |-> NoNode]
InTree == keyboard.at \in {"item", "button"}

TreeTypeOK ==
    /\ lists \in [Branches -> [state : {"pending", "error", "ready"}, items : SUBSET Nodes]]
    /\ expanded \in [Nodes -> BOOLEAN]
    /\ {active, lastFocused, pending} \subseteq Nodes \cup {NoNode}
    /\ prev \in Seq(Nodes)
    /\ keyboard \in {Outside, Lost} \cup {On(n) : n \in Nodes} \cup {OnButton(n) : n \in Branches}
    /\ scheduled \in BOOLEAN

TreeInit ==
    /\ lists = [l \in Branches |-> [state |-> "pending", items |-> {}]]
    /\ expanded = [n \in Nodes |-> FALSE]
    /\ active = NoNode /\ lastFocused = NoNode /\ pending = NoNode
    /\ prev = << >>
    /\ keyboard = Outside
    /\ scheduled = TRUE
-----------------------------------------------------------------------------
\* What the page shows

(* A node is rendered when the list above it is, is loaded without an error
   and holds it: TreePage renders nothing for a pending or failed query. *)
Listed(L, n) == L[Parent(n)].state = "ready" /\ n \in L[Parent(n)].items
Shown(L, E, n) ==
    /\ Listed(L, n)
    /\ \A a \in Ancestors(n) : E[a] /\ Listed(L, a)

\* Some nodes in the order of the page.
InOrder(S) ==
    LET kept[k \in 0 .. Len(Order)] ==
            IF k = 0 THEN << >>
            ELSE IF Order[k] \in S THEN Append(kept[k - 1], Order[k]) ELSE kept[k - 1]
    IN kept[Len(Order)]

Rendered(L, E) == InOrder({n \in Nodes : Shown(L, E, n)})
Items == Rendered(lists, expanded)
Visible(n) == Shown(lists, expanded, n)
Mounted(l) == l = NoNode \/ (Visible(l) /\ expanded[l])

(* The list of a node has a button when it failed (try again) or when there
   may be more pages of it. *)
HasButton(l) == l # NoNode /\ Mounted(l) /\ lists[l].state # "pending"

(* Mutant: the effect of a tree node has no clean-up, and a failed page is not
   among the dependencies of the list's effect. *)
CommitUnwatched(L, E, after) ==
    /\ lists' = L
    /\ expanded' = [n \in Nodes |-> E[n] /\ Shown(L, E, n)]
    /\ keyboard' = IF after.at = "item" /\ ~Shown(L, E, after.node) THEN Lost ELSE after
    /\ scheduled' = (scheduled \/ \E n \in Nodes : Shown(L, E, n) /\ ~Shown(lists, expanded, n))

(* A commit of the page: a node that is unmounted loses its disclosure
   state, an element that is removed loses the focus without an event the
   tree would see, and the effects schedule the check. *)
Commit(L, E, after) ==
    /\ lists' = L
    /\ expanded' = [n \in Nodes |-> E[n] /\ Shown(L, E, n)]
    /\ keyboard' \in CASE after.at = "item" -> {IF Shown(L, E, after.node) THEN after ELSE Lost}
                    [] after.at = "button" ->
                          IF ~Shown(L, E, after.node) \/ L[after.node].state # lists[after.node].state
                          THEN {Lost}
                          ELSE IF L = lists THEN {after} ELSE {after, Lost}
                    [] OTHER -> {after}
    /\ scheduled' = TRUE

(* onTreeNodeFocus *)
NodeFocused(n) == active' = n /\ lastFocused' = n /\ pending' = NoNode
-----------------------------------------------------------------------------
\* What the user does

(* A click on a project or an iteration, or Enter, or the arrow that opens or
   closes it: the item takes the focus and turns its disclosure.  A list that
   failed before it had data is asked for anew when it is mounted again. *)
Toggle(n) ==
    /\ n \in Branches \ {NoNode} /\ Visible(n)
    /\ NodeFocused(n)
    /\ LET again == ~expanded[n] /\ lists[n].state = "error" /\ lists[n].items = {}
       IN Commit(IF again THEN [lists EXCEPT ![n].state = "pending"] ELSE lists,
                 [expanded EXCEPT ![n] = ~@], On(n))
    /\ UNCHANGED prev

(* The arrows, Home and End move from item to item; the Tab key enters at the
   active item, or at the first project while there is none; an artifact is
   also clicked. *)
Tabstop(n) == active = n \/ (active = NoNode /\ Items # << >> /\ n = Head(Items))
FocusItem(n) ==
    /\ Visible(n) /\ keyboard # On(n)
    /\ keyboard.at = "item" \/ Tabstop(n) \/ n \notin Branches
    /\ keyboard' = On(n)
    /\ NodeFocused(n)
    /\ scheduled' = (scheduled \/ active # n)
    /\ UNCHANGED <<lists, expanded, prev>>

(* A button inside an item takes the focus: only the item's own focus event
   counts as one of the tree node. *)
FocusButton(n) ==
    /\ HasButton(n)
    /\ keyboard' = OnButton(n)
    /\ UNCHANGED <<lists, expanded, active, lastFocused, pending, prev, scheduled>>

(* The focus leaves for another control.  The tree sees it only when one of
   its elements had the focus. *)
Leave ==
    /\ keyboard # Outside
    /\ keyboard' = Outside
    /\ lastFocused' = IF InTree THEN NoNode ELSE lastFocused
    /\ UNCHANGED <<lists, expanded, active, pending, prev, scheduled>>
-----------------------------------------------------------------------------
\* The queries of the lists

(* A first answer, one more page, or a background reload of all pages. *)
Arrives(l) ==
    /\ Mounted(l)
    /\ \E items \in SUBSET Children(l) :
          Commit([lists EXCEPT ![l] = [state |-> "ready", items |-> items]], expanded, keyboard)
    /\ UNCHANGED <<active, lastFocused, pending, prev>>

(* A request fails: the query is in error and keeps the pages it had. *)
Fails(l) ==
    /\ Mounted(l) /\ lists[l].state # "error"
    /\ Commit([lists EXCEPT ![l].state = "error"], expanded, keyboard)
    /\ UNCHANGED <<active, lastFocused, pending, prev>>

(* The cache forgets a list nobody shows. *)
Forget(l) ==
    /\ ~Mounted(l) /\ lists[l].state # "pending"
    /\ lists' = [lists EXCEPT ![l] = [state |-> "pending", items |-> {}]]
    /\ UNCHANGED <<expanded, active, lastFocused, pending, prev, keyboard, scheduled>>
-----------------------------------------------------------------------------
\* The check of the roving focus (reconcileRovingFocus)

(* findClosestVisibleTreeItem: the nearest ancestor that is left, else the
   item now at the place the missing one had. *)
Closest(now, before, n) ==
    LET above == Ancestors(n) \cap ToSet(now)
        place == CHOOSE k \in 1..Len(before) : before[k] = n
    IN CASE n \notin ToSet(before) -> now[1]
         [] n \in ToSet(before) /\ above # {} ->
               CHOOSE a \in above : \A b \in above : Len(b) <= Len(a)
         [] OTHER -> now[IF place < Len(now) THEN place ELSE Len(now)]

Activate(n) == active' = n /\ scheduled' = (active # n)

NothingIsShown ==
    /\ Items = << >>
    /\ pending' = IF active # NoNode /\ lastFocused = active THEN active ELSE pending
    /\ scheduled' = FALSE
    /\ UNCHANGED <<active, lastFocused, prev, keyboard>>

ActiveIsShown ==
    /\ active \in ToSet(Items)
    /\ prev' = Items
    /\ IF pending = active
       THEN keyboard' = On(active) /\ NodeFocused(active)
       ELSE UNCHANGED <<keyboard, active, lastFocused, pending>>
    /\ scheduled' = FALSE

NothingIsActive ==
    /\ Items # << >> /\ active = NoNode
    /\ prev' = Items
    /\ Activate(Head(Items))
    /\ UNCHANGED <<lastFocused, pending, keyboard>>

ShouldRestore == lastFocused = active \/ pending = active

ActiveIsGone ==
    /\ Items # << >> /\ active # NoNode /\ active \notin ToSet(Items)
    /\ LET fallback == Closest(Items, prev, active)
       IN /\ Activate(fallback)
          /\ pending' = IF ShouldRestore THEN fallback ELSE pending
    /\ prev' = Items
    /\ UNCHANGED <<lastFocused, keyboard>>

Reconcile ==
    /\ scheduled
    /\ NothingIsShown \/ ActiveIsShown \/ NothingIsActive \/ ActiveIsGone
    /\ UNCHANGED <<lists, expanded>>
-----------------------------------------------------------------------------
TreeNext ==
    \/ \E n \in Nodes : Toggle(n) \/ FocusItem(n)
    \/ \E l \in Branches : FocusButton(l) \/ Arrives(l) \/ Fails(l) \/ Forget(l)
    \/ Leave
    \/ Reconcile

TreeSpec == TreeInit /\ [][TreeNext]_treeVars
-----------------------------------------------------------------------------
(* While the tree shows anything, and the check that follows every change has
   run, exactly one item can be reached with the Tab key, and it is an item
   that is there: whatever was collapsed, reloaded or lost, the tree never
   drops out of the tab order (ArtifactTree.test.tsx:239). *)
OneTabstop ==
    ~scheduled /\ Items # << >> => Cardinality({n \in ToSet(Items) : Tabstop(n)}) = 1

(* When the item with the focus disappears and another becomes the tab stop,
   the focus goes with it, through any number of further reloads, failures
   and empty trees on the way: a keyboard user is not put back to the start
   of the page (ArtifactTree.test.tsx:268, 293). *)
FocusFollowsTheTabstop ==
    ~scheduled /\ Items # << >> /\ keyboard = Lost /\ lastFocused # NoNode
        => lastFocused = active

(* One item of the tree can be tabbed to, and it has the keyboard when the tree has. *)
TreeKeepsItsTabstop == OneTabstop /\ FocusFollowsTheTabstop
=============================================================================
