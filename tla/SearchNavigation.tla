-------------------------- MODULE SearchNavigation --------------------------
(***************************************************************************)
(* The search page of the dashboard (search/searchUrlState.ts,             *)
(* SearchRoute.tsx).  All of its state is in the address: what to search,  *)
(* and the cursor of the page shown, with a key of the inputs the cursor   *)
(* was issued for.  An address is parsed leniently, written back in one    *)
(* canonical form and, when it differs, replaced by it.  People submit the *)
(* form, page forward, go back, and edit or share addresses by hand.       *)
(***************************************************************************)
EXTENDS Naturals

CONSTANTS
    Queries,    \* search texts a person may type
    Fusions,    \* settings of the hybrid ranking that are accepted
    MaxPages    \* pages an answer of the memory server may run to

NoValue == "none"
Junk == "junk"
Modes == {"keyword", "semantic", "hybrid"}
SearchScopes == {"all", "project", "iteration"}
Types == {"TASK"}

\* What a person types is neither missing nor refused.
ASSUME SearchAssumption ==
    /\ MaxPages \in Nat
    /\ (Queries \cup Fusions) \cap {NoValue, Junk, "few"} = {}

NoCursor == [inputs |-> <<>>, page |-> 0]

(* The inputs of a search, as the address and the memory server know them. *)
Inputs == [q : Queries \cup {NoValue}, scope : SearchScopes, filter : Types \cup {NoValue},
           mode : Modes, fusion : Fusions \cup {NoValue}]
Cursors == [inputs : Inputs, page : 1..(MaxPages - 1)] \cup {NoCursor}

(* The parameters of an address before they are parsed.  ids says which of
   projectId and iterationId are there. *)
IdSets == SUBSET {"projectId", "iterationId"}
Raw(field) ==
    CASE field = "q" -> Queries \cup {NoValue, Junk}
      [] field = "scope" -> SearchScopes \cup {NoValue, Junk}
      [] field = "ids" -> IdSets
      [] field = "filter" -> Types \cup {NoValue, Junk}
      [] field = "mode" -> Modes \cup {NoValue, Junk}
      [] field = "fusion" -> Fusions \cup {NoValue, Junk}
Fields == {"q", "scope", "ids", "filter", "mode", "fusion"}

VARIABLES
    url,       \* parameters of the address shown
    previous,  \* the address one step back
    found,    \* what came back for the search of the address
    message    \* the form's validation message is shown

searchVars == <<url, previous, found, message>>
-----------------------------------------------------------------------------
\* searchUrlState.ts

Known(value, good, default) == IF value \in good THEN value ELSE default

(* A scope without the identifiers it needs is the whole corpus. *)
Needs(scope) == CASE scope = "project" -> {"projectId"}
                  [] scope = "iteration" -> {"projectId", "iterationId"}
                  [] OTHER -> {}
ParseScope(u) == IF u.scope \in SearchScopes /\ Needs(u.scope) \subseteq u.ids THEN u.scope ELSE "all"

ParsedInputs(u) ==
    [q |-> Known(u.q, Queries, NoValue), scope |-> ParseScope(u),
     filter |-> Known(u.filter, Types, NoValue), mode |-> Known(u.mode, Modes, "keyword"),
     fusion |-> Known(u.fusion, Fusions, NoValue)]

(* Mutant: the key leaves the settings of the ranking out. *)
KeyWithoutFusion(inputs) == [inputs EXCEPT !.fusion = NoValue]

(* searchInputKey hashes the inputs; two inputs are taken to differ in it. *)
KeyOf(inputs) == inputs

NoKey == << >>

(* The cursor counts only under the key of the inputs beside it; without a
   cursor the page is the first. *)
Parse(u) ==
    LET inputs == ParsedInputs(u)
        keeps  == u.cursor # NoCursor /\ u.key = KeyOf(inputs)
    IN [inputs |-> inputs,
        cursor |-> IF keeps THEN u.cursor ELSE NoCursor,
        page   |-> IF keeps THEN u.page ELSE 1]

(* serializeSearchUrl: defaults are left out. *)
Serialize(s) ==
    [q |-> s.inputs.q,
     scope |-> IF s.inputs.scope = "all" THEN NoValue ELSE s.inputs.scope,
     ids |-> Needs(s.inputs.scope),
     filter |-> s.inputs.filter,
     mode |-> IF s.inputs.mode = "keyword" THEN NoValue ELSE s.inputs.mode,
     fusion |-> s.inputs.fusion,
     cursor |-> s.cursor,
     key |-> IF s.cursor = NoCursor THEN NoKey ELSE KeyOf(s.inputs),
     page |-> IF s.cursor = NoCursor THEN 1 ELSE s.page]

Canonical(u) == Serialize(Parse(u))

(* formStateFromSearchUrl, and what a person makes of it in one go.  The two
   numbers of the ranking as typed: left blank, too small a number of
   candidates, or fine; and blank, not a positive number, or fine. *)
FormOf(s) ==
    [q |-> s.inputs.q, scope |-> s.inputs.scope, ids |-> Needs(s.inputs.scope),
     filter |-> s.inputs.filter, mode |-> s.inputs.mode, candidates |-> s.inputs.fusion,
     k |-> IF s.inputs.fusion = NoValue THEN NoValue ELSE "k"]

Drafts(form) ==
    {[form EXCEPT !.q = v] : v \in Queries \cup {NoValue}}
    \cup {[form EXCEPT !.scope = to.scope, !.ids = to.ids] :
              to \in [scope : SearchScopes, ids : IdSets]}
    \cup {[form EXCEPT !.filter = v] : v \in Types \cup {NoValue}}
    \cup {[form EXCEPT !.mode = to.mode, !.candidates = to.candidates, !.k = to.k] :
              to \in [mode : Modes, candidates : Fusions \cup {NoValue, "few"},
                     k : {NoValue, Junk, "k"}]}

FusionIsRefused(form) ==
    ~(form.candidates = NoValue /\ form.k = NoValue) /\ ~(form.candidates \in Fusions /\ form.k = "k")

(* Mutant: the number of candidates is checked against one, not a page. *)
InvalidFieldsLoosely(form) ==
    IF form.q = NoValue THEN {"q"}
    ELSE IF ~(Needs(form.scope) \subseteq form.ids) THEN Needs(form.scope) \ form.ids
    ELSE IF form.mode # "hybrid" \/ ~FusionIsRefused(form) THEN {}
    ELSE {f \in {"candidates"} : form.candidates = NoValue} \cup {f \in {"k"} : form.k # "k"}

(* validationFieldsForForm *)
InvalidFields(form) ==
    IF form.q = NoValue THEN {"q"}
    ELSE IF ~(Needs(form.scope) \subseteq form.ids) THEN Needs(form.scope) \ form.ids
    ELSE IF form.mode # "hybrid" \/ ~FusionIsRefused(form) THEN {}
    ELSE {f \in {"candidates"} : form.candidates \notin Fusions} \cup {f \in {"k"} : form.k # "k"}

(* searchUrlFromForm, null for a form it cannot make an address of. *)
Sendable(form) ==
    /\ form.q # NoValue /\ Needs(form.scope) \subseteq form.ids
    /\ form.mode = "hybrid" => ~FusionIsRefused(form)
FromForm(form) ==
    [inputs |-> [q |-> form.q, scope |-> form.scope, filter |-> form.filter, mode |-> form.mode,
                 fusion |-> IF form.mode = "hybrid" THEN form.candidates ELSE NoValue],
     cursor |-> NoCursor, page |-> 1]
-----------------------------------------------------------------------------
\* SearchRoute.tsx

State == Parse(url)
Pending == [status |-> "pending", next |-> NoCursor]
Failed == [status |-> "error", next |-> NoCursor]

(* Only a hybrid search is sent with the settings of its ranking. *)
Sent(inputs) == IF inputs.mode = "hybrid" THEN inputs ELSE [inputs EXCEPT !.fusion = NoValue]

(* The request of an address.  Only the mode's own query is enabled, and none
   without a text; the answer of another request is not shown. *)
Request(u) == [inputs |-> Sent(Parse(u).inputs), cursor |-> Parse(u).cursor]

Go(u) ==
    /\ url' = u
    /\ found' = IF Request(u) = Request(url) THEN found ELSE Pending
    /\ message' = IF u = url THEN message ELSE FALSE

Empty == Serialize([inputs |-> [q |-> NoValue, scope |-> "all", filter |-> NoValue, mode |-> "keyword",
                                fusion |-> NoValue], cursor |-> NoCursor, page |-> 1])

SearchInit == url = Empty /\ previous = Empty /\ found = Pending /\ message = FALSE

(* The effect that replaces an address by its canonical form. *)
Redirect == url # Canonical(url) /\ Go(Canonical(url)) /\ UNCHANGED previous

Submit(form) ==
    /\ url = Canonical(url)
    /\ IF InvalidFields(form) # {}
       THEN message' = TRUE /\ UNCHANGED <<url, previous, found>>
       ELSE IF Sendable(form)
       THEN Go(Serialize(FromForm(form))) /\ previous' = url
       ELSE message' = FALSE /\ UNCHANGED <<url, previous, found>>

NextPage ==
    /\ url = Canonical(url)
    /\ found.next # NoCursor
    /\ Go(Serialize([State EXCEPT !.cursor = found.next, !.page = @ + 1]))
    /\ previous' = url

Back == Go(previous) /\ previous' = url

(* The memory server answers a page: with a cursor when there is more. *)
Answer ==
    /\ State.inputs.q # NoValue /\ found = Pending
    /\ LET page == State.cursor.page + 1
       IN \E next \in {NoCursor} \cup (IF page < MaxPages THEN {[inputs |-> Sent(State.inputs), page |-> page]} ELSE {}) :
             found' \in {Failed, [status |-> "ready", next |-> next]}
    /\ UNCHANGED <<url, previous, message>>

(* Somebody edits an input in the address, or loses the cursor or its key in
   passing a link on.  The page number beside a cursor is not edited: nothing
   checks it. *)
EditAddress(u) == url = Canonical(url) /\ u # url /\ Go(u) /\ previous' = url

Edited == {[url EXCEPT !.q = v] : v \in Raw("q")}
          \cup {[url EXCEPT !.scope = to.scope, !.ids = to.ids] :
                    to \in [scope : Raw("scope"), ids : IdSets]}
          \cup {[url EXCEPT !.filter = v] : v \in Raw("filter")}
          \cup {[url EXCEPT !.mode = v] : v \in Raw("mode")}
          \cup {[url EXCEPT !.fusion = v] : v \in Raw("fusion")}
          \cup {[url EXCEPT !.key = NoKey], [url EXCEPT !.cursor = NoCursor]}

SearchNext ==
    \/ Redirect \/ NextPage \/ Back \/ Answer
    \/ \E form \in Drafts(FormOf(State)) : Submit(form)
    \/ \E u \in Edited : EditAddress(u)

SearchSpec == SearchInit /\ [][SearchNext]_searchVars
-----------------------------------------------------------------------------
(* However an address came about, a cursor is sent only with the inputs it
   was issued for, as they are sent, and the page number counts the pages before it: the
   memory server would refuse the cursor, or go on in another list
   (searchUrlState.ts:71). *)
CursorsKeepTheirSearch ==
    /\ State.cursor # NoCursor => State.cursor.inputs = Sent(State.inputs)
    /\ State.page = State.cursor.page + 1

(* Replacing an address by its canonical form does not change the search it
   stands for, and it happens once: the page does not redirect in circles
   and does not lose the cursor of a shared link.  (A parameter that cannot be
   read stands for its default already, silently.) *)
RedirectKeepsTheSearch ==
    LET canonical == Canonical(url)
    IN Parse(canonical) = Parse(url) /\ Canonical(canonical) = canonical

(* Submitting the form always does something a person can see: a form without
   a message becomes an address, and one that cannot gets a message. *)
NoSubmitIsSilent ==
    \A form \in Drafts(FormOf(State)) : InvalidFields(form) = {} <=> Sendable(form)

(* What an address stands for is searched for, and what is typed into the form is
   searched for or refused in the open. *)
SearchIsNotLost == RedirectKeepsTheSearch /\ NoSubmitIsSilent
=============================================================================
