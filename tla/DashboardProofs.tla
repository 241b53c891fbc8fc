---------------------------- MODULE DashboardProofs ----------------------------
(***************************************************************************)
(* The dashboard and its BFF.  A call ends with the truth and with nothing *)
(* held, for any number of calls, any limit and any number of crashes: the *)
(* invariant speaks of one call, and ties what the handler is about to     *)
(* answer to what has happened.  The tree keeps its tab stop for any tree  *)
(* of projects: between two checks the focus is on its way to the active   *)
(* item.  The trace page shows what a trace answers, for any graph.  A     *)
(* search keeps its cursors because a cursor is only ever kept beside the  *)
(* key it was issued for.  And the browse page holds one version of the    *)
(* artifact it shows.                                                      *)
(***************************************************************************)
EXTENDS BffRequest, ArtifactTree, TraceView, SearchNavigation, BrowseReader,
        GraphTraceProofs, FiniteSetTheorems, TLAPS


-----------------------------------------------------------------------------
(* Calls through the BFF                                                   *)

\* ShownIsTrue for one call: shown to the user, when h has happened.
Truth(shown, h) ==
    /\ shown \in {"data", "embedding_provider_unavailable"}
         => "completed" \in h /\ "oversized" \notin h
    /\ shown = "bff_timeout" => "timed out" \in h
    /\ shown = "bff_forbidden_route" => "redirected" \in h
    /\ shown = "bff_response_too_large" => "oversized" \in h
    /\ shown = "bff_backend_unavailable" => "broken" \in h /\ "timed out" \notin h

\* What the handler is about to catch is the first thing that went wrong.
ErrorIsTrue(fired, e, h) ==
    /\ e \in Refusals \cup {"broken", "aborted"}
    /\ e = "bff_forbidden_route" => "redirected" \in h
    /\ e = "bff_response_too_large" => "oversized" \in h
    /\ e = "broken" => "broken" \in h
    /\ e = "aborted" => fired
    /\ fired <=> "timed out" \in h

\* The values of one call, by the place of the handler and of the browser.
Sound(cl, b, t, co, g, e, a, h) ==
    /\ b \in {"idle", "fetching", "reading", "failing", "answered"}
    /\ b = "idle" => t = "off" /\ co # "open" /\ g = 0
    /\ b \in {"fetching", "reading"} => t = "armed" /\ co = "open" /\ h = {}
    /\ b = "fetching" => g = 0
    /\ b = "reading" => g <= Limit /\ a.body \in Bodies
    /\ b = "failing" => co = "closed" /\ ErrorIsTrue(t = "fired", e, h)
    /\ b = "answered" => co # "open" /\ t # "armed" /\ Truth(ResultOf(a), h)
    /\ t \in {"off", "armed", "fired"}
    /\ g \in Nat /\ g <= Limit + 1
    /\ cl = "idle" => b = "idle" /\ h = {}
    /\ cl \notin {"idle", "waiting", "cancelled"} => b \in {"idle", "answered"}
    /\ Truth(cl, h)

SoundCall(c) ==
    Sound(client[c], bff[c], timer[c], conn[c], got[c], error[c], answer[c], happened[c])

\* A variable has a value for every call.
OfCalls(f) == f = [c \in Calls |-> f[c]]

Inv ==
    /\ OfCalls(client) /\ OfCalls(bff) /\ OfCalls(timer) /\ OfCalls(conn)
    /\ OfCalls(got) /\ OfCalls(error) /\ OfCalls(answer) /\ OfCalls(happened)
    /\ \A c \in Calls : SoundCall(c)

-----------------------------------------------------------------------------
\* What a step of one call leaves alone: the values of every other call.
Untouched(d) ==
    /\ client'[d] = client[d] /\ bff'[d] = bff[d] /\ timer'[d] = timer[d]
    /\ conn'[d] = conn[d] /\ got'[d] = got[d] /\ error'[d] = error[d]
    /\ answer'[d] = answer[d] /\ happened'[d] = happened[d]

\* A call whose values stay stays sound.
LEMMA UntouchedStaysSound ==
    ASSUME NEW d \in Calls, SoundCall(d), Untouched(d)
    PROVE  SoundCall(d)'
BY DEF SoundCall, Untouched

\* A name that api.ts gives an error by its status.
ErrorNames == {"invalid_request", "authentication_required", "access_denied", "not_found",
               "conflict", "request_too_large", "service_unavailable", "service_timeout",
               "request_failed"}

\* Every status has a message of its own, or the general one.
LEMMA StatusIsNamed ==
    ASSUME NEW status
    PROVE  ErrorFor(status) \in ErrorNames
<1>1. CASE status \in {400, 401, 403, 404, 409, 413, 502, 503, 504}
  BY <1>1 DEF ErrorFor, ErrorNames
<1>2. CASE status \notin {400, 401, 403, 404, 409, 413, 502, 503, 504}
  BY <1>2 DEF ErrorFor, ErrorNames
<1> QED
  BY <1>1, <1>2

\* What is shown is data, a broken form, a name of the server's, or a name of a status.
LEMMA ResultIsNamed ==
    ASSUME NEW a
    PROVE  \/ ResultOf(a) = "data" /\ a.body = "data"
           \/ ResultOf(a) = "invalid_response"
           \/ ResultOf(a) = a.body /\ a.body \in ErrorCodes
           \/ ResultOf(a) \in ErrorNames
<1>1. CASE a.status = 200 /\ ReadsPage(a.body) /\ ReadsItems(a.body)
  BY <1>1 DEF ResultOf, ReadsPage, ReadsItems
<1>2. CASE a.status = 200 /\ ~(ReadsPage(a.body) /\ ReadsItems(a.body))
  BY <1>2 DEF ResultOf
<1>3. CASE a.status # 200 /\ a.body \in ErrorCodes
  BY <1>3 DEF ResultOf
<1>4. CASE a.status # 200 /\ a.body \notin ErrorCodes
  BY <1>4, StatusIsNamed DEF ResultOf
<1> QED
  BY <1>1, <1>2, <1>3, <1>4

\* A refusal by the checks of the BFF claims nothing about the backend.
LEMMA RefusalsAreTrue ==
    ASSUME NEW status, NEW h
    PROVE  Truth(ResultOf([status |-> status, body |-> "message"]), h)
<1> DEFINE a == [status |-> status, body |-> "message"]
<1>1. a.body = "message"
  OBVIOUS
<1>2. ResultOf(a) \in ErrorNames \cup {"invalid_response"}
  BY <1>1, ResultIsNamed DEF ErrorCodes
<1> QED
  BY <1>2 DEF Truth, ErrorNames

\* What is shown is a result: an answered call is never a call that has not begun.
LEMMA ResultsAreResults ==
    ASSUME NEW a
    PROVE  ResultOf(a) # "idle"
BY ResultIsNamed DEF ErrorCodes, ErrorNames

\* An answer of the backend that arrived whole and within the limit is true.
LEMMA CompleteAnswersAreTrue ==
    ASSUME NEW a, a.body \in Bodies
    PROVE  Truth(ResultOf(a), {"completed"})
<1>1. ResultOf(a) \in ErrorNames \cup {"data", "invalid_response",
                               "embedding_provider_unavailable"}
  BY ResultIsNamed DEF ErrorCodes, Bodies
<1> QED
  BY <1>1 DEF Truth, ErrorNames

\* What the handler catches is answered as the first thing that went wrong.
LEMMA CaughtIsTrue ==
    ASSUME NEW c \in Calls, ErrorIsTrue(timer[c] = "fired", error[c], happened[c])
    PROVE  Truth(ResultOf([status |-> StatusOf(Caught(c)), body |-> Caught(c)]),
                 happened[c])
<1>1. Caught(c) \in {"bff_timeout", "bff_forbidden_route", "bff_response_too_large",
                     "bff_backend_unavailable"}
  BY DEF Caught, Refusals
<1>2. ResultOf([status |-> StatusOf(Caught(c)), body |-> Caught(c)]) = Caught(c)
  BY <1>1 DEF ResultOf, StatusOf, ErrorCodes
<1>3. Truth(Caught(c), happened[c])
  BY DEF Caught, Aborted, Refusals, ErrorIsTrue, Truth
<1> QED
  BY <1>2, <1>3

-----------------------------------------------------------------------------
\* A step of c that changes no other call keeps the invariant if c stays sound.
LEMMA OneCall ==
    ASSUME NEW c \in Calls, Inv, SoundCall(c)',
           \A d \in Calls \ {c} : Untouched(d),
           OfCalls(client)', OfCalls(bff)', OfCalls(timer)', OfCalls(conn)',
           OfCalls(got)', OfCalls(error)', OfCalls(answer)', OfCalls(happened)'
    PROVE  Inv'
<1>1. ASSUME NEW d \in Calls PROVE SoundCall(d)'
  <2>1. CASE d = c
    BY <2>1
  <2>2. CASE d # c
    BY <2>2, UntouchedStaysSound DEF Inv
  <2> QED
    BY <2>1, <2>2
<1> QED
  BY <1>1 DEF Inv

\* Send: a refused request is answered without touching the backend.
LEMMA SendKeeps ==
    ASSUME NEW c \in Calls, NEW faults, Inv, Send(c, faults)
    PROVE  Inv'
<1>1. \A d \in Calls \ {c} : Untouched(d)
  BY DEF Send, Reply, Untouched, Inv, OfCalls
<1>2. /\ OfCalls(client)' /\ OfCalls(bff)' /\ OfCalls(timer)' /\ OfCalls(conn)'
      /\ OfCalls(got)' /\ OfCalls(error)' /\ OfCalls(answer)' /\ OfCalls(happened)'
  BY DEF Send, Reply, Inv, OfCalls
<1>3. /\ client[c] = "idle" /\ client'[c] = "waiting" /\ happened'[c] = happened[c]
      /\ got'[c] = got[c] /\ SoundCall(c)
  BY DEF Send, Inv, OfCalls
<1>4. bff[c] = "idle" /\ timer[c] = "off" /\ conn[c] # "open" /\ got[c] = 0 /\ happened[c] = {}
  BY <1>3 DEF SoundCall, Sound
<1>5. ASSUME faults # {} PROVE SoundCall(c)'
  <2>1. /\ bff'[c] = "answered" /\ timer'[c] = timer[c] /\ conn'[c] = conn[c]
        /\ answer'[c] = [status |-> Refusal(faults), body |-> "message"]
    BY <1>5 DEF Send, Reply, Inv, OfCalls
  <2>2. Truth(ResultOf(answer'[c]), happened'[c])
    BY <2>1, RefusalsAreTrue
  <2> QED
    BY <1>3, <1>4, <2>1, <2>2, LimitAssumption DEF SoundCall, Sound, Truth
<1>6. ASSUME faults = {} PROVE SoundCall(c)'
  <2>1. bff'[c] = "fetching" /\ timer'[c] = "armed" /\ conn'[c] = "open"
    BY <1>6 DEF Send, Inv, OfCalls
  <2> QED
    BY <1>3, <1>4, <2>1, LimitAssumption DEF SoundCall, Sound, Truth
<1>7. SoundCall(c)'
  BY <1>5, <1>6
<1> QED
  BY <1>1, <1>2, <1>7, OneCall

\* Headers: what is refused here is refused before a byte of it is read.
LEMMA HeadersKeep ==
    ASSUME NEW c \in Calls, NEW status \in Nat, NEW body \in Bodies, NEW declared \in Nat,
           Inv, Headers(c, status, body, declared)
    PROVE  Inv'
<1>1. ASSUME NEW d \in Calls \ {c} PROVE Untouched(d)
  <2>1. client'[d] = client[d] /\ got'[d] = got[d] /\ timer'[d] = timer[d]
    BY DEF Headers, BeginReading
  <2>2. answer'[d] = answer[d]
    BY DEF Headers, Inv, OfCalls
  <2>3. bff'[d] = bff[d] /\ conn'[d] = conn[d]
    BY DEF Headers, AbortAndRaise, Raise, BeginReading, Inv, OfCalls
  <2>4. error'[d] = error[d] /\ happened'[d] = happened[d]
    BY DEF Headers, AbortAndRaise, Raise, Note, Inv, OfCalls
  <2> QED
    BY <2>1, <2>2, <2>3, <2>4 DEF Untouched
<1>2. /\ OfCalls(client)' /\ OfCalls(bff)' /\ OfCalls(timer)' /\ OfCalls(conn)'
      /\ OfCalls(got)' /\ OfCalls(error)' /\ OfCalls(answer)' /\ OfCalls(happened)'
  <2>1. OfCalls(client)' /\ OfCalls(got)' /\ OfCalls(answer)' /\ OfCalls(timer)'
    BY DEF Headers, BeginReading, Inv, OfCalls
  <2>2. OfCalls(bff)' /\ OfCalls(conn)'
    BY DEF Headers, AbortAndRaise, Raise, BeginReading, Inv, OfCalls
  <2>3. OfCalls(error)' /\ OfCalls(happened)'
    BY DEF Headers, AbortAndRaise, Raise, Note, Inv, OfCalls
  <2> QED
    BY <2>1, <2>2, <2>3
<1>3. /\ bff[c] = "fetching" /\ client'[c] = client[c] /\ got'[c] = got[c]
      /\ timer'[c] = timer[c] /\ answer'[c] = [status |-> status, body |-> body]
      /\ SoundCall(c)
  BY DEF Headers, BeginReading, Inv, OfCalls
<1>4. /\ timer[c] = "armed" /\ conn[c] = "open" /\ happened[c] = {} /\ got[c] = 0
      /\ client[c] \in {"waiting", "cancelled"}
  BY <1>3 DEF SoundCall, Sound
<1>5. \/ /\ bff'[c] = "failing" /\ conn'[c] = "closed"
         /\ \/ error'[c] = "bff_forbidden_route" /\ happened'[c] = {"redirected"}
            \/ error'[c] = "bff_response_too_large" /\ happened'[c] = {"oversized"}
      \/ bff'[c] = "reading" /\ conn'[c] = "open" /\ happened'[c] = {}
  BY <1>4 DEF Headers, AbortAndRaise, Raise, BeginReading, Note, Inv, OfCalls
<1>6. SoundCall(c)'
  <2>1. Truth(client'[c], happened'[c])
    BY <1>3, <1>4 DEF Truth
  <2>2. CASE bff'[c] = "failing"
    <3>1. conn'[c] = "closed" /\ ErrorIsTrue(FALSE, error'[c], happened'[c])
      BY <1>5, <2>2 DEF ErrorIsTrue, Refusals
    <3> QED
      BY <1>3, <1>4, <2>1, <2>2, <3>1, LimitAssumption DEF SoundCall, Sound
  <2>3. CASE bff'[c] = "reading"
    BY <1>3, <1>4, <1>5, <2>1, <2>3, LimitAssumption DEF SoundCall, Sound
  <2> QED
    BY <1>5, <2>2, <2>3
<1> QED
  BY <1>1, <1>2, <1>6, OneCall

\* Chunk: the answer is given up at the first chunk over the limit.
LEMMA ChunkKeeps ==
    ASSUME NEW c \in Calls, Inv, Chunk(c)
    PROVE  Inv'
<1>1. \A d \in Calls \ {c} : Untouched(d)
  BY DEF Chunk, AbortAndRaise, Raise, Note, Untouched, Inv, OfCalls
<1>2. /\ OfCalls(client)' /\ OfCalls(bff)' /\ OfCalls(timer)' /\ OfCalls(conn)'
      /\ OfCalls(got)' /\ OfCalls(error)' /\ OfCalls(answer)' /\ OfCalls(happened)'
  BY DEF Chunk, AbortAndRaise, Raise, Note, Inv, OfCalls
<1>3. /\ bff[c] = "reading" /\ client'[c] = client[c] /\ got'[c] = got[c] + 1
      /\ timer'[c] = timer[c] /\ answer'[c] = answer[c] /\ SoundCall(c)
  BY DEF Chunk, Inv, OfCalls
<1>4. /\ timer[c] = "armed" /\ conn[c] = "open" /\ happened[c] = {}
      /\ got[c] \in Nat /\ got[c] <= Limit /\ answer[c].body \in Bodies
      /\ client[c] \in {"waiting", "cancelled"}
  BY <1>3 DEF SoundCall, Sound
<1>5. ASSUME got[c] = Limit PROVE SoundCall(c)'
  <2>1. /\ bff'[c] = "failing" /\ conn'[c] = "closed"
        /\ error'[c] = "bff_response_too_large" /\ happened'[c] = {"oversized"}
    BY <1>4, <1>5 DEF Chunk, AbortAndRaise, Raise, Note, Inv, OfCalls
  <2> QED
    BY <1>3, <1>4, <1>5, <2>1, LimitAssumption
    DEF SoundCall, Sound, Truth, ErrorIsTrue, Refusals
<1>6. ASSUME got[c] # Limit PROVE SoundCall(c)'
  <2>1. bff'[c] = "reading" /\ conn'[c] = "open" /\ happened'[c] = {}
    BY <1>3, <1>4, <1>6 DEF Chunk
  <2> QED
    BY <1>3, <1>4, <1>6, <2>1, LimitAssumption DEF SoundCall, Sound, Truth
<1>7. SoundCall(c)'
  BY <1>5, <1>6
<1> QED
  BY <1>1, <1>2, <1>7, OneCall

\* Complete: the answer is whole, and nothing was over the limit.
LEMMA CompleteKeeps ==
    ASSUME NEW c \in Calls, Inv, Complete(c)
    PROVE  Inv'
<1>1. \A d \in Calls \ {c} : Untouched(d)
  BY DEF Complete, Note, Untouched, Inv, OfCalls
<1>2. /\ OfCalls(client)' /\ OfCalls(bff)' /\ OfCalls(timer)' /\ OfCalls(conn)'
      /\ OfCalls(got)' /\ OfCalls(error)' /\ OfCalls(answer)' /\ OfCalls(happened)'
  BY DEF Complete, Note, Inv, OfCalls
<1>3. /\ bff[c] = "reading" /\ bff'[c] = "answered" /\ timer'[c] = "off"
      /\ conn'[c] = "closed" /\ client'[c] = client[c] /\ got'[c] = got[c]
      /\ answer'[c] = answer[c] /\ happened'[c] = happened[c] \cup {"completed"}
      /\ SoundCall(c)
  BY DEF Complete, Note, Inv, OfCalls
<1>4. /\ happened[c] = {} /\ got[c] \in Nat /\ got[c] <= Limit
      /\ answer[c].body \in Bodies /\ client[c] \in {"waiting", "cancelled"}
  BY <1>3 DEF SoundCall, Sound
<1>5. Truth(ResultOf(answer'[c]), happened'[c])
  BY <1>3, <1>4, CompleteAnswersAreTrue
<1>6. SoundCall(c)'
  BY <1>3, <1>4, <1>5, LimitAssumption DEF SoundCall, Sound, Truth
<1> QED
  BY <1>1, <1>2, <1>6, OneCall

\* Break: the backend fails before the time is up.
LEMMA BreakKeeps ==
    ASSUME NEW c \in Calls, Inv, Break(c)
    PROVE  Inv'
<1>1. \A d \in Calls \ {c} : Untouched(d)
  BY DEF Break, AbortAndRaise, Raise, Note, Untouched, Inv, OfCalls
<1>2. /\ OfCalls(client)' /\ OfCalls(bff)' /\ OfCalls(timer)' /\ OfCalls(conn)'
      /\ OfCalls(got)' /\ OfCalls(error)' /\ OfCalls(answer)' /\ OfCalls(happened)'
  BY DEF Break, AbortAndRaise, Raise, Note, Inv, OfCalls
<1>3. /\ bff[c] \in {"fetching", "reading"} /\ bff'[c] = "failing" /\ conn'[c] = "closed"
      /\ error'[c] = "broken" /\ client'[c] = client[c] /\ got'[c] = got[c]
      /\ timer'[c] = timer[c] /\ happened'[c] = happened[c] \cup {"broken"}
      /\ SoundCall(c)
  BY DEF Break, AbortAndRaise, Raise, Note, Inv, OfCalls
<1>4. /\ timer[c] = "armed" /\ happened[c] = {} /\ got[c] \in Nat /\ got[c] <= Limit + 1
      /\ client[c] \in {"waiting", "cancelled"}
  BY <1>3 DEF SoundCall, Sound
<1>5. SoundCall(c)'
  BY <1>3, <1>4 DEF SoundCall, Sound, Truth, ErrorIsTrue, Refusals
<1> QED
  BY <1>1, <1>2, <1>5, OneCall

\* TimerFires: in the exchange, or after it failed and before that is caught.
LEMMA TimerFiresKeeps ==
    ASSUME NEW c \in Calls, Inv, TimerFires(c)
    PROVE  Inv'
<1>1. \A d \in Calls \ {c} : Untouched(d)
  BY DEF TimerFires, AbortAndRaise, Raise, Note, Untouched, Inv, OfCalls
<1>2. /\ OfCalls(client)' /\ OfCalls(bff)' /\ OfCalls(timer)' /\ OfCalls(conn)'
      /\ OfCalls(got)' /\ OfCalls(error)' /\ OfCalls(answer)' /\ OfCalls(happened)'
  BY DEF TimerFires, AbortAndRaise, Raise, Note, Inv, OfCalls
<1>3. /\ timer[c] = "armed" /\ timer'[c] = "fired" /\ client'[c] = client[c]
      /\ got'[c] = got[c] /\ happened'[c] = happened[c] \cup {"timed out"}
      /\ SoundCall(c)
  BY DEF TimerFires, Note, Inv, OfCalls
<1>4. /\ bff[c] \in {"fetching", "reading", "failing"} /\ got[c] \in Nat /\ got[c] <= Limit + 1
      /\ client[c] \in {"waiting", "cancelled"}
  BY <1>3 DEF SoundCall, Sound
<1>5. ASSUME bff[c] \in {"fetching", "reading"} PROVE SoundCall(c)'
  <2>1. bff'[c] = "failing" /\ conn'[c] = "closed" /\ error'[c] = "aborted"
    BY <1>5 DEF TimerFires, AbortAndRaise, Raise, Inv, OfCalls
  <2>2. happened[c] = {}
    BY <1>3, <1>5 DEF SoundCall, Sound
  <2> QED
    BY <1>3, <1>4, <2>1, <2>2 DEF SoundCall, Sound, Truth, ErrorIsTrue, Refusals
<1>6. ASSUME bff[c] = "failing" PROVE SoundCall(c)'
  <2>1. bff'[c] = "failing" /\ conn'[c] = conn[c] /\ error'[c] = error[c]
    BY <1>6 DEF TimerFires
  <2>2. conn[c] = "closed" /\ ErrorIsTrue(FALSE, error[c], happened[c])
    BY <1>3, <1>6 DEF SoundCall, Sound
  <2>3. ErrorIsTrue(TRUE, error'[c], happened'[c])
    BY <1>3, <2>1, <2>2 DEF ErrorIsTrue
  <2> QED
    BY <1>3, <1>4, <2>1, <2>2, <2>3 DEF SoundCall, Sound, Truth
<1>7. SoundCall(c)'
  BY <1>4, <1>5, <1>6
<1> QED
  BY <1>1, <1>2, <1>7, OneCall

\* Catch: the answer names what went wrong first, and the timer is cleared.
LEMMA CatchKeeps ==
    ASSUME NEW c \in Calls, Inv, Catch(c)
    PROVE  Inv'
<1>1. \A d \in Calls \ {c} : Untouched(d)
  BY DEF Catch, Reply, Untouched, Inv, OfCalls
<1>2. /\ OfCalls(client)' /\ OfCalls(bff)' /\ OfCalls(timer)' /\ OfCalls(conn)'
      /\ OfCalls(got)' /\ OfCalls(error)' /\ OfCalls(answer)' /\ OfCalls(happened)'
  BY DEF Catch, Reply, Inv, OfCalls
<1>3. /\ bff[c] = "failing" /\ bff'[c] = "answered" /\ client'[c] = client[c]
      /\ conn'[c] = conn[c] /\ got'[c] = got[c] /\ happened'[c] = happened[c]
      /\ timer'[c] = IF timer[c] = "armed" THEN "off" ELSE timer[c]
      /\ answer'[c] = [status |-> StatusOf(Caught(c)), body |-> Caught(c)]
      /\ SoundCall(c)
  BY DEF Catch, Reply, Inv, OfCalls
<1>4. /\ timer[c] \in {"off", "armed", "fired"} /\ conn[c] = "closed"
      /\ got[c] \in Nat /\ got[c] <= Limit + 1 /\ client[c] \in {"waiting", "cancelled"}
      /\ ErrorIsTrue(timer[c] = "fired", error[c], happened[c])
  BY <1>3 DEF SoundCall, Sound
<1>5. Truth(ResultOf(answer'[c]), happened'[c])
  BY <1>3, <1>4, CaughtIsTrue
<1>6. SoundCall(c)'
  BY <1>3, <1>4, <1>5 DEF SoundCall, Sound, Truth
<1> QED
  BY <1>1, <1>2, <1>6, OneCall

\* Deliver: the browser shows what the answer says.
LEMMA DeliverKeeps ==
    ASSUME NEW c \in Calls, Inv, Deliver(c)
    PROVE  Inv'
<1>1. \A d \in Calls \ {c} : Untouched(d)
  BY DEF Deliver, Untouched, Inv, OfCalls
<1>2. /\ OfCalls(client)' /\ OfCalls(bff)' /\ OfCalls(timer)' /\ OfCalls(conn)'
      /\ OfCalls(got)' /\ OfCalls(error)' /\ OfCalls(answer)' /\ OfCalls(happened)'
  BY DEF Deliver, Inv, OfCalls
<1>3. /\ bff[c] = "answered" /\ client'[c] = ResultOf(answer[c])
      /\ bff'[c] = bff[c] /\ timer'[c] = timer[c] /\ conn'[c] = conn[c] /\ got'[c] = got[c]
      /\ error'[c] = error[c] /\ answer'[c] = answer[c] /\ happened'[c] = happened[c]
      /\ SoundCall(c)
  BY DEF Deliver, Inv, OfCalls
<1>4. Truth(client'[c], happened'[c]) /\ client'[c] # "idle"
  BY <1>3, ResultsAreResults DEF SoundCall, Sound
<1>5. SoundCall(c)'
  BY <1>3, <1>4 DEF SoundCall, Sound
<1> QED
  BY <1>1, <1>2, <1>5, OneCall

\* Cancel: the browser turns away, and the server goes on.
LEMMA CancelKeeps ==
    ASSUME NEW c \in Calls, Inv, Cancel(c)
    PROVE  Inv'
<1>1. \A d \in Calls \ {c} : Untouched(d)
  BY DEF Cancel, Untouched, Inv, OfCalls
<1>2. /\ OfCalls(client)' /\ OfCalls(bff)' /\ OfCalls(timer)' /\ OfCalls(conn)'
      /\ OfCalls(got)' /\ OfCalls(error)' /\ OfCalls(answer)' /\ OfCalls(happened)'
  BY DEF Cancel, Inv, OfCalls
<1>3. /\ client[c] = "waiting" /\ client'[c] = "cancelled"
      /\ bff'[c] = bff[c] /\ timer'[c] = timer[c] /\ conn'[c] = conn[c] /\ got'[c] = got[c]
      /\ error'[c] = error[c] /\ answer'[c] = answer[c] /\ happened'[c] = happened[c]
      /\ SoundCall(c)
  BY DEF Cancel, Inv, OfCalls
<1>4. SoundCall(c)'
  BY <1>3 DEF SoundCall, Sound, Truth
<1> QED
  BY <1>1, <1>2, <1>4, OneCall

\* Crash: the server forgets every call; what the browser shows stays true.
LEMMA CrashKeeps ==
    ASSUME Inv, Crash
    PROVE  Inv'
<1>1. /\ OfCalls(client)' /\ OfCalls(bff)' /\ OfCalls(timer)' /\ OfCalls(conn)'
      /\ OfCalls(got)' /\ OfCalls(error)' /\ OfCalls(answer)' /\ OfCalls(happened)'
  BY DEF Crash, Inv, OfCalls
<1>2. ASSUME NEW c \in Calls PROVE SoundCall(c)'
  <2>1. /\ client'[c] = IF client[c] = "waiting" THEN "network_error" ELSE client[c]
        /\ bff'[c] = "idle" /\ timer'[c] = "off" /\ got'[c] = 0
        /\ conn'[c] = IF conn[c] = "open" THEN "closed" ELSE conn[c]
        /\ happened'[c] = happened[c] /\ SoundCall(c)
    BY DEF Crash, Inv
  <2>2. Truth(client'[c], happened'[c])
    BY <2>1 DEF SoundCall, Sound, Truth
  <2>3. client'[c] = "idle" => happened'[c] = {}
    BY <2>1 DEF SoundCall, Sound
  <2>4. conn'[c] # "open"
    BY <2>1
  <2> QED
    BY <2>1, <2>2, <2>3, <2>4, LimitAssumption DEF SoundCall, Sound
<1> QED
  BY <1>1, <1>2 DEF Inv

-----------------------------------------------------------------------------
\* The invariant holds at the start.
LEMMA InitIsSound == Init => Inv
<1> SUFFICES ASSUME Init PROVE Inv
  OBVIOUS
<1>1. /\ OfCalls(client) /\ OfCalls(bff) /\ OfCalls(timer) /\ OfCalls(conn)
      /\ OfCalls(got) /\ OfCalls(error) /\ OfCalls(answer) /\ OfCalls(happened)
  BY DEF Init, OfCalls
<1>2. ASSUME NEW c \in Calls PROVE SoundCall(c)
  BY LimitAssumption DEF Init, SoundCall, Sound, Truth
<1> QED
  BY <1>1, <1>2 DEF Inv

\* The steps of one call.
CallStep(c) ==
    \/ \E faults \in FaultSets : Send(c, faults)
    \/ \E status \in Statuses, body \in Bodies, declared \in Lengths :
           Headers(c, status, body, declared)
    \/ Chunk(c) \/ Complete(c) \/ Break(c) \/ TimerFires(c) \/ Catch(c)
    \/ Deliver(c) \/ Cancel(c)

\* A step is the crash of the server or a step of one call.
LEMMA NextIsCallSteps == Next => Crash \/ \E c \in Calls : CallStep(c)
BY DEF Next, CallStep

\* Statuses and lengths are numbers.
LEMMA AnswersAreNumbered == Statuses \subseteq Nat /\ Lengths \subseteq Nat
<1>1. Statuses \subseteq Nat
  BY DEF Statuses
<1>2. Lengths \subseteq Nat
  BY LimitAssumption DEF Lengths
<1> QED
  BY <1>1, <1>2

\* Every step keeps the invariant.
LEMMA StepsKeep == Inv /\ [Next]_vars => Inv'
<1>1. ASSUME Inv, NEW c \in Calls, CallStep(c) PROVE Inv'
  <2>1. CASE \E faults \in FaultSets : Send(c, faults)
    BY <1>1, <2>1, SendKeeps
  <2>2. CASE \E status \in Statuses, body \in Bodies, declared \in Lengths :
                Headers(c, status, body, declared)
    <3>1. PICK status \in Statuses, body \in Bodies, declared \in Lengths :
                 Headers(c, status, body, declared)
      BY <2>2
    <3> QED
      BY <1>1, <3>1, HeadersKeep, AnswersAreNumbered
  <2>3. CASE Chunk(c) \/ Complete(c) \/ Break(c)
    BY <1>1, <2>3, ChunkKeeps, CompleteKeeps, BreakKeeps
  <2>4. CASE TimerFires(c) \/ Catch(c)
    BY <1>1, <2>4, TimerFiresKeeps, CatchKeeps
  <2>5. CASE Deliver(c) \/ Cancel(c)
    BY <1>1, <2>5, DeliverKeeps, CancelKeeps
  <2> QED
    BY <1>1, <2>1, <2>2, <2>3, <2>4, <2>5 DEF CallStep
<1>2. ASSUME Inv, Next PROVE Inv'
  BY <1>1, <1>2, NextIsCallSteps, CrashKeeps
<1>3. ASSUME Inv, UNCHANGED vars PROVE Inv'
  BY <1>3 DEF vars, Inv, OfCalls, SoundCall
<1> QED
  BY <1>2, <1>3

\* The invariant says that calls end well.
LEMMA SoundEndsWell == Inv => CallsEndWell
<1> SUFFICES ASSUME Inv PROVE CallsEndWell
  OBVIOUS
<1>1. ASSUME NEW c \in Calls PROVE SoundCall(c)
  BY DEF Inv
<1>2. ShownIsTrue
  BY <1>1 DEF ShownIsTrue, SoundCall, Sound, Truth
<1>3. AnsweredMeansReleased
  BY <1>1 DEF AnsweredMeansReleased, SoundCall, Sound
<1> QED
  BY <1>2, <1>3 DEF CallsEndWell

\* server.ts, api.ts: whatever the backend answers, whenever the timer fires and
\* the server crashes, the user is told what happened, an answered call holds no
\* exchange and no timer, and no more than the limit and a chunk was ever buffered.
THEOREM CallsAlwaysEndWell == Spec => []CallsEndWell
<1> QED
  BY InitIsSound, StepsKeep, SoundEndsWell, PTL DEF Spec

-----------------------------------------------------------------------------
(* The tree                                                                *)

\* Either the check of the roving focus is due, or the active item is shown; and
\* the item that had the focus last is the active one, or the focus is to move to
\* the active one.
TreeInv ==
    /\ prev \in Seq(Nodes)
    /\ ~scheduled /\ Items # << >> => active \in ToSet(Items)
    /\ lastFocused # NoNode => active # NoNode /\ (lastFocused = active \/ pending = active)
    /\ ~scheduled /\ Items # << >> /\ active # NoNode => pending # active

\* Every node is a path that is not empty.
LEMMA NodesArePaths ==
    ASSUME NEW n \in Nodes
    PROVE  /\ \E S : n \in Seq(S)
           /\ n # NoNode
<1>1. PICK S : Order \in Seq(Seq(S) \ {NoNode})
  BY TreeAssumption
<1>2. PICK k \in DOMAIN Order : n = Order[k]
  BY DEF Nodes, ToSet
<1>3. n \in Seq(S) \ {NoNode}
  BY <1>1, <1>2
<1>4. QED
  BY <1>3

\* The order of the page is a sequence of the nodes.
LEMMA OrderIsOfNodes == Order \in Seq(Nodes) /\ Len(Order) \in Nat /\ DOMAIN Order = 1 .. Len(Order)
<1>1. PICK S : Order \in Seq(S)
  BY TreeAssumption
<1>2. Len(Order) \in Nat /\ DOMAIN Order = 1 .. Len(Order)
  BY <1>1, LenProperties
<1>3. \A k \in 1 .. Len(Order) : Order[k] \in Nodes
  BY <1>2 DEF Nodes, ToSet
<1>4. Order = [k \in 1 .. Len(Order) |-> Order[k]]
  BY <1>1, <1>2, LenProperties
<1>5. QED
  BY <1>2, <1>3, <1>4, IsASeq

\* What stands in a sequence, and after one more.
LEMMA OneItemMore ==
    ASSUME NEW V, NEW p \in Seq(V), NEW b \in V
    PROVE  Append(p, b) \in Seq(V) /\ ToSet(Append(p, b)) = ToSet(p) \cup {b}
BY OneStepLonger

\* In order, nodes are a sequence of just these nodes.
LEMMA InOrderIsTheSet ==
    ASSUME NEW S \in SUBSET Nodes
    PROVE  InOrder(S) \in Seq(Nodes) /\ ToSet(InOrder(S)) = S
<1> DEFINE length == Len(Order)
           step(k, s) == IF Order[k] \in S THEN Append(s, Order[k]) ELSE s
           Solves(f) == f = [k \in 0 .. length |-> IF k = 0 THEN << >> ELSE step(k, f[k - 1])]
           Good(k, s) == s \in Seq(Nodes) /\ ToSet(s) = S \cap {Order[i] : i \in 1 .. k}
<1>0. length \in Nat /\ \A k \in 1 .. length : Order[k] \in Nodes
  BY OrderIsOfNodes
<1>1. PICK n \in Nat : n = length
  BY <1>0
<1>2. \E f : Solves(f)
  <2> DEFINE D == Seq(Nodes)
             G == [k \in Nat |-> [s \in D |-> IF k \in 1 .. n THEN step(k, s) ELSE s]]
  <2>1. << >> \in D
    BY EmptySeq
  <2>2. ASSUME NEW k \in Nat, NEW s \in D
        PROVE  (IF k \in 1 .. n THEN step(k, s) ELSE s) \in D
    <3>1. k \in 1 .. n => step(k, s) \in D
      BY <1>0, <1>1, OneItemMore
    <3>2. QED
      BY <3>1
  <2>3. G \in [Nat -> [D -> D]] /\ \A k \in 1 .. n : \A s \in D : G[k][s] = step(k, s)
    <3> HIDE DEF D, step
    <3>1. QED
      BY <2>2
  <2>4. PICK F \in [Nat -> D] : F[0] = << >> /\ \A k \in Nat : F[k + 1] = G[k + 1][F[k]]
    <3> HIDE DEF D, G
    <3>1. PICK start : start = << >>
      OBVIOUS
    <3>2. start \in D
      BY <2>1, <3>1
    <3>3. \E F \in [Nat -> D] : F[0] = start /\ \A k \in Nat : F[k + 1] = G[k + 1][F[k]]
      BY <2>3, <3>2, Counted, SMTT(60)
    <3>4. QED
      BY <3>1, <3>3
  <2>5. \A k \in 0 .. n : F[k] = IF k = 0 THEN << >> ELSE step(k, F[k - 1])
    <3> SUFFICES ASSUME NEW k \in 1 .. n
                 PROVE  F[k] = step(k, F[k - 1])
      <4> HIDE DEF step, G
      <4>1. QED
        BY <2>4
    <3>1. PICK j \in Nat : j = k - 1 /\ k = j + 1
      OBVIOUS
    <3>2. F[j + 1] = G[j + 1][F[j]] /\ F[j] \in D
      BY <2>4
    <3>3. F[j + 1] = step(j + 1, F[j])
      <4> HIDE DEF G, step, D
      <4>1. QED
        BY <2>3, <3>1, <3>2
    <3>4. QED
      BY <3>1, <3>3
  <2> DEFINE f == [k \in 0 .. n |-> F[k]]
  <2>6. \A k \in 0 .. n : f[k] = IF k = 0 THEN << >> ELSE step(k, f[k - 1])
    <3> HIDE DEF step
    <3>1. \A k \in 0 .. n : f[k] = F[k] /\ (k # 0 => k - 1 \in 0 .. n)
      OBVIOUS
    <3> HIDE DEF f
    <3>2. QED
      BY <2>5, <3>1
  <2>7. Solves(f)
    <3> HIDE DEF step
    <3>1. f = [k \in 0 .. n |-> IF k = 0 THEN << >> ELSE step(k, f[k - 1])]
      BY <2>6
    <3>2. QED
      BY <1>1, <3>1
  <2>8. QED
    BY <2>7
<1>3. PICK f : Solves(f) /\ InOrder(S) = f[n]
  <2>1. InOrder(S) = (CHOOSE f : Solves(f))[n]
    BY <1>1 DEF InOrder
  <2>2. Solves(CHOOSE f : Solves(f))
    <3> HIDE DEF Solves
    <3>1. QED
      BY <1>2
  <2> HIDE DEF Solves
  <2>3. QED
    BY <2>1, <2>2
<1>4. \A k \in 0 .. n : f[k] = IF k = 0 THEN << >> ELSE step(k, f[k - 1])
  <2> HIDE DEF step
  <2>1. QED
    BY <1>1, <1>3
<1>5. \A k \in Nat : k \in 0 .. n => Good(k, f[k])
  <2> DEFINE T == {k \in Nat : k \in 0 .. n => Good(k, f[k])}
  <2>1. 0 \in T
    <3>1. f[0] = << >>
      BY <1>4
    <3>2. << >> \in Seq(Nodes) /\ ToSet(<< >>) = {}
      BY EmptySeq DEF ToSet
    <3>3. S \cap {Order[i] : i \in 1 .. 0} = {}
      OBVIOUS
    <3>4. Good(0, f[0])
      BY <3>1, <3>2, <3>3
    <3> HIDE DEF Good
    <3>5. QED
      BY <3>4
  <2>2. ASSUME NEW k \in Nat, k \in T
        PROVE  k + 1 \in T
    <3> SUFFICES ASSUME k + 1 \in 0 .. n
                 PROVE  Good(k + 1, f[k + 1])
      OBVIOUS
    <3>1. Good(k, f[k]) /\ k \in 0 .. n /\ k + 1 # 0 /\ k + 1 \in 1 .. n /\ (k + 1) - 1 = k
      BY <2>2
    <3>2. f[k + 1] = step(k + 1, f[k])
      <4> HIDE DEF step
      <4>1. QED
        BY <1>4, <3>1
    <3>3. {Order[i] : i \in 1 .. k + 1} = {Order[i] : i \in 1 .. k} \cup {Order[k + 1]}
      OBVIOUS
    <3>4. PICK s : s = f[k]
      OBVIOUS
    <3>5. CASE Order[k + 1] \in S
      <4>1. Append(s, Order[k + 1]) \in Seq(Nodes) /\ ToSet(Append(s, Order[k + 1])) = ToSet(s) \cup {Order[k + 1]}
        BY <3>1, <3>4, <3>5, OneItemMore
      <4>2. f[k + 1] = Append(s, Order[k + 1])
        BY <3>2, <3>4, <3>5
      <4>3. ToSet(s) = S \cap {Order[i] : i \in 1 .. k}
        BY <3>1, <3>4
      <4>4. QED
        BY <3>3, <3>5, <4>1, <4>2, <4>3
    <3>6. CASE Order[k + 1] \notin S
      <4>1. f[k + 1] = f[k]
        BY <3>2, <3>6
      <4>2. QED
        BY <3>1, <3>3, <3>6, <4>1
    <3>7. QED
      BY <3>5, <3>6
  <2>3. Nat \subseteq T
    <3> HIDE DEF T
    <3>1. QED
      BY <2>1, <2>2, AllNumbers
  <2>4. QED
    BY <2>3
<1>6. Good(n, f[n])
  <2> HIDE DEF Good
  <2>1. QED
    BY <1>5
<1>7. {Order[i] : i \in 1 .. n} = Nodes
  BY <1>1, OrderIsOfNodes DEF Nodes, ToSet
<1>8. QED
  BY <1>3, <1>6, <1>7

\* The items are the nodes that are shown.
LEMMA ItemsAreShown ==
    /\ Items \in Seq(Nodes) /\ ToSet(Items) \subseteq Nodes
    /\ \A n \in Nodes : n \in ToSet(Items) <=> Visible(n)
<1> DEFINE S == {n \in Nodes : Shown(lists, expanded, n)}
<1>1. Items = InOrder(S) /\ S \in SUBSET Nodes
  BY DEF Items, Rendered
<1>2. Items \in Seq(Nodes) /\ ToSet(Items) = S
  BY <1>1, InOrderIsTheSet
<1>3. QED
  BY <1>2 DEF Visible

\* The first of the items, and every other, is one of them.
LEMMA ItemsStand ==
    ASSUME NEW V, NEW s \in Seq(V), s # << >>
    PROVE  /\ Len(s) \in Nat \ {0} /\ Head(s) = s[1]
           /\ \A k \in 1 .. Len(s) : s[k] \in ToSet(s)
<1>1. Len(s) \in Nat /\ DOMAIN s = 1 .. Len(s) /\ Len(s) # 0
  BY LenProperties, EmptySeq
<1>2. Head(s) = s[1]
  OBVIOUS
<1>3. QED
  BY <1>1, <1>2 DEF ToSet


\* The nodes above a node are the proper parts of its path from the project on.
LEMMA AncestorsAreParts ==
    ASSUME NEW n \in Nodes
    PROVE  /\ Len(n) \in Nat \ {0} /\ Parent(n) = SubSeq(n, 1, Len(n) - 1)
           /\ Ancestors(n) = {SubSeq(n, 1, k) : k \in 1 .. Len(n) - 1}
           /\ \A k \in 1 .. Len(n) : Len(SubSeq(n, 1, k)) = k
           /\ \A k \in 1 .. Len(n) : \A j \in 1 .. k : SubSeq(SubSeq(n, 1, k), 1, j) = SubSeq(n, 1, j)
<1>1. PICK S : n \in Seq(S) /\ n # << >>
  BY NodesArePaths DEF NoNode
<1>2. PICK m \in Nat \ {0} : m = Len(n) /\ DOMAIN n = 1 .. m /\ \A i \in 1 .. m : n[i] \in S
  <2>1. Len(n) \in Nat /\ DOMAIN n = 1 .. Len(n) /\ Len(n) # 0
    BY <1>1, LenProperties, EmptySeq
  <2>2. \A i \in 1 .. Len(n) : n[i] \in S
    BY <1>1, ElementOfSeq
  <2>3. QED
    BY <2>1, <2>2
<1>3. Parent(n) = SubSeq(n, 1, m - 1)
  BY <1>1, <1>2 DEF Parent, Front, NoNode
<1>4. \A k \in 0 .. m : /\ SubSeq(n, 1, k) \in Seq(S) /\ Len(SubSeq(n, 1, k)) = k
                        /\ \A i \in 1 .. k : SubSeq(n, 1, k)[i] = n[i]
  <2> SUFFICES ASSUME NEW k \in 0 .. m
               PROVE  /\ SubSeq(n, 1, k) \in Seq(S) /\ Len(SubSeq(n, 1, k)) = k
                      /\ \A i \in 1 .. k : SubSeq(n, 1, k)[i] = n[i]
    OBVIOUS
  <2>1. k \in Int /\ 1 \in Int /\ \A i \in 1 .. k : n[i] \in S
    BY <1>2
  <2>2. /\ SubSeq(n, 1, k) \in Seq(S)
        /\ Len(SubSeq(n, 1, k)) = IF 1 <= k THEN k - 1 + 1 ELSE 0
        /\ \A i \in 1 .. k - 1 + 1 : SubSeq(n, 1, k)[i] = n[1 + i - 1]
    BY <2>1, SubSeqProperties
  <2>3. k - 1 + 1 = k /\ \A i \in 1 .. k : 1 + i - 1 = i
    OBVIOUS
  <2>4. QED
    BY <2>2, <2>3
<1>5. ASSUME NEW k \in 0 .. m, NEW j \in 0 .. k
      PROVE  SubSeq(SubSeq(n, 1, k), 1, j) = SubSeq(n, 1, j)
  <2>1. PICK s : s = SubSeq(n, 1, k)
    OBVIOUS
  <2>2. s \in Seq(S) /\ Len(s) = k /\ (\A i \in 1 .. k : s[i] = n[i] /\ s[i] \in S)
    BY <1>2, <1>4, <2>1
  <2>3. PICK t : t = SubSeq(s, 1, j)
    OBVIOUS
  <2>4. /\ t \in Seq(S) /\ Len(t) = IF 1 <= j THEN j - 1 + 1 ELSE 0
        /\ \A i \in 1 .. j - 1 + 1 : t[i] = s[1 + i - 1]
    <3>1. j \in Int /\ 1 \in Int /\ \A i \in 1 .. j : s[i] \in S
      BY <2>2
    <3>2. QED
      BY <2>3, <3>1, SubSeqProperties
  <2>5. Len(t) = j /\ \A i \in 1 .. j : t[i] = n[i]
    <3>1. j - 1 + 1 = j /\ (\A i \in 1 .. j : 1 + i - 1 = i) /\ j \in 0 .. k /\ k \in Nat
      OBVIOUS
    <3>2. QED
      BY <2>2, <2>4, <3>1
  <2>6. PICK u : u = SubSeq(n, 1, j)
    OBVIOUS
  <2>7. u \in Seq(S) /\ Len(u) = j /\ \A i \in 1 .. j : u[i] = n[i]
    BY <1>4, <2>6
  <2>8. t = u
    BY <2>4, <2>5, <2>7, SeqEqual
  <2>9. QED
    BY <2>1, <2>3, <2>6, <2>8
<1>6. Ancestors(n) = {SubSeq(n, 1, k) : k \in 1 .. m - 1}
  <2>1. Len(Parent(n)) = m - 1
    BY <1>3, <1>4
  <2>2. Prefixes(Parent(n)) = {SubSeq(Parent(n), 1, k) : k \in 0 .. m - 1}
    BY <2>1 DEF Prefixes
  <2>3. \A k \in 0 .. m - 1 : SubSeq(Parent(n), 1, k) = SubSeq(n, 1, k)
    BY <1>3, <1>5
  <2>4. \A k \in 0 .. m - 1 : SubSeq(n, 1, k) = << >> <=> k = 0
    <3> SUFFICES ASSUME NEW k \in 0 .. m - 1
                 PROVE  SubSeq(n, 1, k) = << >> <=> k = 0
      OBVIOUS
    <3>1. SubSeq(n, 1, k) \in Seq(S) /\ Len(SubSeq(n, 1, k)) = k
      BY <1>4
    <3>2. QED
      BY <3>1, EmptySeq
  <2>5. Prefixes(Parent(n)) = {SubSeq(n, 1, k) : k \in 0 .. m - 1}
    BY <2>2, <2>3
  <2>6. QED
    BY <2>4, <2>5 DEF Ancestors, NoNode
<1>7. \A k \in 1 .. m : Len(SubSeq(n, 1, k)) = k
  BY <1>4
<1>8. \A k \in 1 .. m : \A j \in 1 .. k : SubSeq(SubSeq(n, 1, k), 1, j) = SubSeq(n, 1, j)
  BY <1>5
<1>9. QED
  BY <1>2, <1>3, <1>6, <1>7, <1>8

\* What is above a node above is above; and the list a node is in is the one of
\* the lowest node above, or the list of the projects.
LEMMA AboveIsAbove ==
    ASSUME NEW n \in Nodes
    PROVE  /\ \A l \in Ancestors(n) : l \in Nodes /\ Ancestors(l) \subseteq Ancestors(n)
           /\ Parent(n) = NoNode \/ Parent(n) \in Ancestors(n)
<1>1. PICK m \in Nat \ {0} : m = Len(n)
  BY AncestorsAreParts
<1>2. /\ Parent(n) = SubSeq(n, 1, m - 1) /\ Ancestors(n) = {SubSeq(n, 1, k) : k \in 1 .. m - 1}
      /\ \A k \in 1 .. m : Len(SubSeq(n, 1, k)) = k
      /\ \A k \in 1 .. m : \A j \in 1 .. k : SubSeq(SubSeq(n, 1, k), 1, j) = SubSeq(n, 1, j)
  BY <1>1, AncestorsAreParts
<1>3. ASSUME NEW l \in Ancestors(n)
      PROVE  l \in Nodes /\ Ancestors(l) \subseteq Ancestors(n)
  <2>1. l \in Nodes
    BY TreeAssumption
  <2>2. PICK k \in 1 .. m - 1 : l = SubSeq(n, 1, k)
    BY <1>2
  <2>3. k \in 1 .. m /\ Len(l) = k
    BY <1>2, <2>2
  <2>4. Ancestors(l) = {SubSeq(l, 1, j) : j \in 1 .. k - 1}
    BY <2>1, <2>3, AncestorsAreParts
  <2>5. \A j \in 1 .. k - 1 : SubSeq(l, 1, j) = SubSeq(n, 1, j) /\ j \in 1 .. m - 1
    BY <1>2, <2>2, <2>3
  <2>6. QED
    BY <1>2, <2>1, <2>4, <2>5
<1>4. Parent(n) = NoNode \/ Parent(n) \in Ancestors(n)
  <2>1. CASE m = 1
    <3>1. m - 1 < 1 /\ m - 1 \in Int /\ 1 \in Int
      BY <2>1
    <3>2. SubSeq(n, 1, m - 1) = << >>
      BY <3>1, SubSeqEmpty
    <3>3. QED
      BY <1>2, <3>2 DEF NoNode
  <2>2. CASE m # 1
    <3>1. m - 1 \in 1 .. m - 1
      BY <2>2
    <3>2. QED
      BY <1>2, <3>1
  <2>3. QED
    BY <2>1, <2>2
<1>5. QED
  BY <1>3, <1>4

\* A list nobody shows can be forgotten: the same nodes are shown.
LEMMA ForgettingHidesNothing ==
    ASSUME NEW l \in Branches, Forget(l)
    PROVE  Items' = Items
<1>1. PICK empty : empty = [state |-> "pending", items |-> {}]
  OBVIOUS
<1>2. empty.state = "pending"
  BY <1>1
<1>3. PICK L : L = [lists EXCEPT ![l] = empty]
  OBVIOUS
<1>4. lists' = L /\ expanded' = expanded /\ ~Mounted(l)
  BY <1>1, <1>3 DEF Forget
<1>5. \A a : /\ Listed(L, a) => Listed(lists, a)
             /\ Listed(lists, a) /\ Parent(a) # l => Listed(L, a)
  BY <1>2, <1>3 DEF Listed
<1>6. ASSUME NEW n \in Nodes
      PROVE  Shown(L, expanded, n) <=> Shown(lists, expanded, n)
  <2>1. Shown(L, expanded, n) => Shown(lists, expanded, n)
    BY <1>5 DEF Shown
  <2>2. ASSUME Shown(lists, expanded, n)
        PROVE  Shown(L, expanded, n)
    <3>1. l \notin Ancestors(n)
      <4> SUFFICES ASSUME l \in Ancestors(n)
                   PROVE  FALSE
        OBVIOUS
      <4>1. Ancestors(l) \subseteq Ancestors(n) /\ Ancestors(n) \subseteq Nodes
        BY AboveIsAbove
      <4>2. expanded[l] /\ Shown(lists, expanded, l)
        BY <2>2, <4>1 DEF Shown
      <4>3. QED
        BY <1>4, <4>2 DEF Mounted, Visible
    <3>2. l # NoNode
      BY <1>4 DEF Mounted
    <3>3. Parent(n) # l
      BY <3>1, <3>2, AboveIsAbove
    <3>4. ASSUME NEW a \in Ancestors(n)
          PROVE  Parent(a) # l
      <4>1. a \in Nodes /\ Ancestors(a) \subseteq Ancestors(n)
        BY AboveIsAbove
      <4>2. QED
        BY <3>1, <3>2, <4>1, AboveIsAbove
    <3>5. QED
      BY <1>5, <2>2, <3>3, <3>4 DEF Shown
  <2>3. QED
    BY <2>1, <2>2
<1>7. {n \in Nodes : Shown(L, expanded, n)} = {n \in Nodes : Shown(lists, expanded, n)}
  BY <1>6
<1>8. QED
  BY <1>4, <1>7 DEF Items, Rendered

\* The closest item is an item.
LEMMA ClosestIsAnItem ==
    ASSUME NEW now \in Seq(Nodes), now # << >>, NEW before \in Seq(Nodes), NEW n
    PROVE  Closest(now, before, n) \in ToSet(now)
<1> DEFINE above == Ancestors(n) \cap ToSet(now)
           place == CHOOSE k \in 1 .. Len(before) : before[k] = n
<1>1. Len(now) \in Nat \ {0} /\ \A k \in 1 .. Len(now) : now[k] \in ToSet(now)
  BY ItemsStand
<1>2. Len(before) \in Nat /\ DOMAIN before = 1 .. Len(before)
  BY LenProperties
<1>3. CASE n \notin ToSet(before)
  <2>1. Closest(now, before, n) = now[1]
    BY <1>3 DEF Closest
  <2>2. QED
    BY <1>1, <2>1
<1>4. CASE n \in ToSet(before)
  <2>1. n \in Nodes
    <3>1. PICK k \in DOMAIN before : n = before[k]
      BY <1>4 DEF ToSet
    <3>2. QED
      BY <1>2, <3>1, ElementOfSeq
  <2>2. PICK k \in 1 .. Len(before) : before[k] = n
    BY <1>2, <1>4 DEF ToSet
  <2>3. CASE above # {}
    <3>1. \E a \in above : \A b \in above : Len(b) <= Len(a)
      <4>1. PICK m \in Nat : m = Len(n)
        BY <2>1, AncestorsAreParts
      <4>2. \A a \in above : Len(a) \in 1 .. m
        <5> SUFFICES ASSUME NEW a \in above
                     PROVE  Len(a) \in 1 .. m
          OBVIOUS
        <5>0. a \in Ancestors(n) /\ Ancestors(n) = {SubSeq(n, 1, j) : j \in 1 .. m - 1}
          BY <2>1, <4>1, AncestorsAreParts
        <5>1. PICK j \in 1 .. m - 1 : a = SubSeq(n, 1, j)
          BY <5>0
        <5>2. Len(a) = j
          BY <2>1, <4>1, <5>1, AncestorsAreParts
        <5>3. QED
          BY <5>2
      <4> DEFINE T == {d \in Nat : \E a \in above : Len(a) + d = m}
      <4>3. T \in SUBSET Nat /\ T # {}
        <5>1. PICK a \in above : TRUE
          BY <2>3
        <5>2. PICK j \in 1 .. m : Len(a) = j
          BY <4>2
        <5>3. m - j \in Nat /\ j + (m - j) = m
          OBVIOUS
        <5>4. m - j \in T
          BY <5>2, <5>3
        <5>5. QED
          BY <5>4
      <4>4. PICK d \in T : \A e \in T : d <= e
        <5> HIDE DEF T
        <5>1. QED
          BY <4>3, LeastNumber
      <4>5. PICK a \in above : Len(a) + d = m
        BY <4>4
      <4>6. ASSUME NEW b \in above
            PROVE  Len(b) <= Len(a)
        <5>1. PICK i \in 1 .. m, j \in 1 .. m : Len(a) = i /\ Len(b) = j
          BY <4>2
        <5>2. m - j \in Nat /\ j + (m - j) = m
          OBVIOUS
        <5>3. m - j \in T
          BY <5>1, <5>2
        <5>4. d <= m - j /\ i + d = m /\ d \in Nat
          BY <4>4, <4>5, <5>1, <5>3
        <5>5. j <= i
          BY <5>2, <5>4
        <5>6. QED
          BY <5>1, <5>5
      <4>7. QED
        BY <4>6
    <3>2. Closest(now, before, n) = CHOOSE a \in above : \A b \in above : Len(b) <= Len(a)
      BY <1>4, <2>3 DEF Closest
    <3> HIDE DEF above
    <3>3. Closest(now, before, n) \in above
      BY <3>1, <3>2
    <3>4. QED
      BY <3>3 DEF above
  <2>4. CASE above = {}
    <3>1. PICK j \in 1 .. Len(before) : j = place
      BY <2>2
    <3>2. Closest(now, before, n) = now[IF j < Len(now) THEN j ELSE Len(now)]
      BY <1>4, <2>4, <3>1 DEF Closest
    <3>3. PICK m \in Nat \ {0} : m = Len(now)
      BY <1>1
    <3>4. j \in Nat \ {0}
      BY <1>2
    <3>5. (IF j < m THEN j ELSE m) \in 1 .. m
      BY <3>4
    <3>6. QED
      BY <1>1, <3>2, <3>3, <3>5
  <2>5. QED
    BY <2>3, <2>4
<1>5. QED
  BY <1>3, <1>4

\* The item that gets the focus is the active one.
LEMMA FocusedIsActive ==
    ASSUME NEW n \in Nodes, NodeFocused(n), prev' \in Seq(Nodes),
           scheduled' \/ Items' = << >> \/ n \in ToSet(Items')
    PROVE  TreeInv'
<1>1. active' = n /\ lastFocused' = n /\ pending' = NoNode /\ n # NoNode
  BY NodesArePaths DEF NodeFocused
<1>2. QED
  BY <1>1 DEF TreeInv

\* A step that leaves the focus alone, and is followed by the check.
LEMMA CheckIsDue ==
    ASSUME TreeInv, UNCHANGED <<active, lastFocused, pending, prev>>, scheduled'
    PROVE  TreeInv'
BY DEF TreeInv

\* The check of the roving focus keeps it with the active item.
LEMMA CheckKeepsTheFocus ==
    ASSUME TreeInv, Reconcile
    PROVE  TreeInv'
<1>1. Items \in Seq(Nodes) /\ ToSet(Items) \subseteq Nodes
  BY ItemsAreShown
<1>2. Items' = Items
  BY DEF Reconcile, Items
<1>3. PICK now : now = Items
  OBVIOUS
<1>4. \A n \in ToSet(now) : n # NoNode
  BY <1>1, <1>3, NodesArePaths
<1>5. now \in Seq(Nodes) /\ ToSet(now) \subseteq Nodes /\ Items = now /\ Items' = now
  BY <1>1, <1>2, <1>3
<1>6. prev \in Seq(Nodes)
  BY DEF TreeInv
<1>7. CASE NothingIsShown
  <2>1. now = << >> /\ UNCHANGED <<active, lastFocused, prev>>
        /\ pending' = IF active # NoNode /\ lastFocused = active THEN active ELSE pending
    BY <1>3, <1>7 DEF NothingIsShown
  <2>2. QED
    BY <1>5, <2>1 DEF TreeInv
<1>8. CASE ActiveIsShown
  <2>1. active \in ToSet(now) /\ prev' = now
    BY <1>3, <1>8 DEF ActiveIsShown
  <2>2. CASE pending = active
    <3>1. NodeFocused(active)
      BY <1>8, <2>2 DEF ActiveIsShown
    <3>2. PICK n \in Nodes : n = active
      BY <1>5, <2>1
    <3>3. NodeFocused(n) /\ n \in ToSet(Items') /\ prev' \in Seq(Nodes)
      BY <1>5, <2>1, <3>1, <3>2
    <3>4. QED
      BY <3>3, FocusedIsActive
  <2>3. CASE pending # active
    <3>1. UNCHANGED <<active, lastFocused, pending>>
      BY <1>8, <2>3 DEF ActiveIsShown
    <3>2. QED
      BY <1>5, <2>1, <2>3, <3>1 DEF TreeInv
  <2>4. QED
    BY <2>2, <2>3
<1>9. CASE NothingIsActive
  <2>1. /\ now # << >> /\ active = NoNode /\ prev' = now
        /\ active' = Head(now) /\ scheduled' = (active # Head(now))
        /\ UNCHANGED <<lastFocused, pending>>
    BY <1>3, <1>9 DEF NothingIsActive, Activate
  <2>2. PICK first \in ToSet(now) : first = Head(now)
    <3>1. Head(now) = now[1] /\ Len(now) \in Nat \ {0} /\ \A k \in 1 .. Len(now) : now[k] \in ToSet(now)
      BY <1>5, <2>1, ItemsStand
    <3>2. QED
      BY <3>1
  <2>3. scheduled'
    BY <1>4, <2>1, <2>2
  <2>4. lastFocused = NoNode
    BY <2>1 DEF TreeInv
  <2>5. QED
    BY <1>5, <2>1, <2>3, <2>4 DEF TreeInv
<1>10. CASE ActiveIsGone
  <2>1. PICK fallback : fallback = Closest(now, prev, active)
    OBVIOUS
  <2>2. /\ now # << >> /\ active # NoNode /\ active \notin ToSet(now) /\ prev' = now
        /\ active' = fallback /\ scheduled' = (active # fallback)
        /\ pending' = IF lastFocused = active \/ pending = active THEN fallback ELSE pending
        /\ lastFocused' = lastFocused
    BY <1>3, <1>10, <2>1 DEF ActiveIsGone, Activate, ShouldRestore
  <2>3. fallback \in ToSet(now)
    BY <1>5, <1>6, <2>1, <2>2, ClosestIsAnItem
  <2>4. fallback # NoNode /\ scheduled'
    BY <1>4, <2>2, <2>3
  <2>5. lastFocused # NoNode => pending' = fallback
    BY <2>2 DEF TreeInv
  <2>6. QED
    BY <1>5, <2>2, <2>4, <2>5 DEF TreeInv
<1>11. QED
  BY <1>7, <1>8, <1>9, <1>10 DEF Reconcile

\* The tree, step by step.
LEMMA TreeInvHolds == TreeSpec => []TreeInv
<1>1. TreeInit => TreeInv
  <2>1. << >> \in Seq(Nodes)
    BY EmptySeq
  <2>2. QED
    BY <2>1 DEF TreeInit, TreeInv
<1>2. ASSUME TreeInv, TreeNext
      PROVE  TreeInv'
  <2>1. prev \in Seq(Nodes)
    BY <1>2 DEF TreeInv
  <2>2. ASSUME NEW n \in Nodes, Toggle(n)
        PROVE  TreeInv'
    <3>1. NodeFocused(n) /\ scheduled' /\ prev' = prev
      BY <2>2 DEF Toggle, Commit
    <3>2. QED
      BY <2>1, <3>1, FocusedIsActive
  <2>3. ASSUME NEW n \in Nodes, FocusItem(n)
        PROVE  TreeInv'
    <3>1. NodeFocused(n) /\ prev' = prev /\ Visible(n) /\ UNCHANGED <<lists, expanded>>
      BY <2>3 DEF FocusItem
    <3>2. n \in ToSet(Items) /\ Items' = Items
      BY <3>1, ItemsAreShown DEF Items
    <3>3. QED
      BY <2>1, <3>1, <3>2, FocusedIsActive
  <2>4. ASSUME NEW l \in Branches, FocusButton(l)
        PROVE  TreeInv'
    <3>1. UNCHANGED <<lists, expanded, active, lastFocused, pending, prev, scheduled>>
      BY <2>4 DEF FocusButton
    <3>2. Items' = Items
      BY <3>1 DEF Items
    <3>3. QED
      BY <1>2, <3>1, <3>2 DEF TreeInv
  <2>5. ASSUME NEW l \in Branches, Arrives(l)
        PROVE  TreeInv'
    <3>1. UNCHANGED <<active, lastFocused, pending, prev>> /\ scheduled'
      BY <2>5 DEF Arrives, Commit
    <3>2. QED
      BY <1>2, <3>1, CheckIsDue
  <2>6. ASSUME NEW l \in Branches, Fails(l)
        PROVE  TreeInv'
    <3>1. UNCHANGED <<active, lastFocused, pending, prev>> /\ scheduled'
      BY <2>6 DEF Fails, Commit
    <3>2. QED
      BY <1>2, <3>1, CheckIsDue
  <2>7. ASSUME NEW l \in Branches, Forget(l)
        PROVE  TreeInv'
    <3>1. UNCHANGED <<active, lastFocused, pending, prev, scheduled>>
      BY <2>7 DEF Forget
    <3>2. Items' = Items
      BY <2>7, ForgettingHidesNothing
    <3>3. QED
      BY <1>2, <3>1, <3>2 DEF TreeInv
  <2>8. CASE Leave
    <3>1. /\ UNCHANGED <<lists, expanded, active, pending, prev, scheduled>>
          /\ lastFocused' \in {NoNode, lastFocused}
      BY <2>8 DEF Leave
    <3>2. Items' = Items
      BY <3>1 DEF Items
    <3>3. QED
      BY <1>2, <3>1, <3>2 DEF TreeInv
  <2>9. CASE Reconcile
    BY <1>2, <2>9, CheckKeepsTheFocus
  <2>10. QED
    BY <1>2, <2>2, <2>3, <2>4, <2>5, <2>6, <2>7, <2>8, <2>9 DEF TreeNext
<1>3. ASSUME TreeInv, UNCHANGED treeVars
      PROVE  TreeInv'
  <2>1. UNCHANGED <<lists, expanded, active, lastFocused, pending, prev, scheduled>>
    BY <1>3 DEF treeVars
  <2>2. Items' = Items
    BY <2>1 DEF Items
  <2>3. QED
    BY <1>3, <2>1, <2>2 DEF TreeInv
<1>4. QED
  BY <1>1, <1>2, <1>3, PTL DEF TreeSpec

\* The tree never drops out of the tab order, and the focus is never put back to
\* the start of the page, whatever is collapsed, reloaded or lost.
THEOREM TabstopIsKept == TreeSpec => []TreeKeepsItsTabstop
<1>1. TreeInv => TreeKeepsItsTabstop
  <2> SUFFICES ASSUME TreeInv
               PROVE  TreeKeepsItsTabstop
    OBVIOUS
  <2>1. ASSUME ~scheduled, Items # << >>
        PROVE  Cardinality({n \in ToSet(Items) : Tabstop(n)}) = 1
    <3>1. active \in ToSet(Items) /\ active # NoNode
      BY <2>1, ItemsAreShown, NodesArePaths DEF TreeInv
    <3>2. {n \in ToSet(Items) : Tabstop(n)} = {active}
      BY <3>1 DEF Tabstop
    <3>3. QED
      BY <3>2, FS_Singleton
  <2>2. FocusFollowsTheTabstop
    BY DEF TreeInv, FocusFollowsTheTabstop
  <2>3. QED
    BY <2>1, <2>2 DEF TreeKeepsItsTabstop, OneTabstop
<1>2. QED
  BY <1>1, TreeInvHolds, PTL

-----------------------------------------------------------------------------
(* The trace page                                                          *)

\* What is stored so far are edges of the order, and what the address asks for is
\* something that may be asked for.
ViewInv ==
    /\ graph \subseteq ToSet(EdgeOrder)
    /\ settings \in [direction : Directions, maxDepth : MaxDepths]

LEMMA ViewInvHolds == ViewSpec => []ViewInv
<1>1. ViewInit => ViewInv
  BY ViewAssumption DEF ViewInit, ViewInv, Directions
<1>2. ASSUME ViewInv, ViewNext
      PROVE  ViewInv'
  <2>1. /\ graph \subseteq ToSet(EdgeOrder)
        /\ settings \in [direction : Directions, maxDepth : MaxDepths]
    BY <1>2 DEF ViewInv
  <2>2. CASE Grow
    BY <2>1, <2>2 DEF Grow, ViewInv
  <2>3. CASE OpenTrace
    <3>1. PICK address : settings' = Parsed(address) /\ graph' = graph
      BY <2>3 DEF OpenTrace
    <3>2. "both" \in Directions /\ DefaultMaxDepth \in MaxDepths
      BY ViewAssumption DEF Directions
    <3>3. Parsed(address) \in [direction : Directions, maxDepth : MaxDepths]
      BY <3>2 DEF Parsed
    <3>4. QED
      BY <2>1, <3>1, <3>3 DEF ViewInv
  <2>4. CASE ChangeSettings
    BY <2>1, <2>4 DEF ChangeSettings, ViewInv
  <2>5. QED
    BY <1>2, <2>2, <2>3, <2>4 DEF ViewNext
<1>3. ASSUME ViewInv, UNCHANGED viewVars
      PROVE  ViewInv'
  BY <1>3 DEF ViewInv, viewVars
<1>4. QED
  BY <1>1, <1>2, <1>3, PTL DEF ViewSpec

\* The page is answered breadth first, whatever graph is stored, and whatever
\* direction and depth stand in the address.
THEOREM GraphsAreTracedBreadthFirst == ViewSpec => []TraceIsBreadthFirst
<1>1. ViewInv => TraceIsBreadthFirst
  <2> SUFFICES ASSUME ViewInv
               PROVE  TraceIsBreadthFirst
    OBVIOUS
  <2>1. PICK maxDepth \in Nat : maxDepth = settings.maxDepth
    BY ViewAssumption DEF ViewInv
  <2>2. Trace(graph, settings.direction, Root, maxDepth)
            = Reference(graph, settings.direction, Root, maxDepth)
    BY TracesAreBreadthFirst
  <2>3. QED
    BY <2>1, <2>2 DEF TraceIsBreadthFirst, TraceShown
<1>2. QED
  BY <1>1, ViewInvHolds, PTL

\* The edges of the order are between nodes of the order, and nodes have a rank.
LEMMA EdgesAreBetweenNodes ==
    /\ \A e \in ToSet(EdgeOrder) : e.from \in ToSet(NodeOrder) /\ e.to \in ToSet(NodeOrder)
    /\ Len(NodeOrder) \in Nat /\ Len(EdgeOrder) \in Nat /\ DOMAIN EdgeOrder = 1 .. Len(EdgeOrder)
    /\ \A id \in ToSet(NodeOrder) : Rank(id) \in 1 .. Len(NodeOrder) /\ NodeOrder[Rank(id)] = id
<1>1. /\ Len(NodeOrder) \in Nat /\ DOMAIN NodeOrder = 1 .. Len(NodeOrder)
      /\ Len(EdgeOrder) \in Nat /\ DOMAIN EdgeOrder = 1 .. Len(EdgeOrder)
  BY ViewAssumption, LenProperties
<1>2. \A k \in 1 .. Len(EdgeOrder) : EdgeOrder[k] \in [from : ToSet(NodeOrder), to : ToSet(NodeOrder)]
  BY ViewAssumption, ElementOfSeq
<1>3. \A e \in ToSet(EdgeOrder) : e \in [from : ToSet(NodeOrder), to : ToSet(NodeOrder)]
  BY <1>1, <1>2 DEF ToSet
<1>4. ASSUME NEW id \in ToSet(NodeOrder)
      PROVE  Rank(id) \in 1 .. Len(NodeOrder) /\ NodeOrder[Rank(id)] = id
  <2>1. \E k \in 1 .. Len(NodeOrder) : NodeOrder[k] = id
    BY <1>1, <1>4 DEF ToSet
  <2>2. QED
    BY <2>1 DEF Rank
<1>5. QED
  BY <1>1, <1>3, <1>4

\* The rows of a trace: every node once, of the stored ones, the root alone at
\* depth 0.
RowsOfATrace(nodes) ==
    /\ \A n \in nodes : n.id \in ToSet(NodeOrder) /\ n = DistanceRow(n.id, n.depth)
    /\ \A n, m \in nodes : n.id = m.id => n = m
    /\ \A n \in nodes : n.depth = 0 <=> n.id = Root
    /\ DistanceRow(Root, 0) \in nodes

LEMMA TraceRows ==
    ASSUME NEW edges \in SUBSET ToSet(EdgeOrder), NEW direction, NEW maxDepth \in Nat
    PROVE  RowsOfATrace(Trace(edges, direction, Root, maxDepth).nodes)
<1> DEFINE B(k) == Ball(edges, direction, Root, k)
           Far(b, d) == AtDistance(edges, direction, Root, b, d)
<1>1. PICK all : all = Depths(Walks(edges, direction, Root, maxDepth + 1))
  OBVIOUS
<1>2. PICK nodes : nodes = Trace(edges, direction, Root, maxDepth).nodes
  OBVIOUS
<1>3. nodes = {n \in all : n.depth <= maxDepth}
  <2>1. Trace(edges, direction, Root, maxDepth)
            = [nodes     |-> {n \in all : n.depth <= maxDepth},
               truncated |-> \E n \in all : n.depth > maxDepth]
    BY <1>1 DEF Trace
  <2>2. QED
    BY <1>2, <2>1
<1>4. maxDepth + 1 \in Nat
  OBVIOUS
<1>5. \A n : n \in all <=> \E d \in 0 .. (maxDepth + 1) : \E b : Far(b, d) /\ n = DistanceRow(b, d)
  BY <1>1, <1>4, DepthsAreDistances
<1>6. \A b, d : DistanceRow(b, d).id = b /\ DistanceRow(b, d).depth = d
  BY DEF DistanceRow
<1>7. \A b : \A d, k \in Nat : Far(b, d) /\ b \in B(k) => d <= k
  BY DistancesAreLeast
<1>8. \A b : \A d \in Nat : Far(b, d) => b \in B(d)
  BY DEF AtDistance
<1>9. B(0) = {Root} /\ \A k \in Nat : B(k + 1) = B(k) \cup Around(edges, direction, B(k))
  BY BallsGrow
<1>10. \A k \in Nat : B(k) \subseteq ToSet(NodeOrder)
  <2> DEFINE T == {k \in Nat : B(k) \subseteq ToSet(NodeOrder)}
  <2>1. Root \in ToSet(NodeOrder) /\ Ends(edges) \subseteq ToSet(NodeOrder)
    BY ViewAssumption, EdgesAreBetweenNodes DEF Ends
  <2>2. 0 \in T
    BY <1>9, <2>1
  <2>3. \A k \in Nat : k \in T => k + 1 \in T
    BY <1>9, <2>1 DEF Around
  <2>4. Nat \subseteq T
    <3> HIDE DEF T
    <3>1. QED
      BY <2>2, <2>3, AllNumbers
  <2>5. QED
    BY <2>4
<1> HIDE DEF B, Far
<1>11. ASSUME NEW n \in nodes
       PROVE  /\ n.depth \in Nat /\ Far(n.id, n.depth) /\ n = DistanceRow(n.id, n.depth)
              /\ n.id \in ToSet(NodeOrder)
  <2>0. PICK d \in 0 .. (maxDepth + 1) : \E b : Far(b, d) /\ n = DistanceRow(b, d)
    BY <1>3, <1>5
  <2>1. PICK b : Far(b, d) /\ n = DistanceRow(b, d)
    BY <2>0
  <2>2. n.id = b /\ n.depth = d
    BY <1>6, <2>1
  <2>3. QED
    BY <1>8, <1>10, <2>1, <2>2
<1>12. ASSUME NEW n \in nodes, NEW m \in nodes, n.id = m.id
       PROVE  n = m
  <2>1. n.depth \in Nat /\ m.depth \in Nat /\ n.depth <= m.depth /\ m.depth <= n.depth
    BY <1>7, <1>8, <1>11, <1>12
  <2>2. n.depth = m.depth
    BY <2>1
  <2>3. QED
    BY <1>11, <1>12, <2>2
<1>13. ASSUME NEW n \in nodes
       PROVE  n.depth = 0 <=> n.id = Root
  <2>1. n.depth = 0 => n.id = Root
    BY <1>8, <1>9, <1>11
  <2>2. n.id = Root => n.depth <= 0 /\ n.depth \in Nat
    BY <1>7, <1>9, <1>11
  <2>3. QED
    BY <2>1, <2>2
<1>14. DistanceRow(Root, 0) \in nodes
  <2>1. Far(Root, 0)
    BY <1>9 DEF AtDistance, B, Far
  <2>2. 0 \in 0 .. (maxDepth + 1) /\ 0 <= maxDepth
    OBVIOUS
  <2>3. DistanceRow(Root, 0) \in all
    BY <1>5, <2>1, <2>2
  <2>4. QED
    BY <1>3, <1>6, <2>2, <2>3
<1>15. RowsOfATrace(nodes)
  BY <1>11, <1>12, <1>13, <1>14 DEF RowsOfATrace
<1>16. QED
  BY <1>2, <1>15

\* The page puts back the root the answer leaves out.
LEMMA EntriesAreTheTrace ==
    ASSUME NEW nodes, RowsOfATrace(nodes), NEW answered \in {nodes, {n \in nodes : n.id # Root}}
    PROVE  Entries(answered, Root) = nodes
<1>1. PICK row \in nodes : row = [id |-> Root, depth |-> 0] /\ row.id = Root
  <2>1. DistanceRow(Root, 0) = [id |-> Root, depth |-> 0]
    BY DEF DistanceRow
  <2>2. QED
    BY <2>1 DEF RowsOfATrace
<1>2. \A n \in nodes : n.id = Root => n = row
  BY <1>1 DEF RowsOfATrace
<1>3. CASE answered = nodes
  BY <1>1, <1>3 DEF Entries
<1>4. CASE answered = {n \in nodes : n.id # Root}
  <2>1. Entries(answered, Root) = answered \cup {row}
    BY <1>1, <1>4 DEF Entries
  <2>2. QED
    BY <1>1, <1>2, <1>4, <2>1
<1>5. QED
  BY <1>3, <1>4

\* No two nodes stand at one place.
LEMMA EveryNodeHasItsPlace ==
    ASSUME NEW nodes, RowsOfATrace(nodes)
    PROVE  PlacesAreApart(nodes)
<1>1. \A n \in nodes : n.id \in ToSet(NodeOrder)
  BY DEF RowsOfATrace
<1>2. PICK last \in Nat : last = Len(NodeOrder)
  BY EdgesAreBetweenNodes
<1>3. \A n \in nodes : Rank(n.id) \in 1 .. last /\ NodeOrder[Rank(n.id)] = n.id
  BY <1>1, <1>2, EdgesAreBetweenNodes
<1>4. \A n, m \in nodes : Rank(n.id) = Rank(m.id) => n = m
  BY <1>3 DEF RowsOfATrace
<1>5. IsFiniteSet(nodes)
  <2> DEFINE f == [n \in nodes |-> Rank(n.id)]
  <2>1. f \in [nodes -> 1 .. last]
    BY <1>3
  <2>2. \A n, m \in nodes : f[n] = f[m] => n = m
    BY <1>4
  <2>3. f \in Injection(nodes, 1 .. last)
    <3> HIDE DEF f
    <3>1. QED
      BY <2>1, <2>2 DEF Injection, IsInjective
  <2>4. IsFiniteSet(1 .. last)
    BY FS_Interval
  <2> HIDE DEF f
  <2>5. QED
    BY <2>3, <2>4, FS_Injection
<1> DEFINE Above(n) == {m \in nodes : m.depth = n.depth /\ Rank(m.id) < Rank(n.id)}
<1>6. ASSUME NEW n \in nodes, NEW m \in nodes, n.depth = m.depth, Rank(n.id) < Rank(m.id)
      PROVE  Cardinality(Above(n)) # Cardinality(Above(m))
  <2>1. PICK i \in 1 .. last, j \in 1 .. last : i = Rank(n.id) /\ j = Rank(m.id)
    BY <1>3
  <2>2. n \in Above(m) /\ n \notin Above(n)
    BY <1>6, <2>1
  <2>3. Above(n) \subseteq Above(m)
    <3> SUFFICES ASSUME NEW p \in Above(n)
                 PROVE  p \in Above(m)
      OBVIOUS
    <3>1. p \in nodes /\ p.depth = n.depth /\ Rank(p.id) < Rank(n.id)
      OBVIOUS
    <3>2. PICK h \in 1 .. last : h = Rank(p.id)
      BY <1>3, <3>1
    <3>3. h < j
      BY <1>6, <2>1, <3>1, <3>2
    <3>4. QED
      BY <1>6, <2>1, <3>1, <3>2, <3>3
  <2>4. IsFiniteSet(Above(m))
    BY <1>5, FS_Subset
  <2> HIDE DEF Above
  <2>5. QED
    BY <2>2, <2>3, <2>4, FS_Subset
<1>7. ASSUME NEW n \in nodes, NEW m \in nodes, n.id # m.id
      PROVE  Position(nodes, n) # Position(nodes, m)
  <2>1. \A p : Position(nodes, p).x = p.depth /\ Position(nodes, p).y = Cardinality(Above(p))
    BY DEF Position, Column, Row
  <2>2. Rank(n.id) # Rank(m.id)
    BY <1>4, <1>7
  <2>3. Rank(n.id) < Rank(m.id) \/ Rank(m.id) < Rank(n.id)
    <3>1. PICK i \in 1 .. last, j \in 1 .. last : i = Rank(n.id) /\ j = Rank(m.id)
      BY <1>3
    <3>2. i < j \/ j < i
      BY <2>2, <3>1
    <3>3. QED
      BY <3>1, <3>2
  <2> HIDE DEF Above
  <2>4. QED
    BY <1>6, <2>1, <2>3
<1>8. {n.id : n \in {n \in nodes : Column(n) = 0}} = {Root}
  <2>1. PICK row \in nodes : row.id = Root
    BY DEF RowsOfATrace, DistanceRow
  <2>2. \A n \in nodes : Column(n) = 0 <=> n.id = Root
    BY DEF RowsOfATrace, Column
  <2>3. QED
    BY <2>1, <2>2
<1>9. QED
  BY <1>7, <1>8 DEF PlacesAreApart

\* The rank of a node after the first k edges: primary if a drawn edge of the
\* lineage is among them, and what it started with if nothing is drawn.
MarkedSoFar(nodes, drawn, k, level) ==
    LET ids == {n.id : n \in nodes}
        sofar == {e \in drawn \cap Primary : \E i \in 1 .. k : EdgeOrder[i] = e}
    IN /\ level \in [ids -> {"unrelated", "secondary", "primary"}]
       /\ {id \in ids : level[id] = "primary"} = UNION {{e.from, e.to} : e \in sofar}
       /\ drawn = {} => \A id \in ids : level[id] = "unrelated"

\* One edge more, drawn or not.
Marked(drawn, levels, e) ==
    IF e \in drawn
    THEN [id \in DOMAIN levels |->
             IF id \in {e.from, e.to} THEN Raised(levels[id], Hierarchy(e)) ELSE levels[id]]
    ELSE levels

LEMMA OneEdgeMarks ==
    ASSUME NEW nodes, NEW sent, NEW k \in Nat, NEW level,
           MarkedSoFar(nodes, Drawn(sent, nodes), k, level)
    PROVE  MarkedSoFar(nodes, Drawn(sent, nodes), k + 1, Marked(Drawn(sent, nodes), level, EdgeOrder[k + 1]))
<1>1. PICK drawn, ids, e : drawn = Drawn(sent, nodes) /\ ids = {n.id : n \in nodes} /\ e = EdgeOrder[k + 1]
  OBVIOUS
<1>2. \A d \in drawn : d.from \in ids /\ d.to \in ids
  BY <1>1 DEF Drawn
<1> DEFINE sofar(j) == {d \in drawn \cap Primary : \E i \in 1 .. j : EdgeOrder[i] = d}
           values == {"unrelated", "secondary", "primary"}
<1>3. /\ level \in [ids -> values]
      /\ {id \in ids : level[id] = "primary"} = UNION {{d.from, d.to} : d \in sofar(k)}
      /\ drawn = {} => \A id \in ids : level[id] = "unrelated"
  BY <1>1 DEF MarkedSoFar
<1>4. PICK next : next = Marked(drawn, level, e)
  OBVIOUS
<1>5. sofar(k + 1) = sofar(k) \cup (IF e \in drawn \cap Primary THEN {e} ELSE {})
  <2>1. \A i : i \in 1 .. k + 1 <=> i \in 1 .. k \/ i = k + 1
    OBVIOUS
  <2>2. \A d : (\E i \in 1 .. k + 1 : EdgeOrder[i] = d) <=> (\E i \in 1 .. k : EdgeOrder[i] = d) \/ d = e
    BY <1>1, <2>1
  <2>3. QED
    BY <2>2
<1>6. /\ next \in [ids -> values]
      /\ {id \in ids : next[id] = "primary"} = UNION {{d.from, d.to} : d \in sofar(k + 1)}
  <2>1. CASE e \notin drawn
    <3>1. next = level
      BY <1>4, <2>1 DEF Marked
    <3>2. sofar(k + 1) = sofar(k)
      BY <1>5, <2>1
    <3> HIDE DEF sofar
    <3>3. QED
      BY <1>3, <3>1, <3>2
  <2>2. CASE e \in drawn
    <3>1. next = [id \in ids |-> IF id \in {e.from, e.to} THEN Raised(level[id], Hierarchy(e)) ELSE level[id]]
      BY <1>3, <1>4, <2>2 DEF Marked
    <3>2. CASE e \in Primary
      <4>1. next = [id \in ids |-> IF id \in {e.from, e.to} THEN "primary" ELSE level[id]]
        BY <3>1, <3>2 DEF Raised, Hierarchy
      <4>2. sofar(k + 1) = sofar(k) \cup {e}
        BY <1>5, <2>2, <3>2
      <4>3. UNION {{d.from, d.to} : d \in sofar(k + 1)} = (UNION {{d.from, d.to} : d \in sofar(k)}) \cup {e.from, e.to}
        <5> HIDE DEF sofar
        <5>1. QED
          BY <4>2
      <4>4. {id \in ids : next[id] = "primary"} = {id \in ids : level[id] = "primary"} \cup {e.from, e.to}
        BY <1>2, <2>2, <4>1
      <4>5. next \in [ids -> values]
        BY <1>3, <4>1
      <4> HIDE DEF sofar
      <4>6. QED
        BY <1>3, <4>3, <4>4, <4>5
    <3>3. CASE e \notin Primary
      <4>1. \A id \in ids : next[id] = level[id] \/ (level[id] # "primary" /\ next[id] = "secondary")
        BY <3>1, <3>3 DEF Raised, Hierarchy
      <4>2. sofar(k + 1) = sofar(k)
        BY <1>5, <3>3
      <4>3. next \in [ids -> values]
        BY <1>3, <3>1, <4>1
      <4>4. {id \in ids : next[id] = "primary"} = {id \in ids : level[id] = "primary"}
        BY <4>1
      <4> HIDE DEF sofar
      <4>5. QED
        BY <1>3, <4>2, <4>3, <4>4
    <3>4. QED
      BY <3>2, <3>3
  <2>3. QED
    BY <2>1, <2>2
<1>7. drawn = {} => \A id \in ids : next[id] = "unrelated"
  BY <1>3, <1>4 DEF Marked
<1>8. MarkedSoFar(nodes, drawn, k + 1, next)
  BY <1>1, <1>6, <1>7 DEF MarkedSoFar
<1>9. QED
  BY <1>1, <1>4, <1>8

\* The ranks the page gives are those after all edges.
LEMMA HierarchyIsMarked ==
    ASSUME NEW nodes, NEW sent
    PROVE  MarkedSoFar(nodes, Drawn(sent, nodes), Len(EdgeOrder), NodeHierarchy(sent, nodes))
<1>1. PICK n \in Nat : n = Len(EdgeOrder)
  BY EdgesAreBetweenNodes
<1>2. PICK drawn, start : drawn = Drawn(sent, nodes) /\ start = [id \in {m.id : m \in nodes} |-> "unrelated"]
  OBVIOUS
<1> DEFINE Solves(f) == f = [k \in 0 .. n |-> IF k = 0 THEN start ELSE Marked(drawn, f[k - 1], EdgeOrder[k])]
           Good(k, level) == MarkedSoFar(nodes, drawn, k, level)
<1>3. Good(0, start)
  <2>1. \A e : ~ \E i \in 1 .. 0 : EdgeOrder[i] = e
    OBVIOUS
  <2>2. UNION {{e.from, e.to} : e \in {e \in drawn \cap Primary : \E i \in 1 .. 0 : EdgeOrder[i] = e}} = {}
    BY <2>1
  <2>3. {id \in {m.id : m \in nodes} : start[id] = "primary"} = {}
    BY <1>2
  <2>4. QED
    BY <1>2, <2>2, <2>3 DEF MarkedSoFar
<1>4. ASSUME NEW k \in Nat, NEW level, Good(k, level)
      PROVE  Good(k + 1, Marked(drawn, level, EdgeOrder[k + 1]))
  BY <1>2, <1>4, OneEdgeMarks
<1>5. \E f : Solves(f)
  <2> DEFINE D == [{m.id : m \in nodes} -> {"unrelated", "secondary", "primary"}]
             G == [k \in Nat |-> [level \in D |-> Marked(drawn, level, EdgeOrder[k])]]
  <2>1. start \in D
    BY <1>2
  <2>2. ASSUME NEW level \in D, NEW e
        PROVE  Marked(drawn, level, e) \in D
    BY DEF Marked, Raised, Hierarchy
  <2>3. G \in [Nat -> [D -> D]] /\ \A k \in Nat : \A level \in D : G[k][level] = Marked(drawn, level, EdgeOrder[k])
    <3> HIDE DEF D
    <3>1. QED
      BY <2>2
  <2>4. PICK F \in [Nat -> D] : F[0] = start /\ \A k \in Nat : F[k + 1] = G[k + 1][F[k]]
    <3> HIDE DEF D, G
    <3>1. G \in [Nat -> [D -> D]]
      BY <2>3
    <3>2. QED
      BY <2>1, <3>1, Counted, SMTT(60)
  <2>5. \A k \in 0 .. n : F[k] = IF k = 0 THEN start ELSE Marked(drawn, F[k - 1], EdgeOrder[k])
    <3> SUFFICES ASSUME NEW k \in 1 .. n
                 PROVE  F[k] = Marked(drawn, F[k - 1], EdgeOrder[k])
      BY <2>4
    <3>1. PICK j \in Nat : j = k - 1 /\ k = j + 1
      OBVIOUS
    <3>2. F[j + 1] = G[j + 1][F[j]] /\ F[j] \in D
      BY <2>4
    <3> HIDE DEF G, D
    <3>3. QED
      BY <2>3, <3>1, <3>2
  <2> DEFINE f == [k \in 0 .. n |-> F[k]]
  <2>6. \A k \in 0 .. n : f[k] = F[k] /\ (k # 0 => k - 1 \in 0 .. n)
    OBVIOUS
  <2>7. \A k \in 0 .. n : f[k] = IF k = 0 THEN start ELSE Marked(drawn, f[k - 1], EdgeOrder[k])
    <3> HIDE DEF f
    <3>1. QED
      BY <2>5, <2>6
  <2>8. Solves(f)
    BY <2>7
  <2>9. QED
    BY <2>8
<1>6. PICK f : Solves(f) /\ NodeHierarchy(sent, nodes) = f[n]
  <2>1. NodeHierarchy(sent, nodes) = (CHOOSE f : Solves(f))[n]
    BY <1>1, <1>2 DEF NodeHierarchy, Marked
  <2> HIDE DEF Solves
  <2>2. Solves(CHOOSE f : Solves(f))
    BY <1>5
  <2>3. QED
    BY <2>1, <2>2
<1>7. \A k \in 0 .. n : f[k] = IF k = 0 THEN start ELSE Marked(drawn, f[k - 1], EdgeOrder[k])
  BY <1>6
<1> DEFINE T == {k \in Nat : k \in 0 .. n => Good(k, f[k])}
<1> HIDE DEF Good
<1>8. 0 \in T
  BY <1>3, <1>7
<1>9. ASSUME NEW k \in Nat, k \in T
      PROVE  k + 1 \in T
  <2> SUFFICES ASSUME k + 1 \in 0 .. n
               PROVE  Good(k + 1, f[k + 1])
    OBVIOUS
  <2>1. k \in 0 .. n /\ k + 1 # 0 /\ (k + 1) - 1 = k
    OBVIOUS
  <2>2. f[k + 1] = Marked(drawn, f[k], EdgeOrder[k + 1])
    BY <1>7, <2>1
  <2>3. Good(k, f[k])
    BY <1>9, <2>1
  <2>4. QED
    BY <1>4, <2>2, <2>3
<1>10. Nat \subseteq T
  <2> HIDE DEF T
  <2>1. QED
    BY <1>8, <1>9, AllNumbers
<1>11. Good(n, f[n])
  BY <1>10
<1>12. QED
  BY <1>1, <1>2, <1>6, <1>11 DEF Good

\* A task tells of its completion exactly when lineage is drawn to it.
LEMMA LineageIsMarkedAsDrawn ==
    ASSUME NEW nodes, NEW sent \in SUBSET ToSet(EdgeOrder)
    PROVE  LineageIsMarked(sent, nodes)
<1>1. PICK drawn, level : drawn = Drawn(sent, nodes) /\ level = NodeHierarchy(sent, nodes)
  OBVIOUS
<1>2. PICK n \in Nat : n = Len(EdgeOrder) /\ DOMAIN EdgeOrder = 1 .. n
  BY EdgesAreBetweenNodes
<1>3. MarkedSoFar(nodes, drawn, n, level)
  BY <1>1, <1>2, HierarchyIsMarked
<1>4. {e \in drawn \cap Primary : \E i \in 1 .. n : EdgeOrder[i] = e} = drawn \cap Primary
  BY <1>1, <1>2 DEF Drawn, ToSet
<1>5. DOMAIN level = {m.id : m \in nodes}
  BY <1>3 DEF MarkedSoFar
<1>6. {id \in DOMAIN level : level[id] = "primary"} = UNION {{e.from, e.to} : e \in drawn \cap Primary}
  BY <1>3, <1>4, <1>5 DEF MarkedSoFar
<1>7. drawn = {} => \A id \in DOMAIN level : level[id] = "unrelated"
  BY <1>3, <1>5 DEF MarkedSoFar
<1>8. QED
  BY <1>1, <1>6, <1>7 DEF LineageIsMarked, LineageNodes, IsEmpty

\* Whatever a trace answers, the page shows every node at a place of its own and
\* marks the lineage that is drawn.
THEOREM TracesAreShownWhole == ViewSpec => []ViewIsTheTrace
<1>1. ViewInv => ViewIsTheTrace
  <2> SUFFICES ASSUME ViewInv
               PROVE  ViewIsTheTrace
    OBVIOUS
  <2>1. PICK nodes, among : nodes = TraceShown.nodes /\ among = EdgesAmong(graph, {n.id : n \in nodes})
    OBVIOUS
  <2>2. graph \in SUBSET ToSet(EdgeOrder) /\ settings.maxDepth \in Nat
    BY ViewAssumption DEF ViewInv
  <2>3. RowsOfATrace(nodes)
    BY <2>1, <2>2, TraceRows DEF TraceShown
  <2>4. \A answered \in {nodes, {n \in nodes : n.id # Root}} : Entries(answered, Root) = nodes
    BY <2>3, EntriesAreTheTrace
  <2>5. PlacesAreApart(nodes)
    BY <2>3, EveryNodeHasItsPlace
  <2>6. \A sent \in {graph, among} : LineageIsMarked(sent, nodes)
    <3>1. among \subseteq ToSet(EdgeOrder)
      BY <2>1, <2>2 DEF EdgesAmong
    <3>2. QED
      BY <2>2, <3>1, LineageIsMarkedAsDrawn
  <2>7. \A answered \in {nodes, {n \in nodes : n.id # Root}} :
           /\ PlacesAreApart(Entries(answered, Root))
           /\ \A sent \in {graph, among} : LineageIsMarked(sent, Entries(answered, Root))
    BY <2>4, <2>5, <2>6
  <2>8. QED
    BY <2>1, <2>7 DEF ViewIsTheTrace
<1>2. QED
  BY <1>1, ViewInvHolds, PTL

-----------------------------------------------------------------------------
(* Searches                                                                *)

\* Cursors, and addresses as they may be before they are parsed.
Marks == [inputs : Inputs, page : Nat] \cup {NoCursor}

Addresses ==
    [q : Raw("q"), scope : Raw("scope"), ids : IdSets, filter : Raw("filter"), mode : Raw("mode"),
     fusion : Raw("fusion"), cursor : Marks, key : Inputs \cup {NoKey}, page : Nat]

\* The key beside a cursor is gone, or of the inputs the cursor was issued for.
Sealed(u) ==
    u.cursor # NoCursor => /\ u.key = NoKey \/ u.cursor.inputs = Sent(u.key)
                           /\ u.page = u.cursor.page + 1

\* The cursor of an answer goes on in the list the page shows.
GoesOn(shown, next) ==
    next # NoCursor => /\ next \in [inputs : Inputs, page : Nat]
                       /\ next.inputs = Sent(shown.inputs) /\ next.page = shown.cursor.page + 1

SearchInv ==
    /\ url \in Addresses /\ previous \in Addresses
    /\ Sealed(url) /\ Sealed(previous)
    /\ GoesOn(State, found.next)

\* A missing key is the key of no inputs.
LEMMA NoKeyIsNoInputs == NoKey \notin Inputs
<1> SUFFICES ASSUME NoKey \in Inputs
             PROVE  FALSE
  OBVIOUS
<1>1. DOMAIN NoKey = {}
  BY DEF NoKey
<1>2. "q" \in DOMAIN NoKey
  BY DEF Inputs
<1>3. QED
  BY <1>1, <1>2

\* What is sent of the inputs of a search.
LEMMA SentIsInputs ==
    ASSUME NEW i \in Inputs
    PROVE  Sent(i) \in Inputs
  BY DEF Sent, Inputs

\* The inputs of an address, whatever was typed.
LEMMA ParsedInputsAreInputs ==
    ASSUME NEW u
    PROVE  ParsedInputs(u) \in Inputs
<1>1. /\ Known(u.q, Queries, NoValue) \in Queries \cup {NoValue}
      /\ Known(u.filter, Types, NoValue) \in Types \cup {NoValue}
      /\ Known(u.mode, Modes, "keyword") \in Modes
      /\ Known(u.fusion, Fusions, NoValue) \in Fusions \cup {NoValue}
  BY DEF Known, Modes
<1>2. ParseScope(u) \in SearchScopes
  BY DEF ParseScope, SearchScopes
<1>3. QED
  BY <1>1, <1>2 DEF ParsedInputs, Inputs

\* What a sealed address stands for.
LEMMA SealedAddressesKeep ==
    ASSUME NEW u \in Addresses, Sealed(u)
    PROVE  /\ Parse(u).inputs \in Inputs /\ Parse(u).cursor \in Marks /\ Parse(u).page \in Nat
           /\ Parse(u).cursor # NoCursor => Parse(u).cursor.inputs = Sent(Parse(u).inputs)
           /\ Parse(u).page = Parse(u).cursor.page + 1
<1>1. PICK i : i = ParsedInputs(u) /\ i \in Inputs
  BY ParsedInputsAreInputs
<1>2. u.cursor \in Marks /\ u.page \in Nat /\ NoCursor \in Marks /\ NoCursor.page = 0
  BY DEF Addresses, Marks, NoCursor
<1>3. CASE u.cursor # NoCursor /\ u.key = i
  <2>1. Parse(u) = [inputs |-> i, cursor |-> u.cursor, page |-> u.page]
    BY <1>1, <1>3 DEF Parse, KeyOf
  <2>2. u.key # NoKey
    BY <1>1, <1>3, NoKeyIsNoInputs
  <2>3. QED
    BY <1>1, <1>2, <1>3, <2>1, <2>2 DEF Sealed
<1>4. CASE ~ (u.cursor # NoCursor /\ u.key = i)
  <2>1. Parse(u) = [inputs |-> i, cursor |-> NoCursor, page |-> 1]
    BY <1>1, <1>4 DEF Parse, KeyOf
  <2>2. QED
    BY <1>1, <1>2, <2>1
<1>5. QED
  BY <1>3, <1>4

\* A search that is written as an address is sealed.
LEMMA WrittenAddressesAreSealed ==
    ASSUME NEW s, s.inputs \in Inputs, s.cursor \in Marks, s.page \in Nat,
           s.cursor # NoCursor => s.cursor.inputs = Sent(s.inputs) /\ s.page = s.cursor.page + 1
    PROVE  Serialize(s) \in Addresses /\ Sealed(Serialize(s))
<1>1. PICK u : u = Serialize(s)
  OBVIOUS
<1>2. /\ u.q = s.inputs.q
      /\ u.scope = IF s.inputs.scope = "all" THEN NoValue ELSE s.inputs.scope
      /\ u.ids = Needs(s.inputs.scope)
      /\ u.filter = s.inputs.filter
      /\ u.mode = IF s.inputs.mode = "keyword" THEN NoValue ELSE s.inputs.mode
      /\ u.fusion = s.inputs.fusion
      /\ u.cursor = s.cursor
      /\ u.key = IF s.cursor = NoCursor THEN NoKey ELSE s.inputs
      /\ u.page = IF s.cursor = NoCursor THEN 1 ELSE s.page
      /\ u = [q |-> u.q, scope |-> u.scope, ids |-> u.ids, filter |-> u.filter, mode |-> u.mode,
              fusion |-> u.fusion, cursor |-> u.cursor, key |-> u.key, page |-> u.page]
  BY <1>1 DEF Serialize, KeyOf
<1>3. /\ s.inputs.q \in Queries \cup {NoValue} /\ s.inputs.scope \in SearchScopes
      /\ s.inputs.filter \in Types \cup {NoValue} /\ s.inputs.mode \in Modes
      /\ s.inputs.fusion \in Fusions \cup {NoValue}
  BY DEF Inputs
<1>4. u.q \in Raw("q") /\ u.scope \in Raw("scope") /\ u.filter \in Raw("filter")
      /\ u.mode \in Raw("mode") /\ u.fusion \in Raw("fusion")
  BY <1>2, <1>3 DEF Raw
<1>5. u.ids \in IdSets
  BY <1>2 DEF Needs, IdSets
<1>6. u.cursor \in Marks /\ u.key \in Inputs \cup {NoKey} /\ u.page \in Nat
  BY <1>2
<1>7. u \in Addresses
  BY <1>2, <1>4, <1>5, <1>6 DEF Addresses
<1>8. Sealed(u)
  BY <1>2 DEF Sealed
<1>9. QED
  BY <1>1, <1>7, <1>8

\* An answer is kept only for the request it answers.
LEMMA AnswersFollowTheirSearch ==
    ASSUME SearchInv, NEW u, Go(u)
    PROVE  url' = u /\ GoesOn(Parse(u), found'.next)
<1>1. url' = u /\ found' = IF Request(u) = Request(url) THEN found ELSE Pending
  BY DEF Go
<1>2. CASE Request(u) = Request(url)
  <2>1. Sent(Parse(u).inputs) = Sent(State.inputs) /\ Parse(u).cursor = State.cursor
    BY <1>2 DEF Request, State
  <2>2. QED
    BY <1>1, <1>2, <2>1 DEF SearchInv, GoesOn
<1>3. CASE Request(u) # Request(url)
  BY <1>1, <1>3 DEF GoesOn, Pending
<1>4. QED
  BY <1>1, <1>2, <1>3

\* What a move to another address needs to keep the invariant.
LEMMA MovesKeepSearches ==
    ASSUME SearchInv, NEW u \in Addresses, Sealed(u), Go(u),
           previous' \in {url, previous}
    PROVE  SearchInv'
<1>1. url' = u /\ GoesOn(Parse(u), found'.next)
  BY AnswersFollowTheirSearch
<1>2. GoesOn(State', found'.next)
  BY <1>1 DEF State, Parse, ParsedInputs, ParseScope
<1>3. url' \in Addresses /\ previous' \in Addresses
  BY <1>1 DEF SearchInv
<1>4. Sealed(url)' /\ Sealed(previous)'
  BY <1>1 DEF SearchInv, Sealed
<1>5. QED
  BY <1>2, <1>3, <1>4 DEF SearchInv

\* The search page, step by step.
LEMMA SearchInvHolds == SearchSpec => []SearchInv
<1>1. SearchInit => SearchInv
  <2> SUFFICES ASSUME SearchInit
               PROVE  SearchInv
    OBVIOUS
  <2> DEFINE s == [inputs |-> [q |-> NoValue, scope |-> "all", filter |-> NoValue, mode |-> "keyword",
                               fusion |-> NoValue], cursor |-> NoCursor, page |-> 1]
  <2>1. s.inputs \in Inputs /\ s.cursor = NoCursor /\ s.cursor \in Marks /\ s.page \in Nat
    BY DEF Inputs, SearchScopes, Modes, Marks
  <2>2. Empty = Serialize(s)
    BY DEF Empty
  <2>3. Empty \in Addresses /\ Sealed(Empty)
    <3> HIDE DEF s
    <3>1. QED
      BY <2>1, <2>2, WrittenAddressesAreSealed
  <2>4. found.next = NoCursor
    BY DEF SearchInit, Pending
  <2>5. url \in Addresses /\ previous \in Addresses /\ Sealed(url) /\ Sealed(previous)
    BY <2>3 DEF SearchInit
  <2>6. QED
    BY <2>4, <2>5 DEF SearchInv, GoesOn
<1>2. ASSUME SearchInv, SearchNext
      PROVE  SearchInv'
  <2>1. /\ url \in Addresses /\ previous \in Addresses /\ Sealed(url) /\ Sealed(previous)
        /\ GoesOn(State, found.next)
    BY <1>2 DEF SearchInv
  <2>2. /\ State.inputs \in Inputs /\ State.cursor \in Marks /\ State.page \in Nat
        /\ State.cursor # NoCursor => State.cursor.inputs = Sent(State.inputs)
        /\ State.page = State.cursor.page + 1
    BY <2>1, SealedAddressesKeep DEF State
  <2>3. CASE Redirect
    <3>1. Go(Canonical(url)) /\ previous' = previous
      BY <2>3 DEF Redirect
    <3>2. Canonical(url) \in Addresses /\ Sealed(Canonical(url))
      BY <2>2, WrittenAddressesAreSealed DEF Canonical, State
    <3>3. QED
      BY <1>2, <3>1, <3>2, MovesKeepSearches
  <2>4. CASE NextPage
    <3>1. PICK s : s = [State EXCEPT !.cursor = found.next, !.page = @ + 1]
      OBVIOUS
    <3>2. found.next # NoCursor /\ Go(Serialize(s)) /\ previous' = url
      BY <2>4, <3>1 DEF NextPage
    <3>3. /\ found.next \in [inputs : Inputs, page : Nat]
          /\ found.next.inputs = Sent(State.inputs) /\ found.next.page = State.cursor.page + 1
      BY <2>1, <3>2 DEF GoesOn
    <3>4. s.inputs = State.inputs /\ s.cursor = found.next /\ s.page = State.page + 1
      BY <3>1 DEF State, Parse
    <3>5. s.inputs \in Inputs /\ s.cursor \in Marks /\ s.page \in Nat
          /\ s.cursor.inputs = Sent(s.inputs) /\ s.page = s.cursor.page + 1
      BY <2>2, <3>3, <3>4 DEF Marks
    <3>6. Serialize(s) \in Addresses /\ Sealed(Serialize(s))
      BY <3>5, WrittenAddressesAreSealed
    <3>7. QED
      BY <1>2, <3>2, <3>6, MovesKeepSearches
  <2>5. CASE Back
    <3>1. Go(previous) /\ previous' = url
      BY <2>5 DEF Back
    <3>2. QED
      BY <1>2, <2>1, <3>1, MovesKeepSearches
  <2>6. CASE Answer
    <3>1. url' = url /\ previous' = previous
      BY <2>6 DEF Answer
    <3>2. State' = State
      BY <3>1 DEF State, Parse, ParsedInputs, ParseScope
    <3>3. found'.next = NoCursor
          \/ found'.next = [inputs |-> Sent(State.inputs), page |-> State.cursor.page + 1]
      BY <2>6 DEF Answer, Failed
    <3>4. State.cursor.page + 1 \in Nat /\ Sent(State.inputs) \in Inputs
      BY <2>2, SentIsInputs
    <3>5. GoesOn(State, found'.next)
      BY <2>2, <3>3, <3>4 DEF GoesOn
    <3>6. GoesOn(State, found.next)'
      BY <3>2, <3>5 DEF GoesOn
    <3>7. QED
      BY <2>1, <3>1, <3>6 DEF SearchInv, Sealed
  <2>7. ASSUME NEW form \in Drafts(FormOf(State)), Submit(form)
        PROVE  SearchInv'
    <3>1. CASE Go(Serialize(FromForm(form))) /\ previous' = url /\ Sendable(form)
      <4>1. form.q \in Queries \cup {NoValue} /\ form.scope \in SearchScopes
            /\ form.filter \in Types \cup {NoValue} /\ form.mode \in Modes
            /\ (form.candidates \in Fusions \cup {NoValue, "few"})
            /\ (form.mode = "hybrid" => ~FusionIsRefused(form))
        <5>1. PICK f : f = FormOf(State)
          OBVIOUS
        <5>2. /\ f.q \in Queries \cup {NoValue} /\ f.scope \in SearchScopes
              /\ f.filter \in Types \cup {NoValue} /\ f.mode \in Modes
              /\ f.candidates \in Fusions \cup {NoValue}
              /\ f = [q |-> f.q, scope |-> f.scope, ids |-> f.ids, filter |-> f.filter,
                      mode |-> f.mode, candidates |-> f.candidates, k |-> f.k]
          BY <2>2, <5>1 DEF FormOf, Inputs
        <5>3. form \in Drafts(f)
          BY <5>1
        <5>4. \/ \E v \in Queries \cup {NoValue} : form = [f EXCEPT !.q = v]
              \/ \E to \in [scope : SearchScopes, ids : IdSets] :
                     form = [f EXCEPT !.scope = to.scope, !.ids = to.ids]
              \/ \E v \in Types \cup {NoValue} : form = [f EXCEPT !.filter = v]
              \/ \E to \in [mode : Modes, candidates : Fusions \cup {NoValue, "few"},
                             k : {NoValue, Junk, "k"}] :
                     form = [f EXCEPT !.mode = to.mode, !.candidates = to.candidates, !.k = to.k]
          BY <5>3 DEF Drafts
        <5>5. /\ form.q \in Queries \cup {NoValue} /\ form.scope \in SearchScopes
              /\ form.filter \in Types \cup {NoValue} /\ form.mode \in Modes
              /\ form.candidates \in Fusions \cup {NoValue, "few"}
          <6>1. CASE \E v \in Queries \cup {NoValue} : form = [f EXCEPT !.q = v]
            BY <5>2, <6>1
          <6>2. CASE \E to \in [scope : SearchScopes, ids : IdSets] :
                        form = [f EXCEPT !.scope = to.scope, !.ids = to.ids]
            BY <5>2, <6>2
          <6>3. CASE \E v \in Types \cup {NoValue} : form = [f EXCEPT !.filter = v]
            BY <5>2, <6>3
          <6>4. CASE \E to \in [mode : Modes, candidates : Fusions \cup {NoValue, "few"},
                                k : {NoValue, Junk, "k"}] :
                        form = [f EXCEPT !.mode = to.mode, !.candidates = to.candidates, !.k = to.k]
            BY <5>2, <6>4
          <6>5. QED
            BY <5>4, <6>1, <6>2, <6>3, <6>4
        <5>6. form.mode = "hybrid" => ~FusionIsRefused(form)
          BY <3>1 DEF Sendable
        <5>7. QED
          BY <5>5, <5>6
      <4>2. PICK s : s = FromForm(form)
        OBVIOUS
      <4>3. s.inputs \in Inputs /\ s.cursor = NoCursor /\ s.page = 1
        BY <4>1, <4>2 DEF FromForm, Inputs, FusionIsRefused
      <4>4. Serialize(s) \in Addresses /\ Sealed(Serialize(s))
        BY <4>3, WrittenAddressesAreSealed DEF Marks
      <4>5. QED
        BY <1>2, <3>1, <4>2, <4>4, MovesKeepSearches
    <3>2. CASE UNCHANGED <<url, previous, found>>
      <4>1. State' = State
        BY <3>2 DEF State, Parse, ParsedInputs, ParseScope
      <4>2. QED
        BY <2>1, <3>2, <4>1 DEF SearchInv, Sealed, GoesOn
    <3>3. QED
      BY <2>7, <3>1, <3>2 DEF Submit
  <2>8. ASSUME NEW u \in Edited, EditAddress(u)
        PROVE  SearchInv'
    <3>1. Go(u) /\ previous' = url
      BY <2>8 DEF EditAddress
    <3>2. /\ u \in Addresses
          /\ \/ u.cursor = url.cursor /\ u.key = url.key /\ u.page = url.page
             \/ u.cursor = url.cursor /\ u.key = NoKey /\ u.page = url.page
             \/ u.cursor = NoCursor
      <4>1. /\ url \in Addresses /\ NoCursor \in Marks /\ NoKey \in Inputs \cup {NoKey}
            /\ DOMAIN url = {"q", "scope", "ids", "filter", "mode", "fusion", "cursor", "key", "page"}
        BY <2>1 DEF Addresses, Marks
      <4>2. CASE u \in {[url EXCEPT !.q = v] : v \in Raw("q")}
        BY <4>1, <4>2 DEF Addresses
      <4>3. CASE u \in {[url EXCEPT !.scope = to.scope, !.ids = to.ids] :
                            to \in [scope : Raw("scope"), ids : IdSets]}
        BY <4>1, <4>3 DEF Addresses
      <4>4. CASE u \in {[url EXCEPT !.filter = v] : v \in Raw("filter")}
        BY <4>1, <4>4 DEF Addresses
      <4>5. CASE u \in {[url EXCEPT !.mode = v] : v \in Raw("mode")}
        BY <4>1, <4>5 DEF Addresses
      <4>6. CASE u \in {[url EXCEPT !.fusion = v] : v \in Raw("fusion")}
        BY <4>1, <4>6 DEF Addresses
      <4>7. CASE u = [url EXCEPT !.key = NoKey]
        BY <4>1, <4>7 DEF Addresses
      <4>8. CASE u = [url EXCEPT !.cursor = NoCursor]
        BY <4>1, <4>8 DEF Addresses
      <4>9. QED
        BY <4>2, <4>3, <4>4, <4>5, <4>6, <4>7, <4>8 DEF Edited
    <3>3. Sealed(u)
      BY <2>1, <3>2 DEF Sealed
    <3>4. QED
      BY <1>2, <3>1, <3>2, <3>3, MovesKeepSearches
  <2>9. QED
    BY <1>2, <2>3, <2>4, <2>5, <2>6, <2>7, <2>8 DEF SearchNext
<1>3. ASSUME SearchInv, UNCHANGED searchVars
      PROVE  SearchInv'
  <2>1. url' = url /\ previous' = previous /\ found' = found
    BY <1>3 DEF searchVars
  <2>2. State' = State
    BY <2>1 DEF State, Parse, ParsedInputs, ParseScope
  <2>3. QED
    BY <1>3, <2>1, <2>2 DEF SearchInv, Sealed, GoesOn
<1>4. QED
  BY <1>1, <1>2, <1>3, PTL DEF SearchSpec

\* However an address came about, a cursor is sent only with the inputs it was
\* issued for, and the page number counts the pages before it.
THEOREM CursorsAreKept == SearchSpec => []CursorsKeepTheirSearch
<1>1. SearchInv => CursorsKeepTheirSearch
  BY SealedAddressesKeep DEF SearchInv, State, CursorsKeepTheirSearch
<1>2. QED
  BY <1>1, SearchInvHolds, PTL

\* Writing a search out and reading it again gives the same search.
LEMMA RoundTrip ==
    ASSUME NEW u
    PROVE  Parse(Canonical(u)) = Parse(u)
<1>1. PICK s : s = Parse(u)
  OBVIOUS
<1>2. PICK w : w = Serialize(s)
  OBVIOUS
<1>3. PICK i : i = ParsedInputs(u)
  OBVIOUS
<1>4. /\ s.inputs = i
      /\ s = [inputs |-> i, cursor |-> s.cursor, page |-> s.page]
      /\ s.cursor = NoCursor => s.page = 1
  BY <1>1, <1>3 DEF Parse
<1>5. /\ i = [q |-> i.q, scope |-> i.scope, filter |-> i.filter, mode |-> i.mode, fusion |-> i.fusion]
      /\ i.q \in Queries \cup {NoValue} /\ i.scope \in SearchScopes
      /\ i.filter \in Types \cup {NoValue} /\ i.mode \in Modes
      /\ i.fusion \in Fusions \cup {NoValue}
  <2>1. i \in Inputs
    BY <1>3, ParsedInputsAreInputs
  <2>2. QED
    BY <2>1 DEF Inputs
<1>6. /\ w.q = i.q /\ w.scope = (IF i.scope = "all" THEN NoValue ELSE i.scope)
      /\ w.ids = Needs(i.scope) /\ w.filter = i.filter
      /\ w.mode = (IF i.mode = "keyword" THEN NoValue ELSE i.mode) /\ w.fusion = i.fusion
      /\ w.cursor = s.cursor /\ w.key = (IF s.cursor = NoCursor THEN NoKey ELSE i)
      /\ w.page = (IF s.cursor = NoCursor THEN 1 ELSE s.page)
  BY <1>2, <1>4 DEF Serialize, KeyOf
<1>7. ParseScope(w) = i.scope
  <2>1. NoValue \notin SearchScopes
    BY DEF NoValue, SearchScopes
  <2>2. QED
    BY <1>5, <1>6, <2>1 DEF ParseScope
<1>8. /\ Known(w.q, Queries, NoValue) = i.q
      /\ Known(w.filter, Types, NoValue) = i.filter
      /\ Known(w.mode, Modes, "keyword") = i.mode
      /\ Known(w.fusion, Fusions, NoValue) = i.fusion
  BY <1>5, <1>6 DEF Known, Modes, NoValue
<1>9. ParsedInputs(w) = i
  BY <1>5, <1>7, <1>8 DEF ParsedInputs
<1>10. Parse(w) = s
  <2>1. CASE s.cursor = NoCursor
    <3>1. Parse(w) = [inputs |-> i, cursor |-> NoCursor, page |-> 1]
      BY <1>6, <1>9, <2>1 DEF Parse
    <3>2. QED
      BY <1>4, <2>1, <3>1
  <2>2. CASE s.cursor # NoCursor
    <3>1. Parse(w) = [inputs |-> i, cursor |-> s.cursor, page |-> s.page]
      BY <1>6, <1>9, <2>2 DEF Parse, KeyOf
    <3>2. QED
      BY <1>4, <3>1
  <2>3. QED
    BY <2>1, <2>2
<1>11. QED
  BY <1>1, <1>2, <1>10 DEF Canonical

\* A form has an invalid field exactly when no address can be made of it.
LEMMA MessagesAreEarned ==
    ASSUME NEW form
    PROVE  InvalidFields(form) = {} <=> Sendable(form)
<1>1. CASE form.q = NoValue
  BY <1>1 DEF InvalidFields, Sendable
<1>2. CASE form.q # NoValue /\ ~ (Needs(form.scope) \subseteq form.ids)
  <2>1. InvalidFields(form) = Needs(form.scope) \ form.ids
    BY <1>2 DEF InvalidFields
  <2>2. QED
    BY <1>2, <2>1 DEF Sendable
<1>3. CASE form.q # NoValue /\ Needs(form.scope) \subseteq form.ids
  <2>1. CASE form.mode # "hybrid" \/ ~ FusionIsRefused(form)
    BY <1>3, <2>1 DEF InvalidFields, Sendable
  <2>2. CASE form.mode = "hybrid" /\ FusionIsRefused(form)
    <3>1. InvalidFields(form) = {f \in {"candidates"} : form.candidates \notin Fusions}
                                \cup {f \in {"k"} : form.k # "k"}
      BY <1>3, <2>2 DEF InvalidFields
    <3>2. form.candidates \notin Fusions \/ form.k # "k"
      BY <2>2 DEF FusionIsRefused
    <3>3. InvalidFields(form) # {}
      BY <3>1, <3>2
    <3>4. QED
      BY <2>2, <3>3 DEF Sendable
  <2>3. QED
    BY <2>1, <2>2
<1>4. QED
  BY <1>1, <1>2, <1>3

\* Redirects keep the search, happen once, and no submitted form is ignored.
THEOREM SearchesAreNeverLost == SearchSpec => []SearchIsNotLost
<1>1. SearchIsNotLost
  <2>1. Parse(Canonical(url)) = Parse(url)
    BY RoundTrip
  <2>2. Canonical(Canonical(url)) = Canonical(url)
    BY <2>1 DEF Canonical
  <2>3. QED
    BY <2>1, <2>2, MessagesAreEarned DEF SearchIsNotLost, RedirectKeepsTheSearch, NoSubmitIsSilent
<1>2. QED
  BY <1>1, PTL

-----------------------------------------------------------------------------
(* The browse page                                                         *)

Versions == [of : Artifacts, content : DocContents]

\* What the viewer and the page hold: an answer, whole, or nothing; no viewer is
\* left when nothing is selected; and of one artifact both hold one version.
ReaderInv ==
    /\ stored \in [Artifacts -> DocContents]
    /\ request \in Artifacts \cup {Unset} /\ at.selected \in Artifacts \cup {Unset}
    /\ loaded \in Versions \cup {Nothing}
    /\ viewer.status = "success" => [of |-> viewer.of, content |-> viewer.content] \in Versions
    /\ at.selected = Unset => viewer.status # "success"
    /\ viewer.status = "success" /\ loaded.of = viewer.of => loaded.content = viewer.content

\* An answer is a version of the artifact that was asked for.
LEMMA AnswersAreVersions ==
    ASSUME ReaderInv, request # Unset
    PROVE  /\ [of |-> request, content |-> stored[request]] \in Versions
           /\ request \in Artifacts
<1>1. request \in Artifacts /\ stored[request] \in DocContents
  BY DEF ReaderInv
<1>2. QED
  BY <1>1 DEF Versions

\* The browse page, step by step.
LEMMA ReaderInvHolds == ReaderSpec => []ReaderInv
<1>1. ReaderInit => ReaderInv
  <2> SUFFICES ASSUME ReaderInit
               PROVE  ReaderInv
    OBVIOUS
  <2>1. [audit |-> "absent", status |-> "absent"] \in DocContents
    BY DEF DocContents, Audits, DocStatuses
  <2>2. viewer.status = "loading" /\ loaded = Nothing /\ request = Unset /\ at.selected = Unset
    BY DEF ReaderInit, Loading
  <2>3. stored \in [Artifacts -> DocContents]
    BY <2>1 DEF ReaderInit
  <2>4. QED
    BY <2>2, <2>3 DEF ReaderInv
<1>2. ASSUME ReaderInv, ReaderNext
      PROVE  ReaderInv'
  <2>1. /\ stored \in [Artifacts -> DocContents]
        /\ request \in Artifacts \cup {Unset} /\ at.selected \in Artifacts \cup {Unset}
        /\ loaded \in Versions \cup {Nothing}
        /\ viewer.status = "success" => [of |-> viewer.of, content |-> viewer.content] \in Versions
        /\ at.selected = Unset => viewer.status # "success"
        /\ viewer.status = "success" /\ loaded.of = viewer.of => loaded.content = viewer.content
    BY <1>2 DEF ReaderInv
  <2>2. ASSUME NEW address, address.selected \in Artifacts \cup {Unset}, Open(address)
        PROVE  ReaderInv'
    <3>1. /\ at' = address /\ viewer' = IF address.selected = Unset THEN Loading ELSE viewer
          /\ stored' = stored /\ request' = request /\ loaded' = loaded
      BY <2>2 DEF Open
    <3>2. Loading.status = "loading"
      BY DEF Loading
    <3>3. QED
      BY <2>1, <2>2, <3>1, <3>2 DEF ReaderInv
  <2>3. CASE RunEffect
    <3>1. /\ at' = at /\ viewer' = viewer /\ stored' = stored
          /\ request' = at.selected /\ loaded' \in {loaded, Nothing}
      BY <2>3 DEF RunEffect
    <3>2. Nothing.of = Unset /\ \A v \in Versions : v.of # Unset
      BY ReaderAssumption DEF Nothing, Versions
    <3>3. viewer.status = "success" => viewer.of # Unset
      <4>1. viewer.status = "success" => [of |-> viewer.of, content |-> viewer.content].of # Unset
        BY <2>1, <3>2
      <4>2. QED
        BY <4>1
    <3>4. CASE loaded' = loaded
      BY <2>1, <3>1, <3>4 DEF ReaderInv
    <3>5. CASE loaded' = Nothing
      <4>1. loaded'.of = Unset
        BY <3>2, <3>5
      <4>2. viewer'.status = "success" => loaded'.of # viewer'.of
        BY <3>1, <3>3, <4>1
      <4>3. stored' \in [Artifacts -> DocContents] /\ request' \in Artifacts \cup {Unset}
            /\ at'.selected \in Artifacts \cup {Unset} /\ loaded' \in Versions \cup {Nothing}
        BY <2>1, <3>1, <3>5
      <4>4. /\ viewer'.status = "success" => [of |-> viewer'.of, content |-> viewer'.content] \in Versions
            /\ at'.selected = Unset => viewer'.status # "success"
        BY <2>1, <3>1
      <4>5. QED
        BY <4>2, <4>3, <4>4 DEF ReaderInv, Nothing, Versions
    <3>6. QED
      BY <3>1, <3>4, <3>5
  <2>4. CASE Answered
    <3>1. PICK version : version = [of |-> request, content |-> stored[request]]
      OBVIOUS
    <3>2. version \in Versions /\ version.of = request /\ version.content = stored[request]
      BY <1>2, <2>4, <3>1, AnswersAreVersions DEF Answered
    <3>3. at' = at /\ stored' = stored /\ request' = Unset
      BY <2>4 DEF Answered
    <3>4. CASE at.selected = Unset
      <4>1. viewer' = viewer /\ loaded' \in {version, loaded}
        BY <2>4, <3>1, <3>4 DEF Answered
      <4>2. QED
        BY <2>1, <3>2, <3>3, <3>4, <4>1 DEF ReaderInv
    <3>5. CASE at.selected # Unset
      <4>1. \/ /\ viewer' = [of |-> request, status |-> "success", content |-> version.content]
               /\ loaded' = version
            \/ /\ viewer' = [of |-> request, status |-> "error", content |-> Unset]
               /\ loaded' = loaded
        BY <2>4, <3>1, <3>5 DEF Answered
      <4>2. CASE /\ viewer' = [of |-> request, status |-> "success", content |-> version.content]
                 /\ loaded' = version
        <5>1. [of |-> viewer'.of, content |-> viewer'.content] = version
          BY <3>1, <3>2, <4>2
        <5>2. viewer'.content = loaded'.content
          BY <4>2
        <5>3. QED
          BY <2>1, <3>2, <3>3, <3>5, <4>2, <5>1, <5>2 DEF ReaderInv
      <4>3. CASE viewer' = [of |-> request, status |-> "error", content |-> Unset] /\ loaded' = loaded
        <5>1. viewer'.status # "success"
          BY <4>3
        <5>2. QED
          BY <2>1, <3>3, <4>3, <5>1 DEF ReaderInv
      <4>4. QED
        BY <4>1, <4>2, <4>3
    <3>6. QED
      BY <3>4, <3>5
  <2>5. CASE ListAnswered
    BY <2>1, <2>5 DEF ListAnswered, ReaderInv
  <2>6. ASSUME NEW a \in Artifacts, Store(a)
        PROVE  ReaderInv'
    <3>1. PICK content \in DocContents : stored' = [stored EXCEPT ![a] = content]
      BY <2>6 DEF Store
    <3>2. stored' \in [Artifacts -> DocContents]
      BY <2>1, <3>1
    <3>3. at' = at /\ request' = request /\ viewer' = viewer /\ loaded' = loaded
      BY <2>6 DEF Store
    <3>4. QED
      BY <2>1, <3>2, <3>3 DEF ReaderInv
  <2>7. ASSUME NEW a \in Artifacts, SelectArtifact(a)
        PROVE  ReaderInv'
    BY <2>2, <2>7 DEF SelectArtifact
  <2>8. ASSUME NEW scope, NEW selected \in Artifacts \cup {Unset},
               Open([scope |-> scope, selected |-> selected])
        PROVE  ReaderInv'
    BY <2>2, <2>8
  <2>9. QED
    BY <1>2, <2>3, <2>4, <2>5, <2>6, <2>7, <2>8 DEF ReaderNext
<1>3. ASSUME ReaderInv, UNCHANGED readerVars
      PROVE  ReaderInv'
  BY <1>3 DEF ReaderInv, readerVars
<1>4. QED
  BY <1>1, <1>2, <1>3, PTL DEF ReaderSpec

\* What the reader and the pane beside it show, in a state of the invariant.
LEMMA WhatIsShown ==
    ASSUME ReaderInv
    PROVE  /\ Context # Nothing => Context = loaded /\ loaded \in Versions /\ loaded.of = at.selected
           /\ Reader # Nothing /\ Context # Nothing => Reader = Context
<1>1. Context # Nothing => Context = loaded /\ loaded \in Versions /\ loaded.of = at.selected
  BY DEF ReaderInv, Context
<1>2. ASSUME Reader # Nothing, Context # Nothing
      PROVE  Reader = Context
  <2>1. /\ viewer.of = at.selected /\ viewer.status = "success"
        /\ Reader = [of |-> viewer.of, content |-> viewer.content]
    BY <1>2 DEF Reader
  <2>2. loaded = [of |-> loaded.of, content |-> loaded.content]
    BY <1>1, <1>2 DEF Versions
  <2>3. loaded.of = viewer.of /\ loaded.content = viewer.content
    BY <1>1, <1>2, <2>1 DEF ReaderInv
  <2>4. QED
    BY <1>1, <1>2, <2>1, <2>2, <2>3
<1>3. QED
  BY <1>1, <1>2

\* A gate is approved only by what the open document records.
LEMMA ApprovedMeansRecorded ==
    ASSUME ReaderInv, NEW gate \in Gates, GateShown(gate) = "approved"
    PROVE  /\ Home[at.selected] = at.scope /\ Kind[at.selected] = gate
           /\ \/ Context.content.audit = "valid"
              \/ Context.content.audit = "absent" /\ Context.content.status = "approved"
<1> DEFINE matches == {a \in Candidates : Kind[a] = gate}
<1>1. PICK document : document = DocumentOf(gate)
  OBVIOUS
<1>2. document # Unset /\ Context.of = document
  <2>1. CASE document = Unset
    <3>1. GateShown(gate) = GateStatus("absent", "absent", FALSE)
      BY <1>1, <2>1 DEF GateShown
    <3>2. GateStatus("absent", "absent", FALSE) = "unknown"
      BY DEF GateStatus
    <3>3. QED
      BY <3>1, <3>2
  <2>2. CASE document # Unset /\ Context.of # document
    BY <1>1, <2>2 DEF GateShown
  <2>3. QED
    BY <2>1, <2>2
<1>3. Context # Nothing
  BY <1>2 DEF Nothing
<1>4. Context = loaded /\ loaded \in Versions /\ loaded.of = at.selected
  BY <1>3, WhatIsShown
<1>5. document = at.selected /\ document \in matches
  <2>1. document \in matches
    BY <1>1, <1>2 DEF DocumentOf
  <2>2. QED
    BY <1>2, <1>4, <2>1
<1>6. Home[document] = at.scope /\ Kind[document] = gate
  BY <1>5 DEF Candidates
<1>7. PICK audit \in Audits, status \in DocStatuses :
          audit = Context.content.audit /\ status = Context.content.status
  <2>1. Context.content \in DocContents
    BY <1>4 DEF Versions
  <2>2. QED
    BY <2>1 DEF DocContents
<1>8. GateStatus(audit, status, TRUE) = "approved"
  BY <1>1, <1>2, <1>7 DEF GateShown
<1>9. audit = "valid" \/ (audit = "absent" /\ status = "approved")
  <2>1. CASE audit = "malformed"
    <3>1. status = "draft" \/ status = "approved" \/ status \notin {"draft", "approved"}
      OBVIOUS
    <3>2. QED
      BY <1>8, <2>1, <3>1 DEF GateStatus
  <2>2. CASE audit = "absent"
    <3>1. CASE status \in {"approved", "draft"}
      BY <1>8, <2>2, <3>1 DEF GateStatus
    <3>2. CASE status = "other"
      BY <1>8, <2>2, <3>2 DEF GateStatus
    <3>3. CASE status = "absent"
      BY <1>8, <2>2, <3>3 DEF GateStatus
    <3>4. QED
      BY <3>1, <3>2, <3>3 DEF DocStatuses
  <2>3. QED
    BY <2>1, <2>2 DEF Audits
<1>10. QED
  BY <1>5, <1>6, <1>7, <1>9

\* What is shown of an artifact is one version of one artifact, whatever is
\* selected, aborted, answered late and stored meanwhile.
THEOREM ReadingStaysWhole == ReaderSpec => []ReadingIsOfOneArtifact
<1>1. ReaderInv => ReadingIsOfOneArtifact
  <2> SUFFICES ASSUME ReaderInv
               PROVE  ReadingIsOfOneArtifact
    OBVIOUS
  <2>1. ReaderAndContextAgree
    <3>1. Context # Nothing => Context.of = at.selected
      BY WhatIsShown
    <3>2. QED
      BY <3>1, WhatIsShown DEF ReaderAndContextAgree
  <2>2. ApprovalIsRecorded
    BY ApprovedMeansRecorded DEF ApprovalIsRecorded
  <2>3. QED
    BY <2>1, <2>2 DEF ReadingIsOfOneArtifact
<1>2. QED
  BY <1>1, ReaderInvHolds, PTL

=============================================================================
