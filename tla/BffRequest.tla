------------------------------ MODULE BffRequest ------------------------------
(***************************************************************************)
(* One call of the dashboard: the browser's data access, the server that   *)
(* stands between it and the backend (the BFF), and the backend.           *)
(* The BFF refuses what the dashboard would not ask for, gives the backend *)
(* a time limit for the whole exchange, and passes bounded answers only.   *)
(***************************************************************************)
EXTENDS Naturals, Sequences, SequencesExt

CONSTANTS Calls,
          Limit,        \* MAX_UPSTREAM_RESPONSE_BYTES, in chunks
          MaxCrashes

ASSUME LimitAssumption == Limit \in Nat

VARIABLES client,    \* what the caller sees: "idle", "waiting" or a result
          bff,       \* where the handler is
          timer,     \* of the exchange: "off", "armed" or "fired"
          conn,      \* the exchange with the backend: "none", "open", "closed"
          got,       \* chunks buffered
          error,     \* what the handler is about to catch
          answer,    \* of the BFF, and of the backend while it is being read
          happened,  \* what went wrong or right on the way, for the properties
          crashes

vars == <<client, bff, timer, conn, got, error, answer, happened, crashes>>

None == [status |-> 0, body |-> "none"]

Init ==
    /\ client = [c \in Calls |-> "idle"] /\ bff = [c \in Calls |-> "idle"]
    /\ timer = [c \in Calls |-> "off"] /\ conn = [c \in Calls |-> "none"]
    /\ got = [c \in Calls |-> 0] /\ error = [c \in Calls |-> "none"]
    /\ answer = [c \in Calls |-> None] /\ happened = [c \in Calls |-> {}]
    /\ crashes = 0

-----------------------------------------------------------------------------
(* What a request is refused for                                           *)

\* Before the request is read: the page it comes from, its target and its shape.  A
\* path that is not safe is gone by then, rewritten to one that no route has.
ContextFaults == <<[is |-> "foreign context", status |-> 403]>>
TargetFaults == <<[is |-> "long target", status |-> 414], [is |-> "odd target", status |-> 400]>>
ShapeFaults == <<[is |-> "override", status |-> 400], [is |-> "odd length", status |-> 400],
                 [is |-> "large", status |-> 413], [is |-> "not json", status |-> 415],
                 [is |-> "body of a GET", status |-> 400]>>

\* By the parser of the body, which answers a body that is not JSON at all with 500,
\* and by the schema of the route.
BodyFaults == <<[is |-> "unknown encoding", status |-> 415], [is |-> "inflates", status |-> 413],
                [is |-> "badly packed", status |-> 400], [is |-> "malformed", status |-> 500]>>
SchemaFaults == <<[is |-> "bad schema", status |-> 400]>>

\* By the table of routes and in the handler.
RouteFaults == <<[is |-> "unknown route", status |-> 404]>>
PathFaults == <<[is |-> "bad identifier", status |-> 400]>>
SearchFaults == <<[is |-> "bad search", status |-> 400]>>
QueryFaults == <<[is |-> "bad query", status |-> 400]>>

\* In the order in which they are noticed.
Faults == ContextFaults \o TargetFaults \o ShapeFaults \o BodyFaults \o RouteFaults
          \o SchemaFaults \o PathFaults \o QueryFaults \o SearchFaults

FaultNames == {Faults[i].is : i \in DOMAIN Faults}

Refusal(faults) == LET first == SelectSeq(Faults, LAMBDA f : f.is \in faults)
                   IN IF first = <<>> THEN 200 ELSE first[1].status

\* api.ts: what the BFF or the backend calls an error by name, or else by status.
ErrorCodes == {"bff_timeout", "bff_forbidden_route", "bff_response_too_large",
               "bff_backend_unavailable", "embedding_provider_not_configured",
               "embedding_provider_unavailable"}

ErrorFor(status) == CASE status = 400 -> "invalid_request"
                      [] status = 401 -> "authentication_required"
                      [] status = 403 -> "access_denied"
                      [] status = 404 -> "not_found"
                      [] status = 409 -> "conflict"
                      [] status = 413 -> "request_too_large"
                      [] status \in {502, 503} -> "service_unavailable"
                      [] status = 504 -> "service_timeout"
                      [] OTHER -> "request_failed"

\* What the answer is decoded as: a page or a record, and every item of it; one
\* that does not have the form it should have refuses the whole answer.
ReadsPage(body) == body \in {"data", "odd item"}
ReadsItems(body) == body # "odd item"

ResultOf(a) == IF a.status = 200
               THEN IF ReadsPage(a.body) /\ ReadsItems(a.body) THEN "data" ELSE "invalid_response"
               ELSE IF a.body \in ErrorCodes THEN a.body ELSE ErrorFor(a.status)

StatusOf(code) == CASE code = "bff_timeout" -> 504
                    [] code = "bff_backend_unavailable" -> 503
                    [] OTHER -> 502

-----------------------------------------------------------------------------
(* The handler                                                             *)

Note(c, what) == happened' = [happened EXCEPT ![c] = @ \cup {what}]

Reply(c, status, body) ==
    /\ bff' = [bff EXCEPT ![c] = "answered"]
    /\ answer' = [answer EXCEPT ![c] = [status |-> status, body |-> body]]

Send(c, faults) ==
    /\ client[c] = "idle"
    /\ client' = [client EXCEPT ![c] = "waiting"]
    /\ IF faults # {}
       THEN Reply(c, Refusal(faults), "message") /\ UNCHANGED <<timer, conn>>
       ELSE /\ bff' = [bff EXCEPT ![c] = "fetching"]
            /\ timer' = [timer EXCEPT ![c] = "armed"]
            /\ conn' = [conn EXCEPT ![c] = "open"]
            /\ UNCHANGED answer
    /\ UNCHANGED <<got, error, happened, crashes>>

Raise(c, code) ==
    /\ bff' = [bff EXCEPT ![c] = "failing"]
    /\ error' = [error EXCEPT ![c] = code]

\* A refused answer is not read to its end.
AbortAndRaise(c, code) == Raise(c, code) /\ conn' = [conn EXCEPT ![c] = "closed"]

\* Mutant of BeginReading: the time limit is for the headers only.
BeginReadingUntimed(c) ==
    /\ bff' = [bff EXCEPT ![c] = "reading"]
    /\ timer' = [timer EXCEPT ![c] = "off"]

BeginReading(c) ==
    /\ bff' = [bff EXCEPT ![c] = "reading"]
    /\ timer' = timer

\* The headers of the backend: a redirect is refused, and a declared length over
\* the limit; body is what the answer will be once it is complete.
Headers(c, status, body, declared) ==
    /\ bff[c] = "fetching"
    /\ answer' = [answer EXCEPT ![c] = [status |-> status, body |-> body]]
    /\ \/ /\ status \in 300..399
          /\ AbortAndRaise(c, "bff_forbidden_route")
          /\ Note(c, "redirected")
          /\ UNCHANGED timer
       \/ /\ status \notin 300..399 /\ declared > Limit
          /\ AbortAndRaise(c, "bff_response_too_large")
          /\ Note(c, "oversized")
          /\ UNCHANGED timer
       \/ /\ status \notin 300..399 /\ declared <= Limit
          /\ BeginReading(c)
          /\ UNCHANGED <<conn, error, happened>>
    /\ UNCHANGED <<client, got, crashes>>

Chunk(c) ==
    /\ bff[c] = "reading"
    /\ got' = [got EXCEPT ![c] = @ + 1]
    /\ IF got[c] = Limit
       THEN AbortAndRaise(c, "bff_response_too_large") /\ Note(c, "oversized")
       ELSE UNCHANGED <<bff, error, conn, happened>>
    /\ UNCHANGED <<client, timer, answer, crashes>>

\* The timer is cleared whichever way the exchange ends.
Complete(c) ==
    /\ bff[c] = "reading"
    /\ bff' = [bff EXCEPT ![c] = "answered"]
    /\ timer' = [timer EXCEPT ![c] = "off"]
    /\ conn' = [conn EXCEPT ![c] = "closed"]
    /\ Note(c, "completed")
    /\ UNCHANGED <<client, got, error, answer, crashes>>

\* The backend cannot be reached, or dies.
Break(c) ==
    /\ bff[c] \in {"fetching", "reading"}
    /\ AbortAndRaise(c, "broken")
    /\ Note(c, "broken")
    /\ UNCHANGED <<client, timer, got, answer, crashes>>

\* The timer may also fire between a failure and the handler's catch.
TimerFires(c) ==
    /\ timer[c] = "armed"
    /\ timer' = [timer EXCEPT ![c] = "fired"]
    /\ IF bff[c] \in {"fetching", "reading"} THEN AbortAndRaise(c, "aborted")
                                             ELSE UNCHANGED <<bff, error, conn>>
    /\ Note(c, "timed out")
    /\ UNCHANGED <<client, got, answer, crashes>>

Refusals == {"bff_forbidden_route", "bff_response_too_large"}

\* abortController.signal.aborted: by the timer, or by the refusal itself.
Aborted(c) == timer[c] = "fired" \/ error[c] \in Refusals

\* Mutant of Caught: the signal is looked at first.
CaughtBySignal(c) == IF Aborted(c) THEN "bff_timeout"
                     ELSE IF error[c] \in Refusals THEN error[c]
                     ELSE "bff_backend_unavailable"

Caught(c) == IF error[c] \in Refusals THEN error[c]
             ELSE IF Aborted(c) THEN "bff_timeout"
             ELSE "bff_backend_unavailable"

Catch(c) ==
    /\ bff[c] = "failing"
    /\ timer' = [timer EXCEPT ![c] = IF @ = "armed" THEN "off" ELSE @]
    /\ Reply(c, StatusOf(Caught(c)), Caught(c))
    /\ UNCHANGED <<client, conn, got, error, happened, crashes>>

-----------------------------------------------------------------------------
(* The browser                                                             *)

Deliver(c) ==
    /\ bff[c] = "answered" /\ client[c] = "waiting"
    /\ client' = [client EXCEPT ![c] = ResultOf(answer[c])]
    /\ UNCHANGED <<bff, timer, conn, got, error, answer, happened, crashes>>

\* The query is cancelled; the BFF does not notice.
Cancel(c) ==
    /\ client[c] = "waiting"
    /\ client' = [client EXCEPT ![c] = "cancelled"]
    /\ UNCHANGED <<bff, timer, conn, got, error, answer, happened, crashes>>

\* The BFF process dies and is restarted; nothing of it survives.
Crash ==
    /\ crashes < MaxCrashes
    /\ crashes' = crashes + 1
    /\ client' = [c \in Calls |-> IF client[c] = "waiting" THEN "network_error" ELSE client[c]]
    /\ bff' = [c \in Calls |-> "idle"] /\ timer' = [c \in Calls |-> "off"]
    /\ conn' = [c \in Calls |-> IF conn[c] = "open" THEN "closed" ELSE conn[c]]
    /\ got' = [c \in Calls |-> 0] /\ error' = [c \in Calls |-> "none"]
    /\ answer' = [c \in Calls |-> None]
    /\ UNCHANGED happened

-----------------------------------------------------------------------------
(* A request has up to two faults; the backend answers with a status, a    *)
(* body and a declared length that the code tells apart.                   *)
FaultSets == {{}} \cup {{f, g} : f, g \in FaultNames}
Statuses == {200, 302, 401, 409, 503}
Bodies == {"data", "odd page", "odd item", "embedding_provider_unavailable"}
Lengths == {0, Limit, Limit + 1}

Next ==
    \/ \E c \in Calls :
        \/ \E faults \in FaultSets : Send(c, faults)
        \/ \E status \in Statuses, body \in Bodies, declared \in Lengths :
                Headers(c, status, body, declared)
        \/ Chunk(c) \/ Complete(c) \/ Break(c) \/ TimerFires(c) \/ Catch(c)
        \/ Deliver(c) \/ Cancel(c)
    \/ Crash

\* Timers fire, and the event loop runs what is ready; nothing is expected of
\* the backend.
Fairness == \A c \in Calls : WF_vars(TimerFires(c)) /\ WF_vars(Catch(c)) /\ WF_vars(Deliver(c))

Spec == Init /\ [][Next]_vars

-----------------------------------------------------------------------------
(* What a call comes to                                                    *)

\* What the user is told is what happened: data only when the backend's answer
\* arrived whole and within the limit, a time-out only when the time was up,
\* a refusal or an unreachable backend only when there was one.
ShownIsTrue ==
    \A c \in Calls :
        /\ client[c] \in {"data", "embedding_provider_unavailable"}
             => "completed" \in happened[c] /\ "oversized" \notin happened[c]
        /\ client[c] = "bff_timeout" => "timed out" \in happened[c]
        /\ client[c] = "bff_forbidden_route" => "redirected" \in happened[c]
        /\ client[c] = "bff_response_too_large" => "oversized" \in happened[c]
        /\ client[c] = "bff_backend_unavailable" =>
             "broken" \in happened[c] /\ "timed out" \notin happened[c]

\* An answered call leaves nothing behind in the server: no exchange with the
\* backend, no timer, and never more of an answer than the limit and a chunk.
AnsweredMeansReleased ==
    \A c \in Calls :
        /\ bff[c] = "answered" => conn[c] # "open" /\ timer[c] # "armed"
        /\ got[c] <= Limit + 1

\* A call ends with the truth, and with nothing held.
CallsEndWell == ShownIsTrue /\ AnsweredMeansReleased

\* Whatever the backend does or fails to do, the caller gets an answer.
EveryCallIsAnswered ==
    \A c \in Calls : client[c] = "waiting" ~> client[c] # "waiting"
=============================================================================
