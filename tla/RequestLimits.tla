--------------------------- MODULE RequestLimits ---------------------------
(***************************************************************************)
(* The two middlewares every request passes before the application:        *)
(* SlowRouteLimitMiddleware (api/concurrency.py), which counts the slow    *)
(* requests in flight, around BodySizeLimitMiddleware (api/body_limits.py),*)
(* which counts the bytes of a body as they arrive.  The application reads *)
(* the body, answers in one or more messages, may go on after its answer   *)
(* (background tasks), and may raise or be cancelled at any await.         *)
(***************************************************************************)
EXTENDS Integers, FiniteSets

CONSTANTS
    Https,         \* requests
    Slow,          \* those for which is_slow_route holds
    SlowMax,       \* SLOW_ROUTE_CONCURRENCY
    BodyLimit,     \* limit_bytes of the route, in chunks
    BodyMax        \* bound of the chunks a client sends

ASSUME RequestLimitsAssumption ==
    /\ Slow \subseteq Https
    /\ SlowMax \in Nat \ {0}
    /\ BodyLimit \in Nat \ {0}
    /\ BodyMax \in Nat

VARIABLES
    inFlight,      \* SlowRouteLimitMiddleware.in_flight
    http           \* http[h]: the request

requestLimitsVars == <<inFlight, http>>

HttpSteps == {"new", "app", "answered", "over"}

\* held: counted in in_flight; seen: chunks the middleware has counted; given:
\* chunks the application has; answer: what the client has received of it.
Http == [step : HttpSteps, held : BOOLEAN, seen : 0 .. BodyMax, given : 0 .. BodyMax,
         refused : BOOLEAN, started : BOOLEAN, starts : 0 .. 2,
         answer : {"none", "503", "413", "partial", "complete"}]

RequestLimitsTypeOK ==
    /\ inFlight \in Nat
    /\ http \in [Https -> Http]

RequestLimitsInit ==
    /\ inFlight = 0
    /\ http = [h \in Https |-> [step |-> "new", held |-> FALSE, seen |-> 0, given |-> 0,
                                refused |-> FALSE, started |-> FALSE, starts |-> 0, answer |-> "none"]]

\* in_flight is only looked at and counted up on the event loop, with no await between.
EnterSlow(h) ==
    /\ http[h].step = "new"
    /\ h \in Slow
    /\ IF inFlight >= SlowMax
         THEN /\ http' = [http EXCEPT ![h].step = "over", ![h].answer = "503", ![h].starts = 1]
              /\ UNCHANGED inFlight
         ELSE /\ http' = [http EXCEPT ![h].step = "app", ![h].held = TRUE]
              /\ inFlight' = inFlight + 1

EnterOther(h) ==
    /\ http[h].step = "new"
    /\ h \notin Slow
    /\ http' = [http EXCEPT ![h].step = "app"]
    /\ UNCHANGED inFlight

\* A Content-Length above the limit: the application is not called.
TooLargeDeclared(h) ==
    /\ http[h].step = "app" /\ http[h].seen = 0 /\ http[h].starts = 0 /\ ~http[h].started
    /\ http' = [http EXCEPT ![h].step = "over", ![h].answer = "413", ![h].starts = 1, ![h].held = FALSE]
    /\ inFlight' = IF http[h].held THEN inFlight - 1 ELSE inFlight

\* counting_receive: the chunk that goes over the limit becomes a disconnect; an
\* application that reads on is given the later ones.  The 413 is complete at
\* once, so its last message also leaves the slow routes.
Receive(h) ==
    /\ http[h].step \in {"app", "answered"}
    /\ http[h].seen < BodyMax
    /\ LET q == http[h]
           over == q.seen + 1 > BodyLimit
           refuse == over /\ ~q.refused
       IN /\ http' = [http EXCEPT ![h].seen = @ + 1,
                        ![h].given = IF refuse THEN @ ELSE @ + 1,
                        ![h].refused = @ \/ over,
                        ![h].starts = IF refuse /\ ~q.started THEN @ + 1 ELSE @,
                        ![h].answer = IF refuse /\ ~q.started THEN "413" ELSE @,
                        ![h].held = IF refuse /\ ~q.started THEN FALSE ELSE @]
          /\ inFlight' = IF refuse /\ ~q.started /\ q.held THEN inFlight - 1 ELSE inFlight

\* Mutant: what the application sends after a refusal is passed on.
PassesOnAlways(q) == TRUE

\* guarded_send drops what is sent after a refusal.
PassesOn(q) == ~q.refused

SendStart(h) ==
    /\ http[h].step = "app"
    /\ ~http[h].started
    /\ http' = [http EXCEPT ![h].started = PassesOn(http[h]) \/ @,
                            ![h].starts = IF PassesOn(http[h]) THEN @ + 1 ELSE @,
                            ![h].answer = IF PassesOn(http[h]) THEN "partial" ELSE @]
    /\ UNCHANGED inFlight

\* Mutant: release without the flag that it was done.
ReleasedAlways(q) == inFlight - 1

\* release(), after the last message and again in the finally.
Released(q) == IF q.held THEN inFlight - 1 ELSE inFlight

SendLast(h) ==
    /\ http[h].step = "app"
    /\ http[h].started
    /\ LET q == http[h] IN
       /\ http' = [http EXCEPT ![h].step = "answered",
                     ![h].answer = IF PassesOn(q) THEN "complete" ELSE @,
                     ![h].held = IF PassesOn(q) THEN FALSE ELSE @]
       /\ inFlight' = IF PassesOn(q) THEN Released(q) ELSE inFlight

\* The application returns, raises, or is cancelled by a disconnect.
Leave(h) ==
    /\ http[h].step \in {"app", "answered"}
    /\ http' = [http EXCEPT ![h].step = "over", ![h].held = FALSE]
    /\ inFlight' = IF h \in Slow THEN Released(http[h]) ELSE inFlight

RequestLimitsNext ==
    \E h \in Https :
        \/ EnterSlow(h) \/ EnterOther(h) \/ TooLargeDeclared(h) \/ Receive(h)
        \/ SendStart(h) \/ SendLast(h) \/ Leave(h)

RequestLimitsSpec == RequestLimitsInit /\ [][RequestLimitsNext]_requestLimitsVars

-----------------------------------------------------------------------------
\* However a slow request ends (refused, too large, answered and still at work,
\* raised, cancelled), it is counted exactly while it holds its place, so the
\* count neither leaks a place for ever nor lets one request too many in
\* (concurrency.py:62-86).
PlacesCounted ==
    /\ inFlight = Cardinality({h \in Https : http[h].held})
    /\ inFlight <= SlowMax
    /\ \A h \in Https : http[h].step = "over" => ~http[h].held

\* Whenever the body and the answer cross, the client gets one answer: the 413
\* of a body that is over the limit, never in the middle of another answer and
\* never followed by one.  The application has more than the limit of a body
\* only when it read on after it was told that the client is gone
\* (body_limits.py:73-92).
OneAnswer ==
    \A h \in Https :
        /\ http[h].starts <= 1
        /\ http[h].refused => http[h].started \/ http[h].answer = "413"
        /\ http[h].given > BodyLimit => http[h].refused
=============================================================================
