-------------------------- MODULE RequestPipeline --------------------------
(***************************************************************************)
(* Vecto.Request and what it calls: newRequest, the adapter, the request   *)
(* middleware, the exchange with the server, ValidateStatus, the response  *)
(* middleware, the dispatch of the completion event, and the metrics, for  *)
(* several calls on one instance while other goroutines register           *)
(* middleware and set the authorization header.                            *)
(*                                                                         *)
(* The exchange (with its retries, see RetryLoop) is one step with every   *)
(* outcome; a request body, the URL and the content of a header are left   *)
(* out. A MetricsCollector is configured. A call on an instance with a     *)
(* circuit breaker stops in getOrSetCircuitBreakerKey, see RequestLock.    *)
(***************************************************************************)
EXTENDS Naturals, Sequences, SequencesExt

CONSTANTS
    Callers,       \* goroutines, each makes one call of Request
    Setters,       \* goroutines that call SetBearerToken, SetBasicAuth, ClearAuth
    Middleware,    \* middleware functions, each registered at most once
    Statuses,      \* HTTP status codes of the answers
    Valid          \* those that config.ValidateStatus accepts

ASSUME ValidAssumption == Valid \subseteq Statuses

Kinds == {"request", "response"}

VARIABLES
    settings,    \* [adapter, breaker |-> is one configured?]
    middleware,  \* [request, response |-> the functions in order of registration]
    writing,     \* the setters inside an assignment to config.Headers
    fatal,       \* the runtime ended the process
    pc,
    todo,        \* the call's copy of the middleware it has still to run
    usable,      \* is the Request or Response the chain holds one made by this package?
    res,         \* the answer of the server
    returned,    \* [res, err] handed back to the caller
    metrics,     \* the records given to the MetricsCollector for the call
    events,      \* the responses given to the channelDispatcher for the call
    owed,        \* history: the request middleware registered when the call began
    ran          \* history: [request, response |-> the middleware run for the call]

shared == <<settings, middleware, writing, fatal>>
chain  == <<todo, usable, ran>>
result == <<returned, metrics, events>>
vars   == <<shared, pc, chain, res, result, owed>>

NoResponse == [status |-> 0, success |-> FALSE]
Answer(s)  == [status |-> s, success |-> s \in Valid]

Init ==
    /\ settings \in [adapter : BOOLEAN, breaker : BOOLEAN]
    /\ middleware = [k \in Kinds |-> <<>>]
    /\ writing = {}
    /\ fatal = FALSE
    /\ pc = [c \in Callers |-> "idle"]
    /\ todo = [c \in Callers |-> <<>>]
    /\ usable = [c \in Callers |-> TRUE]
    /\ res = [c \in Callers |-> NoResponse]
    /\ returned = [c \in Callers |-> [res |-> NoResponse, err |-> "none"]]
    /\ metrics = [c \in Callers |-> <<>>]
    /\ events = [c \in Callers |-> <<>>]
    /\ owed = [c \in Callers |-> <<>>]
    /\ ran = [c \in Callers |-> [k \in Kinds |-> <<>>]]

-----------------------------------------------------------------------------
(* The instance's shared state.                                            *)

\* UseRequest and UseResponse, under middlewareCollection.mu.
Register_First(k, m) ==
    /\ ~fatal
    /\ \A j \in Kinds : ~Contains(middleware[j], m)
    /\ middleware' = [middleware EXCEPT ![k] = <<m>> \o @]
    /\ UNCHANGED <<settings, writing, fatal, pc, chain, res, result, owed>>

Register(k, m) ==
    /\ ~fatal
    /\ \A j \in Kinds : ~Contains(middleware[j], m)
    /\ middleware' = [middleware EXCEPT ![k] = Append(@, m)]
    /\ UNCHANGED <<settings, writing, fatal, pc, chain, res, result, owed>>

\* SetBearerToken, SetBasicAuth and ClearAuth assign to the map config.Headers
\* without a lock; an assignment is not atomic.
SetHeader(g) ==
    /\ ~fatal
    /\ g \notin writing
    /\ writing' = writing \union {g}
    /\ UNCHANGED <<settings, middleware, fatal, pc, chain, res, result, owed>>

HeaderSet(g) ==
    /\ ~fatal
    /\ g \in writing
    /\ writing' = writing \ {g}
    /\ UNCHANGED <<settings, middleware, fatal, pc, chain, res, result, owed>>

Copying == {c \in Callers : pc[c] = "creating"}

\* The Go runtime ends the process when it notices a map written by one
\* goroutine and read or written by another; it need not notice.
RaceNoticed ==
    /\ ~fatal
    /\ \E g \in writing : writing # {g} \/ Copying # {}
    /\ fatal' = TRUE
    /\ UNCHANGED <<settings, middleware, writing, pc, chain, res, result, owed>>

-----------------------------------------------------------------------------
(* The steps of one call.                                                  *)

At(c, label) == ~fatal /\ pc[c] = label

Goto(c, label) == pc' = [pc EXCEPT ![c] = label]

\* recordMetrics(req, recorded, err), then return r, err.
Return(c, r, e, recorded) ==
    /\ Goto(c, "done")
    /\ returned' = [returned EXCEPT ![c] = [res |-> r, err |-> e]]
    /\ metrics' = [metrics EXCEPT ![c] = Append(@, [res |-> recorded, err |-> e])]

\* Request enters newRequest, which copies config.Headers.
Request(c) ==
    /\ At(c, "idle")
    /\ Goto(c, "creating")
    /\ owed' = [owed EXCEPT ![c] = middleware["request"]]
    /\ UNCHANGED <<shared, chain, res, result>>

\* newRequest refuses the URL, the query struct or a header.
CreateFails(c) ==
    /\ At(c, "creating")
    /\ Return(c, NoResponse, "create", NoResponse)
    /\ UNCHANGED <<shared, chain, res, events, owed>>

Created(c) ==
    /\ At(c, "creating")
    /\ Goto(c, "created")
    /\ UNCHANGED <<shared, chain, res, result, owed>>

\* A configured adapter answers in place of everything below; a Response it
\* makes cannot have success set.
Adapt(c) ==
    /\ At(c, "created")
    /\ settings.adapter
    /\ \E s \in Statuses \union {0}, e \in {"none", "adapter"} :
           LET r == [status |-> s, success |-> FALSE] IN Return(c, r, e, r)
    /\ UNCHANGED <<shared, chain, res, events, owed>>

\* interceptRequest takes its copy of the registered middleware.
interceptRequest(c) ==
    /\ At(c, "created")
    /\ ~settings.adapter
    /\ Goto(c, "request")
    /\ todo' = [todo EXCEPT ![c] = middleware["request"]]
    /\ UNCHANGED <<shared, usable, ran, res, result, owed>>

\* One middleware returns: what it was given, or a nil or zero value in its place.
RunMiddleware(c, k) ==
    /\ At(c, k)
    /\ todo[c] # <<>>
    /\ ran' = [ran EXCEPT ![c][k] = Append(@, Head(todo[c]))]
    /\ todo' = [todo EXCEPT ![c] = Tail(@)]
    /\ \E b \in BOOLEAN : usable' = [usable EXCEPT ![c] = @ /\ b]
    /\ UNCHANGED <<shared, pc, res, result, owed>>

\* The first middleware that returns an error ends the call; the metrics hold
\* the answer of the server if there is one.
MiddlewareFails(c, k) ==
    /\ At(c, k)
    /\ todo[c] # <<>>
    /\ ran' = [ran EXCEPT ![c][k] = Append(@, Head(todo[c]))]
    /\ todo' = [todo EXCEPT ![c] = <<>>]
    /\ Return(c, NoResponse, k, res[c])
    /\ UNCHANGED <<shared, usable, res, events, owed>>

\* getOrSetCircuitBreakerKey never returns: no step leaves "key".  A zero Request
\* gets there too.
LookUpBreaker(c) ==
    /\ At(c, "request")
    /\ todo[c] = <<>>
    /\ settings.breaker
    /\ Goto(c, "key")
    /\ UNCHANGED <<shared, chain, res, result, owed>>

\* executeRequest.
Send(c) ==
    /\ At(c, "request")
    /\ todo[c] = <<>>
    /\ ~settings.breaker
    /\ usable[c]
    /\ Goto(c, "sent")
    /\ UNCHANGED <<shared, chain, res, result, owed>>

\* A nil request is dereferenced on the way, a zero one has no transform to call.
SendPanics(c) ==
    /\ At(c, "request")
    /\ todo[c] = <<>>
    /\ ~usable[c]
    /\ Goto(c, "panicked")
    /\ UNCHANGED <<shared, chain, res, result, owed>>

\* handleRequestError.
handleRequestError_Unrecorded(c) ==
    /\ At(c, "sent")
    /\ Goto(c, "done")
    /\ returned' = [returned EXCEPT ![c] = [res |-> NoResponse, err |-> "http"]]
    /\ UNCHANGED <<shared, chain, res, events, metrics, owed>>

handleRequestError(c) ==
    /\ At(c, "sent")
    /\ Return(c, NoResponse, "http", NoResponse)
    /\ UNCHANGED <<shared, chain, res, events, owed>>

Receive_Unvalidated(c, s) ==
    /\ At(c, "sent")
    /\ res' = [res EXCEPT ![c] = [status |-> s, success |-> FALSE]]
    /\ Goto(c, "received")
    /\ UNCHANGED <<shared, chain, result, owed>>

\* The answer comes in and ValidateStatus judges it.
Receive(c, s) ==
    /\ At(c, "sent")
    /\ res' = [res EXCEPT ![c] = Answer(s)]
    /\ Goto(c, "received")
    /\ UNCHANGED <<shared, chain, result, owed>>

interceptResponse_AfterDispatch(c) ==
    /\ At(c, "received")
    /\ Goto(c, "response")
    /\ todo' = [todo EXCEPT ![c] = middleware["response"]]
    /\ events' = [events EXCEPT ![c] = Append(@, res[c])]
    /\ UNCHANGED <<shared, usable, ran, res, returned, metrics, owed>>

interceptResponse(c) ==
    /\ At(c, "received")
    /\ Goto(c, "response")
    /\ todo' = [todo EXCEPT ![c] = middleware["response"]]
    /\ UNCHANGED <<shared, usable, ran, res, result, owed>>

Complete_WaitsForReceiver(c) ==
    /\ At(c, "response")
    /\ todo[c] = <<>>
    /\ UNCHANGED vars

\* dispatch, recordMetrics, return.
Complete(c) ==
    /\ At(c, "response")
    /\ todo[c] = <<>>
    /\ usable[c]
    /\ events' = [events EXCEPT ![c] = Append(@, res[c])]
    /\ Return(c, res[c], "none", res[c])
    /\ UNCHANGED <<shared, chain, res, owed>>

\* dispatch dereferences the response and the request it belongs to, which a
\* Response made by a middleware does not have.
DispatchPanics(c) ==
    /\ At(c, "response")
    /\ todo[c] = <<>>
    /\ ~usable[c]
    /\ Goto(c, "panicked")
    /\ UNCHANGED <<shared, chain, res, result, owed>>

Call(c) ==
    \/ CreateFails(c) \/ Created(c)
    \/ Adapt(c) \/ interceptRequest(c)
    \/ \E k \in Kinds : RunMiddleware(c, k) \/ MiddlewareFails(c, k)
    \/ LookUpBreaker(c) \/ Send(c) \/ SendPanics(c)
    \/ handleRequestError(c) \/ \E s \in Statuses : Receive(c, s)
    \/ interceptResponse(c)
    \/ Complete(c) \/ DispatchPanics(c)

Next ==
    \/ \E c \in Callers : Request(c) \/ Call(c)
    \/ \E k \in Kinds, m \in Middleware : Register(k, m)
    \/ \E g \in Setters : SetHeader(g) \/ HeaderSet(g)
    \/ RaceNoticed

Spec == Init /\ [][Next]_vars

\* A call runs in its caller's goroutine, which the Go scheduler keeps running;
\* the exchange ends since config.Timeout is never zero (mergeConfig).
FairSpec == Spec /\ \A c \in Callers : WF_vars(Call(c))

-----------------------------------------------------------------------------
(* Properties                                                              *)

Answers   == {NoResponse} \union {Answer(s) : s \in Statuses}
Responses == Answers \union [status : Statuses \union {0}, success : {FALSE}]
Errors    == {"none", "create", "adapter", "http"} \union Kinds

\* Every variable has its type; the answer of the server carries the verdict of
\* ValidateStatus, the response of an adapter none.
TypeOK ==
    /\ settings \in [adapter : BOOLEAN, breaker : BOOLEAN]
    /\ middleware \in [Kinds -> Seq(Middleware)]
    /\ writing \subseteq Setters
    /\ fatal \in BOOLEAN
    /\ pc \in [Callers -> Kinds \union {"idle", "creating", "created", "key", "sent",
                                        "received", "panicked", "done"}]
    /\ todo \in [Callers -> Seq(Middleware)]
    /\ usable \in [Callers -> BOOLEAN]
    /\ res \in [Callers -> Answers]
    /\ returned \in [Callers -> [res : Responses, err : Errors]]
    /\ metrics \in [Callers -> Seq([res : Responses, err : Errors])]
    /\ events \in [Callers -> Seq(Answers)]
    /\ owed \in [Callers -> Seq(Middleware)]
    /\ ran \in [Callers -> [Kinds -> Seq(Middleware)]]

\* Whichever way a call ends, it has given the collector exactly one record, with
\* the error the caller gets, and with the response the caller gets if it gets
\* one; a call that has not returned has recorded nothing (Vecto.Request).
MetricsMatchReturn ==
    \A c \in Callers :
        IF pc[c] = "done"
        THEN \E m \in Responses :
                /\ metrics[c] = <<[res |-> m, err |-> returned[c].err]>>
                /\ returned[c].err = "none" => m = returned[c].res
        ELSE metrics[c] = <<>>

\* The completion event goes out exactly for the calls that hand back a response
\* from the server, once, and holds that response: a response middleware that
\* refuses it, however late, is in time to stop the event (Vecto.Request).
EventsMatchReturn ==
    \A c \in Callers :
        events[c] = IF pc[c] = "done" /\ returned[c].err = "none" /\ ~settings.adapter
                    THEN <<returned[c].res>> ELSE <<>>

\* The middleware run for a call is, at any later time too, the beginning of the
\* collection in its order of registration; a call that goes to the server has run
\* every request middleware that was registered when the call began, though
\* others may register more meanwhile (interceptRequest, addRequest).
MiddlewareInOrder ==
    \A c \in Callers :
        /\ \A k \in Kinds : IsPrefix(ran[c][k], middleware[k])
        /\ pc[c] \in {"sent", "received", "response"} => IsPrefix(owed[c], ran[c]["request"])

\* Every call ends, with or without an error, unless it gets to the key of a
\* circuit breaker or the runtime ends the process (Vecto.Request).
CallsReturn ==
    \A c \in Callers :
        pc[c] = "creating" ~> pc[c] \in {"done", "panicked", "key"} \/ fatal

\* What vecto.go says of the instance: it is safe for concurrent use.
SafeForConcurrentUse == ~fatal
=============================================================================
