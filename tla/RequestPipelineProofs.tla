----------------------- MODULE RequestPipelineProofs -----------------------
(***************************************************************************)
(* The safety of Vecto.Request for any number of calls, middleware         *)
(* functions and goroutines that set headers.                              *)
(***************************************************************************)
EXTENDS RequestPipeline, SequenceTheorems, TLAPS

\* What can be answered, and what can be handed back.
LEMMA ResponseTypes ==
    /\ NoResponse \in Answers
    /\ \A s \in Statuses : Answer(s) \in Answers
    /\ Answers \subseteq Responses
    /\ \A s \in Statuses \union {0} : [status |-> s, success |-> FALSE] \in Responses
BY DEF Answers, Responses

LEMMA LabelTypes ==
    /\ "request" \in Kinds /\ "response" \in Kinds
    /\ Kinds \subseteq Errors
    /\ {"none", "create", "adapter", "http"} \subseteq Errors
BY DEF Kinds, Errors

Labels == Kinds \union {"idle", "creating", "created", "key", "sent", "received",
                        "panicked", "done"}

\* A call that returns keeps the types of what it writes.
LEMMA ReturnTypes ==
    ASSUME TypeOK, NEW c \in Callers, NEW r \in Responses, NEW e \in Errors,
           NEW m \in Responses, Return(c, r, e, m)
    PROVE  /\ pc' \in [Callers -> Labels]
           /\ returned' \in [Callers -> [res : Responses, err : Errors]]
           /\ metrics' \in [Callers -> Seq([res : Responses, err : Errors])]
<1>. DEFINE Record == [res : Responses, err : Errors]
<1>1. [res |-> r, err |-> e] \in Record /\ [res |-> m, err |-> e] \in Record
  OBVIOUS
<1>2. pc' \in [Callers -> Labels]
  BY DEF TypeOK, Return, Goto, Labels
<1>3. returned' \in [Callers -> Record]
  <2>1. returned \in [Callers -> Record]
    BY DEF TypeOK
  <2>. HIDE DEF Record
  <2>. QED  BY <1>1, <2>1 DEF Return
<1>4. metrics' \in [Callers -> Seq(Record)]
  <2>1. metrics \in [Callers -> Seq(Record)]
    BY DEF TypeOK
  <2>. HIDE DEF Record
  <2>2. Append(metrics[c], [res |-> m, err |-> e]) \in Seq(Record)
    BY <1>1, <2>1
  <2>. QED  BY <2>1, <2>2 DEF Return
<1>. QED
  BY <1>2, <1>3, <1>4

\* The middleware that is run goes from the call's copy to its history.
LEMMA AdvanceTypes ==
    ASSUME TypeOK, NEW c \in Callers, NEW k \in Kinds, todo[c] # <<>>
    PROVE  /\ Head(todo[c]) \in Middleware
           /\ [todo EXCEPT ![c] = Tail(@)] \in [Callers -> Seq(Middleware)]
           /\ [todo EXCEPT ![c] = <<>>] \in [Callers -> Seq(Middleware)]
           /\ [ran EXCEPT ![c][k] = Append(@, Head(todo[c]))]
                 \in [Callers -> [Kinds -> Seq(Middleware)]]
<1>1. todo[c] \in Seq(Middleware) /\ ran[c][k] \in Seq(Middleware)
  BY DEF TypeOK
<1>2. Head(todo[c]) \in Middleware /\ Tail(todo[c]) \in Seq(Middleware)
  BY <1>1
<1>3. Append(ran[c][k], Head(todo[c])) \in Seq(Middleware)
  BY <1>1, <1>2
<1>4. <<>> \in Seq(Middleware)
  OBVIOUS
<1>. QED
  BY <1>2, <1>3, <1>4 DEF TypeOK

\* Every variable keeps its type, and the answer of the server its verdict.
THEOREM TypeCorrect == Spec => []TypeOK
<1>1. Init => TypeOK
  <2>1. /\ <<>> \in Seq(Middleware)
        /\ <<>> \in Seq(Answers)
        /\ <<>> \in Seq([res : Responses, err : Errors])
    OBVIOUS
  <2>2. [res |-> NoResponse, err |-> "none"] \in [res : Responses, err : Errors]
    BY ResponseTypes, LabelTypes
  <2>3. [k \in Kinds |-> <<>>] \in [Kinds -> Seq(Middleware)]
    BY <2>1
  <2>4. ASSUME Init
        PROVE  /\ metrics \in [Callers -> Seq([res : Responses, err : Errors])]
               /\ returned \in [Callers -> [res : Responses, err : Errors]]
               /\ ran \in [Callers -> [Kinds -> Seq(Middleware)]]
    BY <2>1, <2>2, <2>3, <2>4, Zenon DEF Init
  <2>5. ASSUME Init
        PROVE  /\ settings \in [adapter : BOOLEAN, breaker : BOOLEAN]
               /\ middleware \in [Kinds -> Seq(Middleware)]
               /\ res \in [Callers -> Answers]
               /\ events \in [Callers -> Seq(Answers)]
    BY <2>1, <2>3, <2>5, ResponseTypes DEF Init
  <2>. QED
    <3>1. ASSUME Init
          PROVE  /\ writing \subseteq Setters /\ fatal \in BOOLEAN
                 /\ pc \in [Callers -> Labels]
                 /\ todo \in [Callers -> Seq(Middleware)]
                 /\ usable \in [Callers -> BOOLEAN]
                 /\ owed \in [Callers -> Seq(Middleware)]
      BY <2>1, <3>1 DEF Init, Labels
    <3>. QED
      BY <2>4, <2>5, <3>1, Zenon DEF TypeOK, Labels
<1>2. TypeOK /\ [Next]_vars => TypeOK'
  <2>. SUFFICES ASSUME TypeOK, [Next]_vars PROVE TypeOK'
    OBVIOUS
  <2>. USE ResponseTypes, LabelTypes DEF shared, chain, result, At
  <2>1. ASSUME NEW c \in Callers, Request(c) PROVE TypeOK'
    BY <2>1 DEF Request, TypeOK, Goto
  <2>2. ASSUME NEW c \in Callers, CreateFails(c) PROVE TypeOK'
    BY <2>2, ReturnTypes DEF CreateFails, TypeOK, Labels
  <2>3. ASSUME NEW c \in Callers, Created(c) PROVE TypeOK'
    BY <2>3 DEF Created, TypeOK, Goto
  <2>4. ASSUME NEW c \in Callers, Adapt(c) PROVE TypeOK'
    <3>1. PICK s \in Statuses \union {0}, e \in {"none", "adapter"} :
            Return(c, [status |-> s, success |-> FALSE], e, [status |-> s, success |-> FALSE])
      BY <2>4 DEF Adapt
    <3>2. [status |-> s, success |-> FALSE] \in Responses /\ e \in Errors
      OBVIOUS
    <3>. QED
      BY <2>4, <3>1, <3>2, ReturnTypes DEF Adapt, TypeOK, Labels
  <2>5. ASSUME NEW c \in Callers, interceptRequest(c) PROVE TypeOK'
    BY <2>5 DEF interceptRequest, TypeOK, Goto
  <2>6. ASSUME NEW c \in Callers, NEW k \in Kinds, RunMiddleware(c, k) PROVE TypeOK'
    BY <2>6, AdvanceTypes DEF RunMiddleware, TypeOK
  <2>7. ASSUME NEW c \in Callers, NEW k \in Kinds, MiddlewareFails(c, k) PROVE TypeOK'
    <3>1. res[c] \in Responses
      BY DEF TypeOK
    <3>. QED
      BY <2>7, <3>1, AdvanceTypes, ReturnTypes DEF MiddlewareFails, TypeOK, Labels
  <2>8. ASSUME NEW c \in Callers, LookUpBreaker(c) \/ Send(c) \/ SendPanics(c) PROVE TypeOK'
    BY <2>8 DEF LookUpBreaker, Send, SendPanics, TypeOK, Goto
  <2>9. ASSUME NEW c \in Callers, handleRequestError(c) PROVE TypeOK'
    BY <2>9, ReturnTypes DEF handleRequestError, TypeOK, Labels
  <2>10. ASSUME NEW c \in Callers, NEW s \in Statuses, Receive(c, s) PROVE TypeOK'
    BY <2>10 DEF Receive, TypeOK, Goto
  <2>11. ASSUME NEW c \in Callers, interceptResponse(c) PROVE TypeOK'
    BY <2>11 DEF interceptResponse, TypeOK, Goto
  <2>12. ASSUME NEW c \in Callers, Complete(c) PROVE TypeOK'
    <3>1. res[c] \in Answers /\ res[c] \in Responses
      BY DEF TypeOK
    <3>2. Append(events[c], res[c]) \in Seq(Answers)
      BY <3>1 DEF TypeOK
    <3>. QED
      BY <2>12, <3>1, <3>2, ReturnTypes DEF Complete, TypeOK, Labels
  <2>13. ASSUME NEW c \in Callers, DispatchPanics(c) PROVE TypeOK'
    BY <2>13 DEF DispatchPanics, TypeOK, Goto
  <2>14. ASSUME NEW k \in Kinds, NEW m \in Middleware, Register(k, m) PROVE TypeOK'
    <3>1. Append(middleware[k], m) \in Seq(Middleware)
      BY DEF TypeOK
    <3>. QED
      BY <2>14, <3>1 DEF Register, TypeOK
  <2>15. ASSUME NEW g \in Setters, SetHeader(g) \/ HeaderSet(g) PROVE TypeOK'
    BY <2>15 DEF SetHeader, HeaderSet, TypeOK
  <2>16. CASE RaceNoticed
    BY <2>16 DEF RaceNoticed, TypeOK
  <2>17. CASE UNCHANGED vars
    BY <2>17 DEF vars, TypeOK
  <2>. QED
    BY <2>1, <2>2, <2>3, <2>4, <2>5, <2>6, <2>7, <2>8, <2>9, <2>10, <2>11, <2>12,
       <2>13, <2>14, <2>15, <2>16, <2>17 DEF Next, Call
<1>. QED
  BY <1>1, <1>2, PTL DEF Spec
-----------------------------------------------------------------------------
(* What a call leaves behind when it ends.                                 *)

Served == Kinds \union {"key", "sent", "received"}

\* A call that has passed the adapter is on an instance without one.
ServedWithoutAdapter == \A c \in Callers : pc[c] \in Served => ~settings.adapter

\* A step does nothing to what calls leave behind, ...
Quiet == UNCHANGED <<pc, result, settings>>

\* ... moves one call on, ...
Advances(c, l) ==
    /\ pc[c] # "done" /\ l # "done"
    /\ l \in Served => ~settings.adapter
    /\ Goto(c, l)
    /\ UNCHANGED <<result, settings>>

\* ... or ends it.
Ends(c, r, e, m) ==
    /\ pc[c] # "done"
    /\ Return(c, r, e, m)
    /\ e = "none" => m = r
    /\ events' = IF e = "none" /\ ~settings.adapter
                 THEN [events EXCEPT ![c] = Append(@, r)] ELSE events
    /\ UNCHANGED settings

LEMMA StepKinds ==
    ASSUME TypeOK, ServedWithoutAdapter, [Next]_vars
    PROVE  \/ Quiet
           \/ \E c \in Callers, l \in Labels : Advances(c, l)
           \/ \E c \in Callers, r \in Responses, e \in Errors, m \in Responses : Ends(c, r, e, m)
<1>. USE ResponseTypes, LabelTypes DEF shared, chain, result, At
<1>1. ASSUME NEW c \in Callers, Request(c) PROVE Advances(c, "creating")
  BY <1>1 DEF Request, Advances, Served, Kinds
<1>2. ASSUME NEW c \in Callers, CreateFails(c)
      PROVE  Ends(c, NoResponse, "create", NoResponse)
  BY <1>2 DEF CreateFails, Ends
<1>3. ASSUME NEW c \in Callers, Created(c) PROVE Advances(c, "created")
  BY <1>3 DEF Created, Advances, Served, Kinds
<1>4. ASSUME NEW c \in Callers, Adapt(c)
      PROVE  \E r \in Responses, e \in Errors : Ends(c, r, e, r)
  <2>1. PICK s \in Statuses \union {0}, e \in {"none", "adapter"} :
          Return(c, [status |-> s, success |-> FALSE], e, [status |-> s, success |-> FALSE])
    BY <1>4 DEF Adapt
  <2>2. Ends(c, [status |-> s, success |-> FALSE], e, [status |-> s, success |-> FALSE])
    BY <1>4, <2>1 DEF Adapt, Ends
  <2>3. [status |-> s, success |-> FALSE] \in Responses /\ e \in Errors
    OBVIOUS
  <2>. QED
    BY <2>2, <2>3
<1>5. ASSUME NEW c \in Callers, interceptRequest(c) PROVE Advances(c, "request")
  BY <1>5 DEF interceptRequest, Advances
<1>6. ASSUME NEW c \in Callers, NEW k \in Kinds, RunMiddleware(c, k) PROVE Quiet
  BY <1>6 DEF RunMiddleware, Quiet
<1>7. ASSUME NEW c \in Callers, NEW k \in Kinds, MiddlewareFails(c, k)
      PROVE  Ends(c, NoResponse, k, res[c]) /\ res[c] \in Responses
  BY <1>7 DEF MiddlewareFails, Ends, Kinds, TypeOK
<1>8. ASSUME NEW c \in Callers, LookUpBreaker(c) PROVE Advances(c, "key")
  BY <1>8 DEF LookUpBreaker, Advances, ServedWithoutAdapter, Served
<1>9. ASSUME NEW c \in Callers, Send(c) PROVE Advances(c, "sent")
  BY <1>9 DEF Send, Advances, ServedWithoutAdapter, Served
<1>10. ASSUME NEW c \in Callers, SendPanics(c) \/ DispatchPanics(c)
       PROVE  Advances(c, "panicked")
  BY <1>10 DEF SendPanics, DispatchPanics, Advances, Served, Kinds
<1>11. ASSUME NEW c \in Callers, handleRequestError(c)
       PROVE  Ends(c, NoResponse, "http", NoResponse)
  BY <1>11 DEF handleRequestError, Ends
<1>12. ASSUME NEW c \in Callers, NEW s \in Statuses, Receive(c, s) PROVE Advances(c, "received")
  BY <1>12 DEF Receive, Advances, ServedWithoutAdapter, Served
<1>13. ASSUME NEW c \in Callers, interceptResponse(c) PROVE Advances(c, "response")
  BY <1>13 DEF interceptResponse, Advances, ServedWithoutAdapter, Served
<1>14. ASSUME NEW c \in Callers, Complete(c)
       PROVE  Ends(c, res[c], "none", res[c]) /\ res[c] \in Responses
  BY <1>14 DEF Complete, Ends, ServedWithoutAdapter, Served, TypeOK
<1>15. ASSUME NEW k \in Kinds, NEW m \in Middleware, Register(k, m) PROVE Quiet
  BY <1>15 DEF Register, Quiet
<1>16. ASSUME NEW g \in Setters, SetHeader(g) \/ HeaderSet(g) PROVE Quiet
  BY <1>16 DEF SetHeader, HeaderSet, Quiet
<1>17. CASE RaceNoticed
  BY <1>17 DEF RaceNoticed, Quiet
<1>18. CASE UNCHANGED vars
  BY <1>18 DEF vars, Quiet
<1>19. {"creating", "created", "request", "key", "sent", "panicked", "received", "response"}
          \subseteq Labels
  BY DEF Labels
<1>. QED
  BY <1>1, <1>2, <1>3, <1>4, <1>5, <1>6, <1>7, <1>8, <1>9, <1>10, <1>11, <1>12, <1>13,
     <1>14, <1>15, <1>16, <1>17, <1>18, <1>19 DEF Next, Call

\* pc of a step that ends the call c, or moves it to l.
LEMMA PcAfter ==
    ASSUME TypeOK, NEW c \in Callers, NEW l \in Labels, Goto(c, l)
    PROVE  /\ pc'[c] = l
           /\ \A d \in Callers \ {c} : pc'[d] = pc[d]
BY DEF TypeOK, Goto

THEOREM ServedSafe == Spec => [](TypeOK /\ ServedWithoutAdapter)
<1>1. Init => ServedWithoutAdapter
  BY DEF Init, ServedWithoutAdapter, Served, Kinds
<1>2. TypeOK /\ ServedWithoutAdapter /\ [Next]_vars => ServedWithoutAdapter'
  <2>. SUFFICES ASSUME TypeOK, ServedWithoutAdapter, [Next]_vars PROVE ServedWithoutAdapter'
    OBVIOUS
  <2>1. CASE Quiet
    BY <2>1 DEF Quiet, ServedWithoutAdapter, Served
  <2>2. ASSUME NEW c \in Callers, NEW l \in Labels, Advances(c, l) PROVE ServedWithoutAdapter'
    BY <2>2, PcAfter DEF Advances, ServedWithoutAdapter, Served
  <2>3. ASSUME NEW c \in Callers, NEW r \in Responses, NEW e \in Errors,
               NEW m \in Responses, Ends(c, r, e, m)
        PROVE  ServedWithoutAdapter'
    <3>1. "done" \in Labels /\ "done" \notin Served
      BY DEF Labels, Served, Kinds
    <3>. QED
      BY <2>3, <3>1, PcAfter DEF Ends, Return, ServedWithoutAdapter, Served
  <2>. QED
    BY <2>1, <2>2, <2>3, StepKinds
<1>. QED
  BY <1>1, <1>2, TypeCorrect, PTL DEF Spec

\* Whichever way a call ends, it has given the collector one record that agrees
\* with what its caller gets (Vecto.Request, recordMetrics).
THEOREM OneMatchingRecord == Spec => []MetricsMatchReturn
<1>1. Init => MetricsMatchReturn
  BY DEF Init, MetricsMatchReturn
<1>2. TypeOK /\ ServedWithoutAdapter /\ MetricsMatchReturn /\ [Next]_vars => MetricsMatchReturn'
  <2>. SUFFICES ASSUME TypeOK, ServedWithoutAdapter, MetricsMatchReturn, [Next]_vars,
                       NEW d \in Callers
                PROVE  MetricsMatchReturn!(d)'
    BY DEF MetricsMatchReturn
  <2>1. CASE Quiet
    BY <2>1 DEF Quiet, result, MetricsMatchReturn
  <2>2. ASSUME NEW c \in Callers, NEW l \in Labels, Advances(c, l)
        PROVE  MetricsMatchReturn!(d)'
    BY <2>2, PcAfter DEF Advances, result, MetricsMatchReturn
  <2>3. ASSUME NEW c \in Callers, NEW r \in Responses, NEW e \in Errors,
               NEW m \in Responses, Ends(c, r, e, m)
        PROVE  MetricsMatchReturn!(d)'
    <3>1. "done" \in Labels
      BY DEF Labels
    <3>2. CASE d = c
      <4>1. metrics[c] = <<>>
        BY <2>3 DEF Ends, MetricsMatchReturn
      <4>2. metrics'[c] = <<[res |-> m, err |-> e]>>
        BY <2>3, <4>1 DEF Ends, Return, TypeOK
      <4>3. returned'[c] = [res |-> r, err |-> e]
        BY <2>3 DEF Ends, Return, TypeOK
      <4>4. pc'[c] = "done"
        BY <2>3, <3>1, PcAfter DEF Ends, Return
      <4>. QED
        BY <2>3, <3>2, <4>2, <4>3, <4>4 DEF Ends
    <3>3. CASE d # c
      <4>1. pc'[d] = pc[d] /\ metrics'[d] = metrics[d] /\ returned'[d] = returned[d]
        BY <2>3, <3>1, <3>3, PcAfter DEF Ends, Return, TypeOK
      <4>. QED
        BY <4>1 DEF MetricsMatchReturn
    <3>. QED
      BY <3>2, <3>3
  <2>. QED
    BY <2>1, <2>2, <2>3, StepKinds
<1>. QED
  BY <1>1, <1>2, ServedSafe, PTL DEF Spec

\* The completion event goes out once for each call that hands back a response of
\* the server, with that response, and for no other (Vecto.Request, dispatch).
THEOREM EventIffReturned == Spec => []EventsMatchReturn
<1>1. Init => EventsMatchReturn
  BY DEF Init, EventsMatchReturn
<1>2. TypeOK /\ ServedWithoutAdapter /\ EventsMatchReturn /\ [Next]_vars => EventsMatchReturn'
  <2>. SUFFICES ASSUME TypeOK, ServedWithoutAdapter, EventsMatchReturn, [Next]_vars,
                       NEW d \in Callers
                PROVE  EventsMatchReturn!(d)'
    BY DEF EventsMatchReturn
  <2>1. CASE Quiet
    BY <2>1 DEF Quiet, result, EventsMatchReturn
  <2>2. ASSUME NEW c \in Callers, NEW l \in Labels, Advances(c, l)
        PROVE  EventsMatchReturn!(d)'
    BY <2>2, PcAfter DEF Advances, result, EventsMatchReturn
  <2>3. ASSUME NEW c \in Callers, NEW r \in Responses, NEW e \in Errors,
               NEW m \in Responses, Ends(c, r, e, m)
        PROVE  EventsMatchReturn!(d)'
    <3>1. "done" \in Labels
      BY DEF Labels
    <3>2. CASE d = c
      <4>1. events[c] = <<>>
        BY <2>3 DEF Ends, EventsMatchReturn
      <4>2. events'[c] = IF e = "none" /\ ~settings.adapter THEN <<r>> ELSE <<>>
        BY <2>3, <4>1 DEF Ends, TypeOK
      <4>3. returned'[c] = [res |-> r, err |-> e]
        BY <2>3 DEF Ends, Return, TypeOK
      <4>4. pc'[c] = "done" /\ settings' = settings
        BY <2>3, <3>1, PcAfter DEF Ends, Return
      <4>. QED
        BY <3>2, <4>2, <4>3, <4>4
    <3>3. CASE d # c
      <4>1. pc'[d] = pc[d] /\ events'[d] = events[d] /\ returned'[d] = returned[d]
        BY <2>3, <3>1, <3>3, PcAfter DEF Ends, Return, TypeOK
      <4>. QED
        BY <2>3, <4>1 DEF EventsMatchReturn, Ends
    <3>. QED
      BY <3>2, <3>3
  <2>. QED
    BY <2>1, <2>2, <2>3, StepKinds
<1>. QED
  BY <1>1, <1>2, ServedSafe, PTL DEF Spec
-----------------------------------------------------------------------------
(* The order of the middleware.                                            *)

\* IsPrefix, element by element.
StartOf(s, t) == Len(s) <= Len(t) /\ \A i \in 1 .. Len(s) : s[i] = t[i]

LEMMA PrefixElements ==
    ASSUME NEW S, NEW s \in Seq(S), NEW t \in Seq(S), StartOf(s, t)
    PROVE  IsPrefix(s, t)
<1>1. Len(s) \in Nat /\ Len(t) \in Nat /\ Len(s) <= Len(t)
  BY DEF StartOf
<1>2. SubSeq(s, 1, Len(s)) = s
  BY <1>1
<1>3. /\ SubSeq(t, 1, Len(s)) \in Seq(S)
      /\ Len(SubSeq(t, 1, Len(s))) = Len(s)
      /\ \A i \in 1 .. Len(s) : SubSeq(t, 1, Len(s))[i] = s[i]
  BY <1>1 DEF StartOf
<1>4. SubSeq(t, 1, Len(s)) = s
  BY <1>1, <1>3, SeqEqual
<1>. QED
  BY <1>1, <1>2, <1>4 DEF IsPrefix

\* After r, the sequence t goes on as m does.
Continues(r, t, m) ==
    /\ Len(r) + Len(t) <= Len(m)
    /\ \A i \in 1 .. Len(t) : t[i] = m[Len(r) + i]

LEMMA StartGrows ==
    ASSUME NEW S, NEW r \in Seq(S), NEW t \in Seq(S), NEW m \in Seq(S), NEW x \in S
    PROVE  /\ StartOf(r, m) => StartOf(r, Append(m, x))
           /\ Continues(r, t, m) => Continues(r, t, Append(m, x))
BY DEF StartOf, Continues

LEMMA ContinueOne ==
    ASSUME NEW S, NEW r \in Seq(S), NEW t \in Seq(S), NEW m \in Seq(S), t # <<>>,
           StartOf(r, m), Continues(r, t, m)
    PROVE  /\ StartOf(Append(r, Head(t)), m)
           /\ Continues(Append(r, Head(t)), Tail(t), m)
<1>1. Len(t) \in Nat \ {0} /\ Len(r) \in Nat /\ Head(t) = t[1] /\ t[1] = m[Len(r) + 1]
  BY DEF Continues
<1>2. /\ Len(Append(r, Head(t))) = Len(r) + 1
      /\ \A i \in 1 .. Len(r) : Append(r, Head(t))[i] = r[i]
      /\ Append(r, Head(t))[Len(r) + 1] = t[1]
  BY <1>1
<1>3. StartOf(Append(r, Head(t)), m)
  BY <1>1, <1>2 DEF StartOf, Continues
<1>4. Len(Tail(t)) = Len(t) - 1 /\ \A i \in 1 .. Len(t) - 1 : Tail(t)[i] = t[i + 1]
  BY <1>1
<1>5. ASSUME NEW i \in 1 .. Len(Tail(t))
      PROVE  Tail(t)[i] = m[Len(Append(r, Head(t))) + i]
  <2>1. i + 1 \in 1 .. Len(t) /\ Len(r) + (i + 1) = (Len(r) + 1) + i
    BY <1>1, <1>4
  <2>2. t[i + 1] = m[Len(r) + (i + 1)]
    BY <2>1 DEF Continues
  <2>. QED
    BY <1>1, <1>2, <1>4, <2>1, <2>2
<1>. QED
  BY <1>1, <1>2, <1>3, <1>4, <1>5 DEF Continues

\* What is true of one call wherever it is: what it ran and what it owes are the
\* beginning of the collections, its copy continues what it ran, and once it runs
\* or has run the request middleware it owes no more than that holds.
InOrder(c) ==
    /\ \A k \in Kinds :
          /\ StartOf(ran[c][k], middleware[k])
          /\ pc[c] = k => Continues(ran[c][k], todo[c], middleware[k])
    /\ StartOf(owed[c], middleware["request"])
    /\ pc[c] \in {"idle", "creating", "created"} => ran[c]["request"] = <<>>
    /\ pc[c] \in {"idle", "creating", "created", "request", "sent", "received"}
          => ran[c]["response"] = <<>>
    /\ pc[c] = "request" => Len(owed[c]) <= Len(ran[c]["request"]) + Len(todo[c])
    /\ pc[c] \in {"sent", "received", "response"} => Len(owed[c]) <= Len(ran[c]["request"])

OrderInv == \A c \in Callers : InOrder(c)

LEMMA OrderImplies == TypeOK /\ OrderInv => MiddlewareInOrder
<1>. SUFFICES ASSUME TypeOK, OrderInv, NEW c \in Callers
              PROVE  MiddlewareInOrder!(c)
  BY DEF MiddlewareInOrder
<1>. USE LabelTypes
<1>1. /\ InOrder(c)
      /\ owed[c] \in Seq(Middleware)
      /\ \A k \in Kinds : ran[c][k] \in Seq(Middleware) /\ middleware[k] \in Seq(Middleware)
  BY DEF OrderInv, TypeOK
<1>2. ASSUME NEW k \in Kinds PROVE IsPrefix(ran[c][k], middleware[k])
  BY <1>1, PrefixElements DEF InOrder
<1>3. ASSUME pc[c] \in {"sent", "received", "response"}
      PROVE  IsPrefix(owed[c], ran[c]["request"])
  <2>1. StartOf(owed[c], ran[c]["request"])
    BY <1>1, <1>3 DEF InOrder, StartOf
  <2>. QED
    BY <1>1, <2>1, PrefixElements
<1>. QED
  BY <1>2, <1>3

\* A step of one call that adds to no collection leaves the others in order.
LEMMA OthersInOrder ==
    ASSUME TypeOK, OrderInv, NEW c \in Callers, InOrder(c)',
           middleware' = middleware,
           \A d \in Callers \ {c} : /\ pc'[d] = pc[d] /\ todo'[d] = todo[d]
                                    /\ ran'[d] = ran[d] /\ owed'[d] = owed[d]
    PROVE  OrderInv'
BY DEF OrderInv, InOrder

\* A call that only moves to l keeps its order if l asks for nothing new.
LEMMA MoveInOrder ==
    ASSUME TypeOK, OrderInv, NEW c \in Callers, NEW l \in Labels \ Kinds,
           pc' = [pc EXCEPT ![c] = l],
           l \in {"creating", "created"} => pc[c] \in {"idle", "creating"},
           l = "sent" => pc[c] = "request" /\ todo[c] = <<>>,
           l = "received" => pc[c] = "sent", l # "idle",
           UNCHANGED <<middleware, ran, owed>>,
           todo' \in [Callers -> Seq(Middleware)],
           \A d \in Callers \ {c} : todo'[d] = todo[d]
    PROVE  OrderInv'
<1>. USE LabelTypes
<1>1. pc'[c] = l /\ \A d \in Callers \ {c} : pc'[d] = pc[d]
  BY DEF TypeOK
<1>2. InOrder(c) /\ Len(ran[c]["request"]) \in Nat
  BY DEF OrderInv, TypeOK
<1>3. todo[c] = <<>> => Len(todo[c]) = 0
  OBVIOUS
<1>4. UNCHANGED <<middleware, ran, owed>> /\ l \notin Kinds
  OBVIOUS
<1>5. InOrder(c)'
  <2>1. ASSUME NEW k \in Kinds
        PROVE  StartOf(ran[c][k], middleware[k])' /\ pc'[c] # k
    BY <1>1, <1>2, <1>4 DEF InOrder, StartOf
  <2>2. StartOf(owed[c], middleware["request"])'
    BY <1>2, <1>4 DEF InOrder, StartOf
  <2>3. pc'[c] \in {"idle", "creating", "created"} => ran'[c]["request"] = <<>>
    BY <1>1, <1>2, <1>4 DEF InOrder
  <2>4. pc'[c] \in {"idle", "creating", "created", "request", "sent", "received"}
          => ran'[c]["response"] = <<>>
    BY <1>1, <1>2, <1>4 DEF InOrder
  <2>5. pc'[c] \in {"sent", "received", "response"}
          => Len(owed'[c]) <= Len(ran'[c]["request"])
    BY <1>1, <1>2, <1>3, <1>4 DEF InOrder, TypeOK
  <2>. QED
    BY <2>1, <2>2, <2>3, <2>4, <2>5 DEF InOrder
<1>. QED
  BY <1>1, <1>5, OthersInOrder

\* A middleware that is run, whether the call goes on after it or ends.
LEMMA RunInOrder ==
    ASSUME TypeOK, OrderInv, NEW c \in Callers, NEW k \in Kinds,
           pc[c] = k, todo[c] # <<>>,
           ran' = [ran EXCEPT ![c][k] = Append(@, Head(todo[c]))],
           \/ pc' = pc /\ todo' = [todo EXCEPT ![c] = Tail(@)]
           \/ pc' = [pc EXCEPT ![c] = "done"] /\ todo' = [todo EXCEPT ![c] = <<>>],
           UNCHANGED <<middleware, owed>>
    PROVE  OrderInv'
<1>. DEFINE r == ran[c][k]  t == todo[c]  m == middleware[k]
<1>. USE LabelTypes
<1>1. /\ r \in Seq(Middleware) /\ t \in Seq(Middleware) /\ m \in Seq(Middleware)
      /\ owed[c] \in Seq(Middleware)
      /\ \A j \in Kinds : ran[c][j] \in Seq(Middleware)
  BY DEF TypeOK
<1>2. InOrder(c)
  BY DEF OrderInv
<1>3. StartOf(Append(r, Head(t)), m) /\ Continues(Append(r, Head(t)), Tail(t), m)
  BY <1>1, <1>2, ContinueOne DEF InOrder
<1>4. ran'[c][k] = Append(r, Head(t)) /\ \A j \in Kinds \ {k} : ran'[c][j] = ran[c][j]
  BY DEF TypeOK
<1>5. \/ pc'[c] = k /\ todo'[c] = Tail(t)
      \/ pc'[c] = "done" /\ todo'[c] = <<>>
  BY DEF TypeOK
<1>6. UNCHANGED <<middleware, owed>>
  OBVIOUS
<1>7. Len(ran'[c][k]) = Len(r) + 1 /\ Len(Tail(t)) = Len(t) - 1
  BY <1>1, <1>4
<1>8. InOrder(c)'
  <2>. HIDE DEF r, t, m
  <2>1. ASSUME NEW j \in Kinds
        PROVE  StartOf(ran'[c][j], middleware[j])
    <3>1. CASE j = k
      BY <3>1, <1>3, <1>4 DEF m
    <3>2. CASE j # k
      BY <3>2, <1>2, <1>4 DEF InOrder
    <3>. QED  BY <3>1, <3>2
  <2>2. ASSUME NEW j \in Kinds, pc'[c] = j
        PROVE  Continues(ran'[c][j], todo'[c], middleware[j])
    BY <2>2, <1>3, <1>4, <1>5 DEF m, Kinds
  <2>3. pc'[c] \notin {"idle", "creating", "created", "sent", "received"}
    BY <1>5 DEF Kinds
  <2>4. pc'[c] = "request" => /\ ran'[c]["response"] = <<>>
                              /\ Len(owed[c]) <= Len(ran'[c]["request"]) + Len(todo'[c])
    <3>. SUFFICES ASSUME pc'[c] = "request"
                  PROVE  /\ ran'[c]["response"] = <<>>
                         /\ Len(owed[c]) <= Len(ran'[c]["request"]) + Len(todo'[c])
      OBVIOUS
    <3>1. k = "request" /\ todo'[c] = Tail(t) /\ pc[c] = "request"
      BY <1>5
    <3>2. ran'[c]["response"] = <<>>
      BY <1>2, <1>4, <3>1 DEF InOrder
    <3>3. Len(owed[c]) \in Nat /\ Len(r) \in Nat /\ Len(t) \in Nat
      BY <1>1
    <3>4. Len(owed[c]) <= Len(r) + Len(t)
      BY <1>2, <3>1 DEF InOrder, r, t
    <3>5. /\ Len(ran'[c]["request"]) = Len(r) + 1
          /\ Len(todo'[c]) = Len(t) - 1
      BY <1>7, <3>1
    <3>6. Len(owed[c]) <= Len(ran'[c]["request"]) + Len(todo'[c])
      BY <3>3, <3>4, <3>5
    <3>. QED
      BY <3>2, <3>6
  <2>5. pc'[c] = "response" => Len(owed[c]) <= Len(ran'[c]["request"])
    BY <1>1, <1>2, <1>4, <1>5 DEF InOrder
  <2>. QED
    BY <1>2, <1>6, <2>1, <2>2, <2>3, <2>4, <2>5 DEF InOrder
<1>. QED
  BY <1>6, <1>8, OthersInOrder DEF TypeOK

\* A call takes its copy of a collection it has run nothing of.
LEMMA CopyInOrder ==
    ASSUME TypeOK, OrderInv, NEW c \in Callers, NEW k \in Kinds,
           pc[c] = IF k = "request" THEN "created" ELSE "received",
           pc' = [pc EXCEPT ![c] = k],
           todo' = [todo EXCEPT ![c] = middleware[k]],
           UNCHANGED <<middleware, ran, owed>>
    PROVE  OrderInv'
<1>. USE LabelTypes
<1>1. /\ middleware[k] \in Seq(Middleware) /\ owed[c] \in Seq(Middleware)
      /\ pc'[c] = k /\ todo'[c] = middleware[k]
      /\ UNCHANGED <<middleware, ran, owed>>
  BY DEF TypeOK
<1>2. InOrder(c)
  BY DEF OrderInv
<1>3. ran[c][k] = <<>>
  BY <1>2 DEF InOrder, Kinds
<1>4. Continues(ran[c][k], middleware[k], middleware[k])
  BY <1>1, <1>3 DEF Continues
<1>5. Len(owed[c]) <= Len(middleware["request"])
  BY <1>2 DEF InOrder, StartOf
<1>6. InOrder(c)'
  <2>1. CASE k = "request"
    BY <2>1, <1>1, <1>2, <1>3, <1>4, <1>5 DEF InOrder, Kinds
  <2>2. CASE k = "response"
    BY <2>2, <1>1, <1>2, <1>3, <1>4 DEF InOrder, Kinds
  <2>. QED  BY <2>1, <2>2 DEF Kinds
<1>. QED
  BY <1>1, <1>6, OthersInOrder DEF TypeOK

\* Registration adds to the end of a collection.
LEMMA RegisterInOrder ==
    ASSUME TypeOK, OrderInv, NEW k \in Kinds, NEW x \in Middleware,
           middleware' = [middleware EXCEPT ![k] = Append(@, x)],
           UNCHANGED <<pc, todo, ran, owed>>
    PROVE  OrderInv'
<1>. SUFFICES ASSUME NEW c \in Callers PROVE InOrder(c)'
  BY DEF OrderInv
<1>. USE LabelTypes
<1>1. InOrder(c)
  BY DEF OrderInv
<1>2. /\ todo[c] \in Seq(Middleware) /\ owed[c] \in Seq(Middleware)
      /\ \A j \in Kinds : ran[c][j] \in Seq(Middleware) /\ middleware[j] \in Seq(Middleware)
  BY DEF TypeOK
<1>3. ASSUME NEW j \in Kinds
      PROVE  middleware'[j] = middleware[j] \/ middleware'[j] = Append(middleware[j], x)
  BY DEF TypeOK
<1>4. ASSUME NEW j \in Kinds
      PROVE  /\ StartOf(ran[c][j], middleware'[j])
             /\ pc[c] = j => Continues(ran[c][j], todo[c], middleware'[j])
  BY <1>1, <1>2, <1>3, StartGrows DEF InOrder
<1>5. StartOf(owed[c], middleware'["request"])
  BY <1>1, <1>2, <1>3, StartGrows DEF InOrder
<1>6. UNCHANGED <<pc, todo, ran, owed>>
  OBVIOUS
<1>. QED
  BY <1>1, <1>4, <1>5, <1>6 DEF InOrder

\* The middleware of a call runs in the order of registration, and a call that goes
\* to the server has run all that was registered when it began (interceptRequest).
THEOREM RunsInOrder == Spec => []MiddlewareInOrder
<1>1. Init => OrderInv
  <2>. SUFFICES ASSUME Init, NEW c \in Callers PROVE InOrder(c)
    BY DEF OrderInv
  <2>. QED
    BY DEF Init, InOrder, StartOf, Kinds
<1>2. TypeOK /\ TypeOK' /\ OrderInv /\ [Next]_vars => OrderInv'
  <2>. SUFFICES ASSUME TypeOK, TypeOK', OrderInv, [Next]_vars PROVE OrderInv'
    OBVIOUS
  <2>. USE LabelTypes DEF shared, chain, result, At
  <2>1. todo' \in [Callers -> Seq(Middleware)]
    BY DEF TypeOK
  <2>2. {"created", "key", "sent", "received", "panicked", "done"} \subseteq Labels \ Kinds
    BY DEF Labels, Kinds
  <2>3. ASSUME NEW c \in Callers, Request(c) PROVE OrderInv'
    <3>1. StartOf(middleware["request"], middleware["request"])
      BY DEF StartOf
    <3>2. InOrder(c)'
      BY <2>3, <3>1 DEF Request, Goto, TypeOK, OrderInv, InOrder, Kinds
    <3>. QED
      BY <2>3, <3>2, OthersInOrder DEF Request, Goto, TypeOK
  <2>4. ASSUME NEW c \in Callers,
               CreateFails(c) \/ Adapt(c) \/ handleRequestError(c) \/ Complete(c)
        PROVE  OrderInv'
    BY <2>1, <2>2, <2>4, MoveInOrder
       DEF CreateFails, Adapt, handleRequestError, Complete, Return, Goto
  <2>5. ASSUME NEW c \in Callers, Created(c) PROVE OrderInv'
    BY <2>1, <2>2, <2>5, MoveInOrder DEF Created, Goto
  <2>6. ASSUME NEW c \in Callers, interceptRequest(c) PROVE OrderInv'
    BY <2>6, CopyInOrder DEF interceptRequest, Goto
  <2>7. ASSUME NEW c \in Callers, NEW k \in Kinds, RunMiddleware(c, k) PROVE OrderInv'
    BY <2>7, RunInOrder DEF RunMiddleware
  <2>8. ASSUME NEW c \in Callers, NEW k \in Kinds, MiddlewareFails(c, k) PROVE OrderInv'
    BY <2>8, RunInOrder DEF MiddlewareFails, Return, Goto
  <2>9. ASSUME NEW c \in Callers,
               LookUpBreaker(c) \/ Send(c) \/ SendPanics(c) \/ DispatchPanics(c)
        PROVE  OrderInv'
    BY <2>1, <2>2, <2>9, MoveInOrder DEF LookUpBreaker, Send, SendPanics, DispatchPanics, Goto
  <2>10. ASSUME NEW c \in Callers, NEW s \in Statuses, Receive(c, s) PROVE OrderInv'
    BY <2>1, <2>2, <2>10, MoveInOrder DEF Receive, Goto
  <2>11. ASSUME NEW c \in Callers, interceptResponse(c) PROVE OrderInv'
    BY <2>11, CopyInOrder DEF interceptResponse, Goto
  <2>12. ASSUME NEW k \in Kinds, NEW m \in Middleware, Register(k, m) PROVE OrderInv'
    BY <2>12, RegisterInOrder DEF Register
  <2>13. ASSUME UNCHANGED <<middleware, pc, todo, ran, owed>> PROVE OrderInv'
    BY <2>13 DEF OrderInv, InOrder
  <2>14. ASSUME NEW g \in Setters, SetHeader(g) \/ HeaderSet(g) PROVE OrderInv'
    BY <2>13, <2>14 DEF SetHeader, HeaderSet
  <2>15. CASE RaceNoticed
    BY <2>13, <2>15 DEF RaceNoticed
  <2>16. CASE UNCHANGED vars
    BY <2>13, <2>16 DEF vars
  <2>. QED
    BY <2>3, <2>4, <2>5, <2>6, <2>7, <2>8, <2>9, <2>10, <2>11, <2>12, <2>14, <2>15, <2>16
       DEF Next, Call
<1>. QED
  BY <1>1, <1>2, TypeCorrect, OrderImplies, PTL DEF Spec
=============================================================================
