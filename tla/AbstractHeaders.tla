---------------------------- MODULE AbstractHeaders ----------------------------
(***************************************************************************)
(* The promise HeaderMaps keeps: headers behave as values.  A step changes *)
(* what one holder sees and nobody else's; the defaults never change; what *)
(* an instance or a request is made of is read when it is made and never   *)
(* again; and no header that validateHeaders refuses gets into a request.  *)
(***************************************************************************)
EXTENDS HeaderValues

VARIABLE headers    \* what each holder sees

Init == headers = [h \in Holders |-> IF h = Defaults THEN defaultHeaders ELSE NoHeaders]

Becomes(h, m) == headers' = [headers EXCEPT ![h] = m]

\* A caller does with its own maps what it likes.
CallersMap ==
    \E h \in Holders, m \in Maps :
        /\ \/ \E i \in Instances : h = Provided(i)
           \/ \E r \in Requests : h \in {Given(r), Returned(r)}
        /\ Becomes(h, m)

InstanceMade ==
    \E i \in Instances :
        /\ validateHeaders(headers[Provided(i)])
        /\ Becomes(Config(i), Overlay(headers[Defaults], headers[Provided(i)]))

InstanceAuth ==
    \E i \in Instances, t \in Values \cup {None} :
        Becomes(Config(i), [headers[Config(i)] EXCEPT ![Authorization] = t])

RequestMade ==
    \E r \in Requests, i \in Instances, form \in BOOLEAN :
        LET m == Overlay(Overlay(headers[Config(i)], headers[Given(r)]), FormHeaders(form))
        IN  validateHeaders(m) /\ Becomes(Held(r), m)

\* All of the headers are set or none.
RequestHeaders ==
    \E r \in Requests, m \in Maps :
        validateHeaders(m) /\ Becomes(Held(r), Overlay(headers[Held(r)], m))

RequestAuthCleared ==
    \E r \in Requests : Becomes(Held(r), Without(headers[Held(r)], Authorization))

\* What is sent, or handed out, is what the request holds at that moment.
Copied ==
    \E r \in Requests, h \in Holders :
        /\ h \in {Raw(r), Returned(r)}
        /\ Becomes(h, headers[Held(r)])

\* An http.Request that is not sent yet has none.
RawReplaced == \E r \in Requests : Becomes(Raw(r), NoHeaders)

Next ==
    \/ CallersMap \/ InstanceMade \/ InstanceAuth
    \/ RequestMade \/ RequestHeaders \/ RequestAuthCleared \/ Copied
    \/ RawReplaced

Spec == Init /\ [][Next]_headers

===============================================================================
