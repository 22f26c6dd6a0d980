----------------------------- MODULE EventDispatch -----------------------------
(***************************************************************************)
(* Completion events: OnCompleted registers channels with a request, and   *)
(* channelDispatcher.dispatch offers each of them one event when the       *)
(* request has completed.  Several requests may share a channel, whose     *)
(* buffer and receiver they then compete for.                              *)
(*                                                                         *)
(* A Go channel is its buffer and whether a goroutine is blocked receiving *)
(* from it.  The events differ only in the request they are about: all     *)
(* those of one request have the same copy of its response.  A response is *)
(* where in memory each of its parts is: the caller and the receivers have *)
(* theirs at the same time, and may write into them.                       *)
(***************************************************************************)
EXTENDS Naturals, Sequences

CONSTANTS
    Requests,
    Channels,
    Capacity,           \* the buffer size of each channel, 0 when unbuffered
    MaxRegistrations    \* bound: the channels registered with one request

ASSUME CapacityAssumption ==
    /\ Capacity \in [Channels -> Nat]
    /\ MaxRegistrations \in Nat

VARIABLES
    registered,   \* events.channels of each request
    offered,      \* the copy dispatch works on
    at,           \* the position in offered that dispatch is at
    pc,           \* "running", "dispatching" or "done", for each request
    cancelled,    \* the requests whose context has ended
    buffer,       \* the events each channel holds: the requests they are about
    listening,    \* the channels a goroutine is blocked receiving from
    event,        \* the response in a request's event, None before the dispatch
    taken,        \* the requests an event of which some receiver has
    disturbed,    \* the parts of one response in which the last write into the other shows
    \* History, read by the properties only:
    delivered,    \* positions in offered
    skipped,
    sent          \* how many events each channel has taken

channels == <<buffer, listening, taken, sent>>
history  == <<delivered, skipped>>
vars == <<registered, offered, at, pc, cancelled, event, disturbed, channels, history>>

None == <<>>

\* What can be reached from a Response and written into: Data; of RawRequest itself, with
\* its URL and headers, and its body; of RawResponse the maps of headers and trailers, the
\* slices in them, the body and the TLS state; the Request; the trace; and "fields", all
\* that lies in the two structs themselves.
Parts == {"fields", "Data", "RawRequest", "RequestBody", "HeaderMap", "HeaderSlices",
          "Body", "TLS", "request", "TraceInfo"}

Memory == {"response", "copy"} \X Parts

\* What the exchange returned.
Completed == [part \in Parts |-> <<"response", part>>]

Init ==
    /\ registered = [r \in Requests |-> <<>>]
    /\ offered = [r \in Requests |-> <<>>]
    /\ at = [r \in Requests |-> 1]
    /\ pc = [r \in Requests |-> "running"]
    /\ cancelled = {}
    /\ buffer = [c \in Channels |-> <<>>]
    /\ listening = {}
    /\ event = [r \in Requests |-> None]
    /\ taken = {}
    /\ disturbed = {}
    /\ delivered = [r \in Requests |-> {}]
    /\ skipped = [r \in Requests |-> {}]
    /\ sent = [c \in Channels |-> 0]

-------------------------------------------------------------------------------

\* A channel may be registered at any time and more than once; dispatch does not see
\* what is registered after it made its copy.
OnCompleted(r, c) ==
    /\ Len(registered[r]) < MaxRegistrations
    /\ registered' = [registered EXCEPT ![r] = Append(@, c)]
    /\ UNCHANGED <<offered, at, pc, cancelled, event, disturbed, channels, history>>

\* cloneHTTPHeaders with a new map and the old slices.
deepCopy_OldSlices(res) ==
    [part \in Parts |->
        CASE part = "Body" -> <<"copy", "Data">>
          [] part \in {"RequestBody", "HeaderSlices", "TLS", "request", "TraceInfo"} -> res[part]
          [] OTHER -> <<"copy", part>>]

\* The body of the copy reads the copied Data.  Clone copies an http.Request but not its
\* body, and the TLS state, the Request and the trace are the same in both.
deepCopy(res) ==
    [part \in Parts |->
        CASE part = "Body" -> <<"copy", "Data">>
          [] part \in {"RequestBody", "TLS", "request", "TraceInfo"} -> res[part]
          [] OTHER -> <<"copy", part>>]

\* dispatch copies the response, which nobody else has yet, and the channels, under the
\* request's lock.
dispatch(r) ==
    /\ pc[r] = "running"
    /\ event' = [event EXCEPT ![r] = deepCopy(Completed)]
    /\ offered' = [offered EXCEPT ![r] = registered[r]]
    /\ pc' = [pc EXCEPT ![r] = IF registered[r] = <<>> THEN "done" ELSE "dispatching"]
    /\ UNCHANGED <<registered, at, cancelled, disturbed, channels, history>>

Ready(c) == c \in listening \/ Len(buffer[c]) < Capacity[c]

NextChannel(r) ==
    /\ at' = [at EXCEPT ![r] = @ + 1]
    /\ pc' = [pc EXCEPT ![r] = IF at[r] = Len(offered[r]) THEN "done" ELSE "dispatching"]

\* A receiver that is waiting gets the event directly.
SendTo(r, c) ==
    /\ sent' = [sent EXCEPT ![c] = @ + 1]
    /\ IF c \in listening
       THEN listening' = listening \ {c} /\ taken' = taken \cup {r} /\ UNCHANGED buffer
       ELSE buffer' = [buffer EXCEPT ![c] = Append(@, r)] /\ UNCHANGED <<listening, taken>>

Deliver_Unbounded(r) ==
    /\ pc[r] = "dispatching"
    /\ SendTo(r, offered[r][at[r]])
    /\ delivered' = [delivered EXCEPT ![r] = @ \cup {at[r]}]
    /\ NextChannel(r)
    /\ UNCHANGED <<registered, offered, cancelled, event, disturbed, skipped>>

\* The send case of the select.
Deliver(r) ==
    /\ pc[r] = "dispatching"
    /\ Ready(offered[r][at[r]])
    /\ SendTo(r, offered[r][at[r]])
    /\ delivered' = [delivered EXCEPT ![r] = @ \cup {at[r]}]
    /\ NextChannel(r)
    /\ UNCHANGED <<registered, offered, cancelled, event, disturbed, skipped>>

\* The ctx.Done() case.  When the channel is ready too, Go takes either case.
ContextDone(r) ==
    /\ pc[r] = "dispatching"
    /\ r \in cancelled
    /\ pc' = [pc EXCEPT ![r] = "done"]
    /\ UNCHANGED <<registered, offered, at, cancelled, event, disturbed, channels, history>>

\* No default case: the send waits for a receiver.
Skip_Blocks(r) == pc[r] = "dispatching" /\ UNCHANGED vars

Skip_Returns(r) ==
    /\ pc[r] = "dispatching"
    /\ ~ Ready(offered[r][at[r]])
    /\ r \notin cancelled
    /\ skipped' = [skipped EXCEPT ![r] = @ \cup {at[r]}]
    /\ pc' = [pc EXCEPT ![r] = "done"]
    /\ UNCHANGED <<registered, offered, at, cancelled, event, disturbed, channels, delivered>>

\* The default case, taken only when no other is ready.
Skip(r) ==
    /\ pc[r] = "dispatching"
    /\ ~ Ready(offered[r][at[r]])
    /\ r \notin cancelled
    /\ skipped' = [skipped EXCEPT ![r] = @ \cup {at[r]}]
    /\ NextChannel(r)
    /\ UNCHANGED <<registered, offered, cancelled, event, disturbed, channels, delivered>>

\* The user's goroutines receive, blocking when the channel is empty.
Receive(c) ==
    /\ IF buffer[c] # <<>>
       THEN /\ buffer' = [buffer EXCEPT ![c] = Tail(@)]
            /\ taken' = taken \cup {Head(buffer[c])}
            /\ UNCHANGED listening
       ELSE /\ c \notin listening
            /\ listening' = listening \cup {c}
            /\ UNCHANGED <<buffer, taken>>
    /\ UNCHANGED <<registered, offered, at, pc, cancelled, event, disturbed, sent, history>>

\* Somebody writes to a place in memory, and whoever has the other response sees it in
\* the parts that are there.
Writes(place, other) ==
    /\ disturbed' = {part \in Parts : other[part] = place}
    /\ UNCHANGED <<registered, offered, at, pc, cancelled, event, channels, history>>

\* A receiver may write into the response of its event, and the caller, to whom Request
\* returns after the dispatch, into the one it got.
ReceiverWrites(r, part) == r \in taken /\ Writes(event[r][part], Completed)

CallerWrites(r, part) == pc[r] = "done" /\ Writes(Completed[part], event[r])

Cancel(r) ==
    /\ r \notin cancelled
    /\ pc[r] # "done"
    /\ cancelled' = cancelled \cup {r}
    /\ UNCHANGED <<registered, offered, at, pc, event, disturbed, channels, history>>

Offer(r) == Deliver(r) \/ ContextDone(r) \/ Skip(r)

Next ==
    \/ \E r \in Requests, c \in Channels : OnCompleted(r, c)
    \/ \E r \in Requests : dispatch(r) \/ Offer(r) \/ Cancel(r)
    \/ \E r \in Requests, part \in Parts : ReceiverWrites(r, part) \/ CallerWrites(r, part)
    \/ \E c \in Channels : Receive(c)

Spec == Init /\ [][Next]_vars

\* The goroutine of a request runs.  Nobody has to receive.
FairSpec == Spec /\ \A r \in Requests : WF_vars(Offer(r))

-------------------------------------------------------------------------------
(* Properties. *)

\* Every variable stays in its range: a channel never holds more than its capacity,
\* and a goroutine that waits for an event waits on an empty channel.
TypeOK ==
    /\ registered \in [Requests -> Seq(Channels)]
    /\ offered \in [Requests -> Seq(Channels)]
    /\ pc \in [Requests -> {"running", "dispatching", "done"}]
    /\ cancelled \subseteq Requests
    /\ \A r \in Requests : at[r] \in 1 .. MaxRegistrations + 1
    /\ buffer \in [Channels -> Seq(Requests)]
    /\ \A c \in Channels : Len(buffer[c]) <= Capacity[c]
    /\ \A c \in listening : buffer[c] = <<>>
    /\ taken \subseteq Requests
    /\ event \in [Requests -> {None} \cup [Parts -> Memory]]
    /\ disturbed \subseteq Parts

\* A channel that takes no event costs no other channel its own: every registration
\* that was there when the request completed is offered exactly one event, unless the
\* context ends.  An event is lost only by a channel that has taken as many as its buffer
\* holds, from whichever requests: one with room for all of them needs no receiver.
EachChannelOffered ==
    \A r \in Requests :
        /\ delivered[r] \cap skipped[r] = {}
        /\ pc[r] = "done" /\ r \notin cancelled
            => delivered[r] \cup skipped[r] = 1 .. Len(offered[r])
        /\ \A i \in skipped[r] : sent[offered[r][i]] >= Capacity[offered[r][i]]

\* A request is not held up by receivers that do not receive.
DispatchEnds == \A r \in Requests : pc[r] = "dispatching" ~> pc[r] = "done"

\* What lies outside the copy, although the caller and the receivers have both: a write
\* there is seen by the other.  None of it is the server's answer.
SharedParts == {"RequestBody", "TLS", "request", "TraceInfo"}

\* Of the answer itself, its data, headers and trailers down to the single values, and of
\* the http.Request with its URL and headers, the caller never sees what receivers write
\* into the response they were sent, nor they what the caller writes into its own,
\* although both have theirs at the same time.
Isolated == disturbed \subseteq SharedParts

===============================================================================
