--------------------------- MODULE EventDispatchProofs ---------------------------
(***************************************************************************)
(* Dispatch, for any number of requests, channels and receivers: which     *)
(* channels an event was offered to, who has which response, and what a    *)
(* channel holds.                                                          *)
(***************************************************************************)
EXTENDS EventDispatch, TLAPS

Offered(r) == delivered[r] \cup skipped[r]

\* How far the dispatch of r has come is what was delivered and skipped, together.
ProgressOf(r) ==
    /\ delivered[r] \cap skipped[r] = {}
    /\ pc[r] = "running" => at[r] = 1 /\ Offered(r) = {}
    /\ pc[r] = "dispatching" => at[r] \in 1 .. Len(offered[r]) /\ Offered(r) = 1 .. at[r] - 1
    /\ pc[r] = "done" /\ r \notin cancelled => Offered(r) = 1 .. Len(offered[r])

OffersOK ==
    /\ at \in [Requests -> Nat \ {0}]
    /\ pc \in [Requests -> {"running", "dispatching", "done"}]
    /\ registered \in [Requests -> Seq(Channels)]
    /\ offered \in [Requests -> Seq(Channels)]
    /\ delivered \in [Requests -> SUBSET Nat]
    /\ skipped \in [Requests -> SUBSET Nat]
    /\ \A r \in Requests : ProgressOf(r)

\* One more channel was delivered to or skipped.
LEMMA OneMore ==
    ASSUME OffersOK, NEW r \in Requests, pc[r] = "dispatching", NextChannel(r),
           UNCHANGED <<registered, offered, cancelled>>,
           \/ /\ delivered' = [delivered EXCEPT ![r] = @ \cup {at[r]}]
              /\ UNCHANGED skipped
           \/ /\ skipped' = [skipped EXCEPT ![r] = @ \cup {at[r]}]
              /\ UNCHANGED delivered
    PROVE  OffersOK'
<1>1. /\ at' = [at EXCEPT ![r] = @ + 1]
      /\ pc' = [pc EXCEPT ![r] = IF at[r] = Len(offered[r]) THEN "done" ELSE "dispatching"]
  BY DEF NextChannel
<1>2. /\ at[r] \in Nat /\ Len(offered[r]) \in Nat /\ at[r] \in 1 .. Len(offered[r])
      /\ Offered(r) = 1 .. at[r] - 1 /\ delivered[r] \cap skipped[r] = {}
  BY DEF OffersOK, ProgressOf
<1>3. /\ at' \in [Requests -> Nat \ {0}]
      /\ pc' \in [Requests -> {"running", "dispatching", "done"}]
      /\ delivered' \in [Requests -> SUBSET Nat]
      /\ skipped' \in [Requests -> SUBSET Nat]
  <2>1. at' \in [Requests -> Nat \ {0}]
    BY <1>1, <1>2 DEF OffersOK
  <2>2. pc' \in [Requests -> {"running", "dispatching", "done"}]
    BY <1>1 DEF OffersOK
  <2>0. /\ delivered[r] \cup {at[r]} \in SUBSET Nat
        /\ skipped[r] \cup {at[r]} \in SUBSET Nat
    BY <1>2 DEF OffersOK
  <2>3. delivered' \in [Requests -> SUBSET Nat]
    BY <2>0, Zenon DEF OffersOK
  <2>4. skipped' \in [Requests -> SUBSET Nat]
    BY <2>0, Zenon DEF OffersOK
  <2>. QED
    BY <2>1, <2>2, <2>3, <2>4
<1>4. ASSUME NEW q \in Requests PROVE ProgressOf(q)'
  <2>1. CASE q # r
    BY <1>1, <1>4, <2>1 DEF OffersOK, ProgressOf, Offered
  <2>2. CASE q = r
    <3>1. at[r] \notin Offered(r)
      BY <1>2
    <3>2. Offered(r)' = Offered(r) \cup {at[r]} /\ (delivered[r] \cap skipped[r] = {})'
      BY <1>2, <3>1 DEF Offered, OffersOK
    <3>3. Offered(r)' = 1 .. at[r]
      BY <1>2, <3>2
    <3>4. at'[r] = at[r] + 1
      BY <1>1 DEF OffersOK
    <3>5. CASE at[r] = Len(offered[r])
      <4>1. pc'[r] = "done"
        BY <1>1, <3>5 DEF OffersOK
      <4>. QED
        BY <2>2, <3>2, <3>3, <3>5, <4>1 DEF ProgressOf
    <3>6. CASE at[r] # Len(offered[r])
      <4>1. pc'[r] = "dispatching"
        BY <1>1, <3>6 DEF OffersOK
      <4>2. at'[r] \in 1 .. Len(offered'[r]) /\ at'[r] - 1 = at[r]
        BY <1>2, <3>4, <3>6
      <4>3. Offered(r)' = 1 .. at'[r] - 1
        BY <3>3, <4>2
      <4>. QED
        BY <2>2, <3>2, <4>1, <4>2, <4>3 DEF ProgressOf
    <3>. QED
      BY <3>5, <3>6
  <2>. QED
    BY <2>1, <2>2
<1>. QED
  BY <1>3, <1>4 DEF OffersOK

LEMMA StepOffers == OffersOK /\ [Next]_vars => OffersOK'
<1>. SUFFICES ASSUME OffersOK, [Next]_vars PROVE OffersOK'
  OBVIOUS
<1>1. ASSUME NEW r \in Requests, NEW c \in Channels, OnCompleted(r, c) PROVE OffersOK'
  <2>1. registered' \in [Requests -> Seq(Channels)]
    BY <1>1 DEF OnCompleted, OffersOK
  <2>. QED
    BY <1>1, <2>1 DEF OnCompleted, OffersOK, ProgressOf, Offered, history
<1>2. ASSUME NEW r \in Requests, dispatch(r) PROVE OffersOK'
  <2>1. /\ offered' \in [Requests -> Seq(Channels)]
        /\ pc' \in [Requests -> {"running", "dispatching", "done"}]
        /\ UNCHANGED <<registered, at, delivered, skipped, cancelled>>
    BY <1>2 DEF dispatch, OffersOK, history
  <2>2. ASSUME NEW q \in Requests PROVE ProgressOf(q)'
    <3>1. CASE q # r
      BY <1>2, <2>1, <2>2, <3>1 DEF dispatch, OffersOK, ProgressOf, Offered
    <3>2. CASE q = r
      <4>1. /\ pc[r] = "running" /\ at[r] = 1 /\ Offered(r) = {}
            /\ delivered[r] \cap skipped[r] = {}
            /\ offered'[r] = registered[r]
            /\ registered[r] \in Seq(Channels)
            /\ pc'[r] = IF registered[r] = <<>> THEN "done" ELSE "dispatching"
        BY <1>2 DEF dispatch, OffersOK, ProgressOf
      <4>2. CASE registered[r] = <<>>
        BY <2>1, <3>2, <4>1, <4>2 DEF ProgressOf, Offered
      <4>3. CASE registered[r] # <<>>
        <5>1. Len(registered[r]) \in Nat \ {0}
          BY <4>1, <4>3
        <5>. QED
          BY <2>1, <3>2, <4>1, <4>3, <5>1 DEF ProgressOf, Offered
      <4>. QED
        BY <4>2, <4>3
    <3>. QED
      BY <3>1, <3>2
  <2>. QED
    BY <2>1, <2>2 DEF OffersOK
<1>3. ASSUME NEW r \in Requests, Deliver(r) \/ Skip(r) PROVE OffersOK'
  BY <1>3, OneMore DEF Deliver, Skip
<1>4. ASSUME NEW r \in Requests, ContextDone(r) PROVE OffersOK'
  BY <1>4 DEF ContextDone, OffersOK, ProgressOf, Offered, history
<1>5. ASSUME NEW r \in Requests, Cancel(r) PROVE OffersOK'
  BY <1>5 DEF Cancel, OffersOK, ProgressOf, Offered, history
<1>6. ASSUME NEW r \in Requests, NEW part \in Parts,
             ReceiverWrites(r, part) \/ CallerWrites(r, part)
      PROVE  OffersOK'
  BY <1>6 DEF ReceiverWrites, CallerWrites, Writes, OffersOK, ProgressOf, Offered, history
<1>7. ASSUME NEW c \in Channels, Receive(c) PROVE OffersOK'
  BY <1>7 DEF Receive, OffersOK, ProgressOf, Offered, history
<1>8. CASE UNCHANGED vars
  BY <1>8 DEF vars, OffersOK, ProgressOf, Offered, history
<1>. QED
  BY <1>1, <1>2, <1>3, <1>4, <1>5, <1>6, <1>7, <1>8 DEF Next, Offer

-------------------------------------------------------------------------------
(* Who has which response. *)

\* The response in the events of a request.
Sent == deepCopy(Completed)

\* Events of a request, in a channel or taken from it, have the copy.
CopiesOK ==
    /\ event \in [Requests -> {None, Sent}]
    /\ buffer \in [Channels -> Seq(Requests)]
    /\ taken \subseteq Requests
    /\ pc \in [Requests -> {"running", "dispatching", "done"}]
    /\ \A r \in Requests :
          /\ pc[r] # "running" => event[r] = Sent
          /\ r \in taken => event[r] = Sent
    /\ \A c \in Channels : \A i \in 1 .. Len(buffer[c]) :
          event[buffer[c][i]] = Sent
    /\ disturbed \subseteq SharedParts

\* The copy is of other memory than the response in every part that is not shared, and no
\* part of the one is another part of the other.
LEMMA CopyApart ==
    ASSUME NEW part \in Parts, NEW other \in Parts,
           Sent[part] = Completed[other]
    PROVE  part = other /\ part \in SharedParts
BY DEF Sent, deepCopy, Completed, SharedParts, Parts

\* A write into the one shows in the other in shared parts only.
LEMMA WritesShow ==
    ASSUME NEW part \in Parts,
           \/ Writes(Sent[part], Completed)
           \/ Writes(Completed[part], Sent)
    PROVE  disturbed' \subseteq SharedParts
BY CopyApart DEF Writes

LEMMA StepCopies == OffersOK /\ CopiesOK /\ [Next]_vars => CopiesOK'
<1>. SUFFICES ASSUME OffersOK, CopiesOK, [Next]_vars PROVE CopiesOK'
  OBVIOUS
<1>1. ASSUME NEW r \in Requests, NEW c \in Channels, OnCompleted(r, c) PROVE CopiesOK'
  BY <1>1 DEF OnCompleted, CopiesOK, channels
<1>2. ASSUME NEW r \in Requests, dispatch(r) PROVE CopiesOK'
  <2>1. /\ event' = [event EXCEPT ![r] = Sent]
        /\ pc' = [pc EXCEPT ![r] = IF registered[r] = <<>> THEN "done" ELSE "dispatching"]
        /\ UNCHANGED <<buffer, listening, taken, disturbed>>
    BY <1>2 DEF dispatch, Sent, channels
  <2>2. event' \in [Requests -> {None, Sent}]
        /\ pc' \in [Requests -> {"running", "dispatching", "done"}]
    BY <2>1 DEF CopiesOK
  <2>3. \A q \in Requests : /\ event[q] = Sent => event'[q] = Sent
                            /\ pc'[q] # "running" => event'[q] = Sent
    BY <2>1 DEF CopiesOK
  <2>4. \A c \in Channels : \A i \in 1 .. Len(buffer[c]) : buffer[c][i] \in Requests
    BY DEF CopiesOK
  <2>. QED
    BY <2>1, <2>2, <2>3, <2>4 DEF CopiesOK
<1>3. ASSUME NEW r \in Requests, Deliver(r) PROVE CopiesOK'
  <2>1. event[r] = Sent /\ UNCHANGED <<event, disturbed>>
    BY <1>3 DEF Deliver, CopiesOK
  <2>2. PICK c \in Channels : SendTo(r, c)
    <3>1. offered[r] \in Seq(Channels) /\ at[r] \in 1 .. Len(offered[r])
      BY <1>3 DEF Deliver, OffersOK, ProgressOf
    <3>. QED
      BY <1>3, <3>1 DEF Deliver
  <2>3. pc' \in [Requests -> {"running", "dispatching", "done"}]
        /\ \A q \in Requests : pc'[q] # "running" => event[q] = Sent
    BY <1>3, <2>1 DEF Deliver, NextChannel, CopiesOK
  <2>4. CASE c \in listening
    BY <2>1, <2>2, <2>3, <2>4 DEF SendTo, CopiesOK
  <2>5. CASE c \notin listening
    <3>1. buffer' = [buffer EXCEPT ![c] = Append(@, r)] /\ UNCHANGED taken
      BY <2>2, <2>5 DEF SendTo
    <3>2. buffer[c] \in Seq(Requests)
      BY DEF CopiesOK
    <3>3. /\ Append(buffer[c], r) \in Seq(Requests)
          /\ \A i \in 1 .. Len(Append(buffer[c], r)) : event[Append(buffer[c], r)[i]] = Sent
      BY <2>1, <3>2 DEF CopiesOK
    <3>. QED
      BY <2>1, <2>3, <3>1, <3>3 DEF CopiesOK
  <2>. QED
    BY <2>4, <2>5
<1>4. ASSUME NEW r \in Requests, Skip(r) \/ ContextDone(r) PROVE CopiesOK'
  <2>1. UNCHANGED <<event, disturbed, buffer, taken>> /\ event[r] = Sent
    BY <1>4 DEF Skip, ContextDone, CopiesOK, channels
  <2>2. pc' \in [Requests -> {"running", "dispatching", "done"}]
        /\ \A q \in Requests : pc'[q] # "running" => event[q] = Sent
    BY <1>4, <2>1 DEF Skip, ContextDone, NextChannel, CopiesOK
  <2>. QED
    BY <2>1, <2>2 DEF CopiesOK
<1>5. ASSUME NEW r \in Requests, Cancel(r) PROVE CopiesOK'
  BY <1>5 DEF Cancel, CopiesOK, channels
<1>6. ASSUME NEW r \in Requests, NEW part \in Parts,
             ReceiverWrites(r, part) \/ CallerWrites(r, part)
      PROVE  CopiesOK'
  <2>1. event[r] = Sent
    BY <1>6 DEF ReceiverWrites, CallerWrites, CopiesOK
  <2>2. disturbed' \subseteq SharedParts
    BY <1>6, <2>1, WritesShow DEF ReceiverWrites, CallerWrites
  <2>3. UNCHANGED <<event, buffer, taken, pc>>
    BY <1>6 DEF ReceiverWrites, CallerWrites, Writes, channels
  <2>. QED
    BY <2>2, <2>3 DEF CopiesOK
<1>7. ASSUME NEW c \in Channels, Receive(c) PROVE CopiesOK'
  <2>1. UNCHANGED <<event, disturbed, pc>> /\ buffer[c] \in Seq(Requests)
    BY <1>7 DEF Receive, CopiesOK
  <2>2. CASE buffer[c] = <<>>
    BY <1>7, <2>1, <2>2 DEF Receive, CopiesOK
  <2>3. CASE buffer[c] # <<>>
    <3>1. buffer' = [buffer EXCEPT ![c] = Tail(@)] /\ taken' = taken \cup {Head(buffer[c])}
      BY <1>7, <2>3 DEF Receive
    <3>2. Head(buffer[c]) \in Requests /\ event[Head(buffer[c])] = Sent
      BY <2>1, <2>3 DEF CopiesOK
    <3>3. /\ Tail(buffer[c]) \in Seq(Requests)
          /\ \A i \in 1 .. Len(Tail(buffer[c])) : event[Tail(buffer[c])[i]] = Sent
      BY <2>1, <2>3 DEF CopiesOK
    <3>. QED
      BY <2>1, <3>1, <3>2, <3>3 DEF CopiesOK
  <2>. QED
    BY <2>2, <2>3
<1>8. CASE UNCHANGED vars
  BY <1>8 DEF vars, channels, CopiesOK
<1>. QED
  BY <1>1, <1>2, <1>3, <1>4, <1>5, <1>6, <1>7, <1>8 DEF Next, Offer

\* Whatever the caller and the receivers write into the responses they have, neither sees
\* it of the other in the answer or in the http.Request; in four parts that the copy
\* shares with its original they may.
THEOREM ResponsesIsolated == Spec => []Isolated
<1>1. Init => OffersOK /\ CopiesOK
  BY DEF Init, OffersOK, ProgressOf, Offered, CopiesOK
<1>2. CopiesOK => Isolated
  BY DEF CopiesOK, Isolated
<1>. QED
  BY <1>1, <1>2, StepOffers, StepCopies, PTL DEF Spec

-------------------------------------------------------------------------------
(* Which channels an event was offered to, and which lost it. *)

\* What a channel holds it was sent, and whoever skipped it found it full.
FullOK ==
    /\ sent \in [Channels -> Nat]
    /\ \A c \in Channels : Len(buffer[c]) <= sent[c]
    /\ \A r \in Requests : \A i \in skipped[r] :
          /\ i \in 1 .. Len(offered[r])
          /\ sent[offered[r][i]] >= Capacity[offered[r][i]]
    /\ \A r \in Requests : pc[r] = "running" => skipped[r] = {}

LEMMA StepFull == OffersOK /\ CopiesOK /\ FullOK /\ [Next]_vars => FullOK'
<1>. SUFFICES ASSUME OffersOK, CopiesOK, FullOK, [Next]_vars PROVE FullOK'
  OBVIOUS
<1>0. /\ Capacity \in [Channels -> Nat]
      /\ \A r \in Requests : offered[r] \in Seq(Channels)
      /\ \A c \in Channels : sent[c] \in Nat /\ buffer[c] \in Seq(Requests)
  BY CapacityAssumption DEF OffersOK, CopiesOK, FullOK
<1>1. ASSUME NEW r \in Requests, dispatch(r) PROVE FullOK'
  <2>1. /\ offered' = [offered EXCEPT ![r] = registered[r]]
        /\ skipped[r] = {}
        /\ UNCHANGED <<sent, buffer, skipped>>
        /\ \A q \in Requests : pc'[q] = "running" => pc[q] = "running"
    BY <1>1 DEF dispatch, FullOK, OffersOK, channels, history
  <2>. QED
    BY <2>1 DEF FullOK, OffersOK
<1>2. ASSUME NEW r \in Requests, Deliver(r) PROVE FullOK'
  <2>1. /\ UNCHANGED <<offered, skipped>>
        /\ \A q \in Requests : pc'[q] = "running" => pc[q] = "running"
    BY <1>2 DEF Deliver, NextChannel, OffersOK
  <2>2. PICK c \in Channels : SendTo(r, c)
    <3>1. offered[r] \in Seq(Channels) /\ at[r] \in 1 .. Len(offered[r])
      BY <1>2 DEF Deliver, OffersOK, ProgressOf
    <3>. QED
      BY <1>2, <3>1 DEF Deliver
  <2>3. sent' = [sent EXCEPT ![c] = @ + 1]
    BY <2>2 DEF SendTo
  <2>4. sent' \in [Channels -> Nat] /\ \A d \in Channels : sent[d] <= sent'[d]
    BY <1>0, <2>3 DEF FullOK
  <2>5. \A d \in Channels : Len(buffer'[d]) <= sent'[d]
    <3>1. buffer' = buffer \/ buffer' = [buffer EXCEPT ![c] = Append(@, r)]
      BY <2>2 DEF SendTo
    <3>2. Len(Append(buffer[c], r)) = Len(buffer[c]) + 1
      BY <1>0
    <3>. QED
      BY <1>0, <2>3, <2>4, <3>1, <3>2 DEF FullOK, CopiesOK
  <2>6. ASSUME NEW q \in Requests, NEW i \in skipped[q]
        PROVE  i \in 1 .. Len(offered[q]) /\ sent'[offered[q][i]] >= Capacity[offered[q][i]]
    <3>1. i \in 1 .. Len(offered[q]) /\ sent[offered[q][i]] >= Capacity[offered[q][i]]
      BY DEF FullOK
    <3>2. offered[q][i] \in Channels
      BY <1>0, <3>1
    <3>. QED
      BY <1>0, <2>4, <3>1, <3>2
  <2>. QED
    BY <2>1, <2>4, <2>5, <2>6 DEF FullOK
<1>3. ASSUME NEW r \in Requests, Skip(r) PROVE FullOK'
  <2>1. /\ UNCHANGED <<offered, sent, buffer>>
        /\ skipped' = [skipped EXCEPT ![r] = @ \cup {at[r]}]
        /\ pc[r] = "dispatching"
        /\ pc' = [pc EXCEPT ![r] = IF at[r] = Len(offered[r]) THEN "done" ELSE "dispatching"]
    BY <1>3 DEF Skip, NextChannel, channels
  <2>2. at[r] \in 1 .. Len(offered[r]) /\ offered[r][at[r]] \in Channels
    BY <1>0, <2>1 DEF OffersOK, ProgressOf
  <2>3. sent[offered[r][at[r]]] >= Capacity[offered[r][at[r]]]
    BY <1>0, <1>3, <2>2 DEF Skip, Ready, FullOK
  <2>. QED
    BY <2>1, <2>2, <2>3 DEF FullOK, OffersOK
<1>4. ASSUME NEW c \in Channels, Receive(c) PROVE FullOK'
  <2>1. UNCHANGED <<offered, sent, skipped, pc>>
    BY <1>4 DEF Receive, history
  <2>2. \A d \in Channels : Len(buffer'[d]) <= Len(buffer[d])
    <3>1. CASE buffer[c] = <<>>
      BY <1>0, <1>4, <3>1 DEF Receive
    <3>2. CASE buffer[c] # <<>>
      <4>1. Len(Tail(buffer[c])) <= Len(buffer[c])
        BY <1>0, <3>2
      <4>. QED
        BY <1>0, <1>4, <3>2, <4>1 DEF Receive, CopiesOK
    <3>. QED
      BY <3>1, <3>2
  <2>3. buffer' \in [Channels -> Seq(Requests)]
    BY <1>4, StepCopies DEF CopiesOK, Next
  <2>4. \A d \in Channels : Len(buffer'[d]) <= sent[d]
    BY <1>0, <2>2, <2>3 DEF FullOK
  <2>. QED
    BY <2>1, <2>4 DEF FullOK
<1>5. ASSUME UNCHANGED <<offered, sent, buffer, skipped>>,
             \A q \in Requests : pc'[q] = "running" => pc[q] = "running"
      PROVE  FullOK'
  BY <1>5 DEF FullOK
<1>6. ASSUME NEW r \in Requests, ContextDone(r) PROVE FullOK'
  BY <1>5, <1>6 DEF ContextDone, OffersOK, channels, history
<1>. QED
  BY <1>1, <1>2, <1>3, <1>4, <1>5, <1>6
     DEF Next, Offer, OnCompleted, Cancel, ReceiverWrites, CallerWrites, Writes, vars, channels,
         history

\* Whatever receivers, other requests and later registrations do, each channel of the
\* snapshot is offered exactly one event, unless the context ends, and loses it only when
\* as many as its buffer holds were sent to it.
THEOREM EachIsOffered == Spec => []EachChannelOffered
<1>1. Init => OffersOK /\ CopiesOK /\ FullOK
  BY DEF Init, OffersOK, ProgressOf, Offered, CopiesOK, FullOK
<1>2. OffersOK /\ FullOK => EachChannelOffered
  BY DEF OffersOK, FullOK, ProgressOf, Offered, EachChannelOffered
<1>. QED
  BY <1>1, <1>2, StepOffers, StepCopies, StepFull, PTL DEF Spec

-------------------------------------------------------------------------------
(* The channels and the bounds. *)

\* A goroutine waits on an empty channel only, and whoever sends to a channel with a
\* buffer has found room in it.
ChannelsOK ==
    /\ cancelled \subseteq Requests
    /\ listening \subseteq Channels
    /\ \A c \in Channels : Len(buffer[c]) <= Capacity[c]
    /\ \A c \in listening : buffer[c] = <<>>

LEMMA StepChannels == OffersOK /\ CopiesOK /\ ChannelsOK /\ [Next]_vars => ChannelsOK'
<1>. SUFFICES ASSUME OffersOK, CopiesOK, ChannelsOK, [Next]_vars PROVE ChannelsOK'
  OBVIOUS
<1>1. ASSUME NEW r \in Requests, Deliver(r) PROVE ChannelsOK'
  <2>1. UNCHANGED cancelled
    BY <1>1 DEF Deliver
  <2>2. PICK c \in Channels : Ready(c) /\ SendTo(r, c)
    <3>1. offered[r] \in Seq(Channels) /\ at[r] \in 1 .. Len(offered[r])
      BY <1>1 DEF Deliver, OffersOK, ProgressOf
    <3>. QED
      BY <1>1, <3>1 DEF Deliver
  <2>3. CASE c \in listening
    BY <2>1, <2>2, <2>3 DEF SendTo, ChannelsOK
  <2>4. CASE c \notin listening
    <3>1. buffer' = [buffer EXCEPT ![c] = Append(@, r)] /\ UNCHANGED listening
      BY <2>2, <2>4 DEF SendTo
    <3>2. buffer[c] \in Seq(Requests) /\ Capacity[c] \in Nat /\ Len(buffer[c]) < Capacity[c]
      BY <2>2, <2>4, CapacityAssumption DEF Ready, CopiesOK
    <3>3. Len(Append(buffer[c], r)) <= Capacity[c]
      BY <3>2
    <3>. QED
      BY <2>1, <2>4, <3>1, <3>3 DEF ChannelsOK, CopiesOK
  <2>. QED
    BY <2>3, <2>4
<1>2. ASSUME NEW c \in Channels, Receive(c) PROVE ChannelsOK'
  <2>1. UNCHANGED cancelled /\ buffer[c] \in Seq(Requests) /\ Capacity[c] \in Nat
    BY <1>2, CapacityAssumption DEF Receive, CopiesOK
  <2>2. CASE buffer[c] = <<>>
    BY <1>2, <2>1, <2>2 DEF Receive, ChannelsOK
  <2>3. CASE buffer[c] # <<>>
    <3>1. buffer' = [buffer EXCEPT ![c] = Tail(@)] /\ UNCHANGED listening
      BY <1>2, <2>3 DEF Receive
    <3>2. Len(Tail(buffer[c])) <= Capacity[c] /\ c \notin listening
      BY <2>1, <2>3 DEF ChannelsOK
    <3>. QED
      BY <2>1, <3>1, <3>2 DEF ChannelsOK, CopiesOK
  <2>. QED
    BY <2>2, <2>3
<1>3. ASSUME NEW r \in Requests, Cancel(r) PROVE ChannelsOK'
  BY <1>3 DEF Cancel, ChannelsOK, channels
<1>4. CASE UNCHANGED <<cancelled, buffer, listening>>
  BY <1>4 DEF ChannelsOK
<1>. QED
  BY <1>1, <1>2, <1>3, <1>4
     DEF Next, Offer, OnCompleted, dispatch, ContextDone, Skip, ReceiverWrites, CallerWrites,
         Writes, vars, channels

\* dispatch stays within the channels that were registered.
PositionsOK ==
    \A r \in Requests :
        /\ Len(registered[r]) <= MaxRegistrations
        /\ Len(offered[r]) <= MaxRegistrations
        /\ at[r] <= Len(offered[r]) + 1

LEMMA StepPositions == OffersOK /\ PositionsOK /\ [Next]_vars => PositionsOK'
<1>. SUFFICES ASSUME OffersOK, PositionsOK, [Next]_vars PROVE PositionsOK'
  OBVIOUS
<1>0. MaxRegistrations \in Nat
  BY CapacityAssumption
<1>1. ASSUME NEW r \in Requests, NEW c \in Channels, OnCompleted(r, c) PROVE PositionsOK'
  <2>1. /\ registered' = [registered EXCEPT ![r] = Append(@, c)]
        /\ UNCHANGED <<offered, at>>
        /\ registered[r] \in Seq(Channels)
        /\ Len(registered[r]) < MaxRegistrations
    BY <1>1 DEF OnCompleted, OffersOK
  <2>2. Len(Append(registered[r], c)) <= MaxRegistrations
    BY <1>0, <2>1
  <2>. QED
    BY <2>1, <2>2 DEF PositionsOK, OffersOK
<1>2. ASSUME NEW r \in Requests, dispatch(r) PROVE PositionsOK'
  <2>1. /\ offered' = [offered EXCEPT ![r] = registered[r]]
        /\ UNCHANGED <<registered, at>>
        /\ at[r] = 1
        /\ registered[r] \in Seq(Channels)
    BY <1>2 DEF dispatch, OffersOK, ProgressOf
  <2>2. at[r] <= Len(registered[r]) + 1
    BY <2>1
  <2>. QED
    BY <2>1, <2>2 DEF PositionsOK, OffersOK
<1>3. ASSUME NEW r \in Requests, Deliver(r) \/ Skip(r) PROVE PositionsOK'
  <2>1. /\ at' = [at EXCEPT ![r] = @ + 1]
        /\ UNCHANGED <<registered, offered>>
        /\ at[r] \in 1 .. Len(offered[r])
        /\ offered[r] \in Seq(Channels)
    BY <1>3 DEF Deliver, Skip, NextChannel, OffersOK, ProgressOf
  <2>2. at[r] + 1 <= Len(offered[r]) + 1
    BY <2>1
  <2>. QED
    BY <2>1, <2>2 DEF PositionsOK, OffersOK
<1>4. CASE UNCHANGED <<registered, offered, at>>
  BY <1>4 DEF PositionsOK
<1>. QED
  BY <1>1, <1>2, <1>3, <1>4
     DEF Next, Offer, ContextDone, Cancel, Receive, ReceiverWrites, CallerWrites, Writes, vars

\* No channel ever holds more than its capacity and nobody waits on one that has an
\* event, with any number of requests sending to it and of goroutines receiving.
THEOREM DispatchTypeCorrect == Spec => []TypeOK
<1>1. Init => OffersOK /\ CopiesOK /\ ChannelsOK /\ PositionsOK
  <2>. SUFFICES ASSUME Init PROVE OffersOK /\ CopiesOK /\ ChannelsOK /\ PositionsOK
    OBVIOUS
  <2>1. OffersOK /\ CopiesOK
    BY DEF Init, OffersOK, ProgressOf, Offered, CopiesOK
  <2>. QED
    BY <2>1, CapacityAssumption DEF Init, ChannelsOK, PositionsOK
<1>2. OffersOK /\ CopiesOK /\ ChannelsOK /\ PositionsOK => TypeOK
  <2>. SUFFICES ASSUME OffersOK, CopiesOK, ChannelsOK, PositionsOK PROVE TypeOK
    OBVIOUS
  <2>1. ASSUME NEW r \in Requests PROVE at[r] \in 1 .. MaxRegistrations + 1
    <3>1. /\ at[r] \in Nat \ {0} /\ Len(offered[r]) \in Nat /\ MaxRegistrations \in Nat
          /\ Len(offered[r]) <= MaxRegistrations /\ at[r] <= Len(offered[r]) + 1
      BY CapacityAssumption DEF OffersOK, PositionsOK
    <3>. QED
      BY <3>1
  <2>2. Sent \in [Parts -> Memory]
    BY DEF Sent, deepCopy, Completed, Memory, Parts
  <2>3. event \in [Requests -> {None} \cup [Parts -> Memory]]
    BY <2>2 DEF CopiesOK
  <2>4. disturbed \subseteq Parts
    BY DEF CopiesOK, SharedParts, Parts
  <2>. QED
    BY <2>1, <2>3, <2>4 DEF OffersOK, CopiesOK, ChannelsOK, TypeOK
<1>. QED
  BY <1>1, <1>2, StepOffers, StepCopies, StepChannels, StepPositions, PTL DEF Spec

===============================================================================
