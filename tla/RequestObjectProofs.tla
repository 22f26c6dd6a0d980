-------------------------- MODULE RequestObjectProofs --------------------------
(***************************************************************************)
(* What a request keeps to, for any options, headers, parameters and sizes *)
(* and any order of its callers and its sends.  First the headers: no two  *)
(* holders share a map, for any number of instances and requests; hence    *)
(* the maps implement headers that are values; and every step of a request *)
(* does to them what HeaderMaps allows.  Then the sizes, of the body in    *)
(* the metrics and of the response, the URL, and what newRequest makes of  *)
(* its options.                                                            *)
(***************************************************************************)
EXTENDS RequestObject, PathParamsProofs

(* The header maps. *)

\* The maps are where they can be, and nobody shares one.
HeapOK ==
    /\ place \in [Holders -> Addresses \cup {Nil}]
    /\ mem \in [Addresses -> Maps]
    /\ NeverShared

\* What all holders see.
View == [h \in Holders |-> HeadersOf(h)]

-------------------------------------------------------------------------------
(* The two things that operations do: make a map, and write into one. *)

\* What a holder sees is a map of headers.
LEMMA SeenIsMap == ASSUME HeapOK, NEW h \in Holders PROVE HeadersOf(h) \in Maps
BY DEF HeapOK, HeadersOf, NoHeaders, Maps

\* A new map is nobody else's, and what the others see stays.
LEMMA MakeChangesOne ==
    ASSUME HeapOK, NEW h \in Holders, NEW m \in Maps, Make(h, m)
    PROVE  HeapOK' /\ View' = [View EXCEPT ![h] = m]
<1>. DEFINE a == CHOOSE x \in Unused : TRUE
            others == {place[g] : g \in Holders \ {h}}
<1>1. a \in Addresses /\ \A g \in Holders : place[g] # a
  <2>1. Unused # {}
    BY DEF Make
  <2>2. a \in Unused
    BY <2>1
  <2>. QED
    BY <2>2 DEF Unused
<1>2. /\ place' = [place EXCEPT ![h] = a]
      /\ mem' = [b \in Addresses |->
                   IF b = a THEN m ELSE IF b \in others THEN mem[b] ELSE NoHeaders]
  BY DEF Make
<1>. HIDE DEF a
<1>3. place' \in [Holders -> Addresses \cup {Nil}]
  BY <1>1, <1>2 DEF HeapOK
<1>4. NoHeaders \in Maps
  BY DEF NoHeaders, Maps
<1>5. mem' \in [Addresses -> Maps]
  BY <1>2, <1>4 DEF HeapOK
<1>6. NeverShared'
  BY <1>1, <1>2 DEF HeapOK, NeverShared
<1>7. HeadersOf(h)' = m
  <2>1. a # Nil
    BY <1>1, AddressesAssumption
  <2>. QED
    BY <1>1, <1>2, <2>1 DEF HeapOK, HeadersOf
<1>8. ASSUME NEW g \in Holders, g # h PROVE HeadersOf(g)' = HeadersOf(g)
  <2>1. place'[g] = place[g] /\ place[g] # a /\ place[g] \in others
    BY <1>1, <1>2, <1>8 DEF HeapOK
  <2>2. place[g] # Nil => place[g] \in Addresses
    BY DEF HeapOK
  <2>. QED
    BY <1>2, <2>1, <2>2 DEF HeadersOf
<1>. QED
  BY <1>3, <1>5, <1>6, <1>7, <1>8 DEF HeapOK, View

\* So does a write, because nobody else has the map.
LEMMA WriteChangesOne ==
    ASSUME HeapOK, NEW h \in Holders, NEW m \in Maps, Write(h, m)
    PROVE  HeapOK' /\ View' = [View EXCEPT ![h] = m]
<1>1. CASE place[h] = Nil
  BY <1>1, MakeChangesOne DEF Write
<1>2. CASE place[h] # Nil
  <2>1. mem' = [mem EXCEPT ![place[h]] = m] /\ place' = place
    BY <1>2 DEF Write
  <2>2. place[h] \in Addresses
    BY <1>2 DEF HeapOK
  <2>3. HeapOK'
    BY <2>1, <2>2 DEF HeapOK, NeverShared
  <2>4. HeadersOf(h)' = m
    BY <1>2, <2>1, <2>2 DEF HeapOK, HeadersOf
  <2>5. ASSUME NEW g \in Holders, g # h PROVE HeadersOf(g)' = HeadersOf(g)
    BY <1>2, <2>1, <2>2, <2>5 DEF HeapOK, HeadersOf, NeverShared
  <2>. QED
    BY <2>3, <2>4, <2>5 DEF View
<1>. QED
  BY <1>1, <1>2

-------------------------------------------------------------------------------
(* Every action changes one holder's headers, and in a way the promise allows. *)

\* What the operations make of maps are maps.
LEMMA OverlayIsMap == ASSUME NEW a \in Maps, NEW b \in Maps PROVE Overlay(a, b) \in Maps
BY DEF Overlay, Maps

LEMMA WithoutIsMap == ASSUME NEW a \in Maps, NEW n \in Names PROVE Without(a, n) \in Maps
BY DEF Without, Maps

LEMMA FormIsMap == ASSUME NEW form \in BOOLEAN PROVE FormHeaders(form) \in Maps
BY HeadersAssumption DEF FormHeaders, Maps

\* The holders an instance has, and those a request has.
LEMMA InstanceHolders ==
    ASSUME NEW i \in Instances PROVE Provided(i) \in Holders /\ Config(i) \in Holders
BY DEF Holders

LEMMA RequestHolders ==
    ASSUME NEW q \in Requests
    PROVE  {Given(q), Held(q), Raw(q), Returned(q)} \subseteq Holders
BY DEF Holders

\* AbstractHeaders speaks of the same holders and maps.
LEMMA SameTerms ==
    /\ Promise!Holders = Holders
    /\ Promise!Maps = Maps
    /\ Promise!NoHeaders = NoHeaders
    /\ Promise!Defaults = Defaults
    /\ \A i : Promise!Provided(i) = Provided(i) /\ Promise!Config(i) = Config(i)
    /\ \A q : Promise!Given(q) = Given(q) /\ Promise!Held(q) = Held(q)
    /\ \A q : Promise!Raw(q) = Raw(q) /\ Promise!Returned(q) = Returned(q)
    /\ \A a, b : Promise!Overlay(a, b) = Overlay(a, b)
    /\ \A a, n : Promise!Without(a, n) = Without(a, n)
    /\ \A form : Promise!FormHeaders(form) = FormHeaders(form)
    /\ \A m : Promise!validateHeaders(m) = validateHeaders(m)
<1>1. /\ Promise!Defaults = Defaults
      /\ \A i : Promise!Provided(i) = Provided(i) /\ Promise!Config(i) = Config(i)
      /\ \A q : Promise!Given(q) = Given(q) /\ Promise!Held(q) = Held(q)
      /\ \A q : Promise!Raw(q) = Raw(q) /\ Promise!Returned(q) = Returned(q)
  BY DEF Promise!Defaults, Defaults, Promise!Provided, Provided, Promise!Config, Config,
         Promise!Given, Given, Promise!Held, Held, Promise!Raw, Raw,
         Promise!Returned, Returned
<1>2. Promise!Holders = Holders
  BY <1>1 DEF Promise!Holders, Holders
<1>3. Promise!Maps = Maps /\ Promise!NoHeaders = NoHeaders
  BY DEF Promise!Maps, Maps, Promise!NoHeaders, NoHeaders
<1>4. \A a, b : Promise!Overlay(a, b) = Overlay(a, b)
  BY DEF Promise!Overlay, Overlay
<1>5. \A a, n : Promise!Without(a, n) = Without(a, n)
  BY DEF Promise!Without, Without
<1>6. \A form : Promise!FormHeaders(form) = FormHeaders(form)
  BY DEF Promise!FormHeaders, FormHeaders
<1>7. \A m : Promise!validateHeaders(m) = validateHeaders(m)
  BY DEF Promise!validateHeaders, validateHeaders
<1>. QED
  BY <1>1, <1>2, <1>3, <1>4, <1>5, <1>6, <1>7

\* Each operation of an instance keeps the heap as it should be, and the promise.
LEMMA InstanceStep ==
    ASSUME HeapOK, NEW i \in Instances, OfInstance(i)
    PROVE  HeapOK' /\ Promise!Next
<1>. USE InstanceHolders, HeadersAssumption
<1>0. Defaults \in Holders
  BY DEF Holders
<1>1. ASSUME NEW m \in Maps, ChangeProvided(i, m) PROVE HeapOK' /\ Promise!Next
  <2>1. HeapOK' /\ View' = [View EXCEPT ![Provided(i)] = m]
    BY <1>1, WriteChangesOne DEF ChangeProvided
  <2>2. Promise!Becomes(Provided(i), m)
    BY <2>1 DEF Promise!Becomes, View
  <2>3. Promise!CallersMap
    BY <2>2, SameTerms DEF Promise!CallersMap
  <2>. QED
    BY <2>1, <2>3 DEF Promise!Next
<1>2. CASE New(i)
  <2>. DEFINE m == Overlay(HeadersOf(Defaults), HeadersOf(Provided(i)))
  <2>1. m \in Maps
    BY <1>0, SeenIsMap, OverlayIsMap
  <2>2. HeapOK' /\ View' = [View EXCEPT ![Config(i)] = m]
    BY <1>2, <2>1, MakeChangesOne DEF New, mergeConfig
  <2>3. Promise!Becomes(Config(i), m)
    BY <2>2 DEF Promise!Becomes, View
  <2>4. Promise!InstanceMade
    BY <1>0, <1>2, <2>3, SameTerms DEF New, Promise!InstanceMade
  <2>. QED
    BY <2>2, <2>4 DEF Promise!Next
<1>3. ASSUME NEW t \in Values, SetAuth(i, t) PROVE HeapOK' /\ Promise!Next
  <2>. DEFINE m == [HeadersOf(Config(i)) EXCEPT ![Authorization] = t]
  <2>1. m \in Maps
    BY SeenIsMap DEF Maps
  <2>2. HeapOK' /\ View' = [View EXCEPT ![Config(i)] = m]
    BY <1>3, <2>1, WriteChangesOne DEF SetAuth
  <2>3. Promise!Becomes(Config(i), m)
    BY <2>2 DEF Promise!Becomes, View
  <2>4. Promise!InstanceAuth
    BY <2>3, SameTerms DEF Promise!InstanceAuth
  <2>. QED
    BY <2>2, <2>4 DEF Promise!Next
<1>4. CASE ClearAuth(i)
  <2>. DEFINE m == Without(HeadersOf(Config(i)), Authorization)
  <2>1. m \in Maps
    BY SeenIsMap, WithoutIsMap
  <2>2. HeapOK' /\ View' = [View EXCEPT ![Config(i)] = m]
    BY <1>4, <2>1, WriteChangesOne DEF ClearAuth
  <2>3. Promise!Becomes(Config(i), m)
    BY <2>2 DEF Promise!Becomes, View
  <2>4. Promise!InstanceAuth
    BY <2>3, SameTerms DEF Promise!InstanceAuth, Without
  <2>. QED
    BY <2>2, <2>4 DEF Promise!Next
<1>. QED
  BY <1>1, <1>2, <1>3, <1>4 DEF OfInstance

\* So does each operation of a request.
LEMMA RequestStep ==
    ASSUME HeapOK, NEW q \in Requests, OfRequest(q)
    PROVE  HeapOK' /\ Promise!Next
<1>. USE RequestHolders, InstanceHolders, HeadersAssumption
<1>1. ASSUME NEW m \in Maps, ChangeGiven(q, m) \/ ChangeReturned(q, m)
      PROVE  HeapOK' /\ Promise!Next
  <2>1. PICK h \in {Given(q), Returned(q)} : Write(h, m)
    BY <1>1 DEF ChangeGiven, ChangeReturned
  <2>2. h \in Holders
    OBVIOUS
  <2>3. HeapOK' /\ View' = [View EXCEPT ![h] = m]
    BY <2>1, <2>2, WriteChangesOne
  <2>4. Promise!Becomes(h, m)
    BY <2>3 DEF Promise!Becomes, View
  <2>5. Promise!CallersMap
    BY <2>2, <2>4, SameTerms DEF Promise!CallersMap
  <2>. QED
    BY <2>3, <2>5 DEF Promise!Next
<1>2. ASSUME NEW i \in Instances, NEW form \in BOOLEAN, newRequest(q, i, form)
      PROVE  HeapOK' /\ Promise!Next
  <2>. DEFINE m == RequestHeaders(q, i, form)
  <2>1. m \in Maps
    BY SeenIsMap, OverlayIsMap, FormIsMap DEF RequestHeaders
  <2>2. HeapOK' /\ View' = [View EXCEPT ![Held(q)] = m]
    BY <1>2, <2>1, MakeChangesOne DEF newRequest
  <2>3. Promise!Becomes(Held(q), m)
    BY <2>2 DEF Promise!Becomes, View
  <2>4. Promise!RequestMade
    BY <1>2, <2>3, SameTerms DEF newRequest, RequestHeaders, Promise!RequestMade
  <2>. QED
    BY <2>2, <2>4 DEF Promise!Next
<1>3. ASSUME NEW m \in Maps, SetHeaders(q, m) PROVE HeapOK' /\ Promise!Next
  <2>1. Overlay(HeadersOf(Held(q)), m) \in Maps
    BY SeenIsMap, OverlayIsMap
  <2>2. HeapOK' /\ View' = [View EXCEPT ![Held(q)] = Overlay(HeadersOf(Held(q)), m)]
    BY <1>3, <2>1, WriteChangesOne DEF SetHeaders
  <2>3. Promise!Becomes(Held(q), Overlay(HeadersOf(Held(q)), m))
    BY <2>2 DEF Promise!Becomes, View
  <2>4. Promise!RequestHeaders
    BY <1>3, <2>3, SameTerms DEF SetHeaders, Promise!RequestHeaders
  <2>. QED
    BY <2>2, <2>4 DEF Promise!Next
<1>4. CASE ClearRequestAuth(q)
  <2>1. Without(HeadersOf(Held(q)), Authorization) \in Maps
    BY SeenIsMap, WithoutIsMap
  <2>2. HeapOK' /\ View' = [View EXCEPT ![Held(q)] = Without(HeadersOf(Held(q)), Authorization)]
    BY <1>4, <2>1, WriteChangesOne DEF ClearRequestAuth
  <2>3. Promise!Becomes(Held(q), Without(HeadersOf(Held(q)), Authorization))
    BY <2>2 DEF Promise!Becomes, View
  <2>4. Promise!RequestAuthCleared
    BY <2>3, SameTerms DEF Promise!RequestAuthCleared
  <2>. QED
    BY <2>2, <2>4 DEF Promise!Next
<1>5. CASE CopyHeaders(q) \/ attachHeadersToHttpReqUnsafe(q)
  <2>1. PICK h \in {Raw(q), Returned(q)} : Make(h, HeadersOf(Held(q)))
    BY <1>5 DEF CopyHeaders, attachHeadersToHttpReqUnsafe
  <2>2. h \in Holders /\ HeadersOf(Held(q)) \in Maps
    BY SeenIsMap
  <2>3. HeapOK' /\ View' = [View EXCEPT ![h] = HeadersOf(Held(q))]
    BY <2>1, <2>2, MakeChangesOne
  <2>4. Promise!Becomes(h, HeadersOf(Held(q)))
    BY <2>3 DEF Promise!Becomes, View
  <2>5. Promise!Copied
    BY <2>2, <2>4, SameTerms DEF Promise!Copied
  <2>. QED
    BY <2>3, <2>5 DEF Promise!Next
<1>6. CASE refreshRawHeaders(q)
  <2>1. NoHeaders \in Maps
    BY DEF NoHeaders, Maps
  <2>2. HeapOK' /\ View' = [View EXCEPT ![Raw(q)] = NoHeaders]
    BY <1>6, <2>1, MakeChangesOne DEF refreshRawHeaders
  <2>3. Promise!Becomes(Raw(q), NoHeaders)
    BY <2>2 DEF Promise!Becomes, View
  <2>4. Promise!RawReplaced
    BY <2>3, SameTerms DEF Promise!RawReplaced
  <2>. QED
    BY <2>2, <2>4 DEF Promise!Next
<1>. QED
  BY <1>1, <1>2, <1>3, <1>4, <1>5, <1>6 DEF OfRequest

-------------------------------------------------------------------------------

\* To begin with only the defaults have a map.
LEMMA InitHeapOK == HeadersInit => HeapOK /\ Promise!Init
<1>. SUFFICES ASSUME HeadersInit PROVE HeapOK /\ Promise!Init
  OBVIOUS
<1>1. PICK a \in Addresses :
        /\ place = [h \in Holders |-> IF h = Defaults THEN a ELSE Nil]
        /\ mem = [b \in Addresses |-> IF b = a THEN defaultHeaders ELSE NoHeaders]
  BY AddressesAssumption DEF HeadersInit
<1>2. a # Nil /\ NoHeaders \in Maps /\ defaultHeaders \in Maps
  BY AddressesAssumption, HeadersAssumption DEF NoHeaders, Maps
<1>3. HeapOK
  BY <1>1, <1>2 DEF HeapOK, NeverShared
<1>4. Promise!Init
  BY <1>1, <1>2, SameTerms DEF Promise!Init, HeadersOf
<1>. QED
  BY <1>3, <1>4

\* So every step does.
LEMMA StepHeapOK ==
    HeapOK /\ [HeadersNext]_headerVars => HeapOK' /\ [Promise!Next]_View
<1>. SUFFICES ASSUME HeapOK, [HeadersNext]_headerVars
              PROVE  HeapOK' /\ [Promise!Next]_View
  OBVIOUS
<1>1. CASE HeadersNext
  BY <1>1, InstanceStep, RequestStep DEF HeadersNext
<1>2. CASE UNCHANGED headerVars
  BY <1>2 DEF headerVars, HeapOK, NeverShared, View, HeadersOf
<1>. QED
  BY <1>1, <1>2

\* No instance, request or caller ever shares a header map with another.
THEOREM MapsNeverShared == HeadersSpec => []NeverShared
<1>1. HeapOK => NeverShared
  BY DEF HeapOK
<1>. QED
  BY <1>1, InitHeapOK, StepHeapOK, PTL DEF HeadersSpec

\* Header maps behave as values: each step changes what one holder sees, and only in
\* a way AbstractHeaders allows.
THEOREM MapsImplementValues == HeadersSpec => ImplementsValues
<1>. QED
  BY InitHeapOK, StepHeapOK, PTL DEF HeadersSpec, ImplementsValues, Promise!Spec, View

-------------------------------------------------------------------------------
(* The headers of a request. *)

\* A call of one of the callers is one of HeaderMaps.
LEMMA CallOnHeaders == HeaderCall => HeadersNext
<1>. SUFFICES ASSUME HeaderCall PROVE HeadersNext
  OBVIOUS
<1>. v \in Instances /\ r \in Requests /\ HeaderChoices \subseteq Maps
  BY RequestObjectAssumption
<1>1. CASE \E m \in HeaderChoices :
             ChangeProvided(v, m) \/ ChangeGiven(r, m) \/ ChangeReturned(r, m) \/ SetHeaders(r, m)
  BY <1>1 DEF HeadersNext, OfInstance, OfRequest
<1>2. CASE \E m \in HeaderChoices : SetAuth(v, m[Authorization]) /\ m[Authorization] # None
  <2>1. PICK m \in HeaderChoices : SetAuth(v, m[Authorization]) /\ m[Authorization] # None
    BY <1>2
  <2>2. m[Authorization] \in Values
    BY <2>1, HeadersAssumption DEF Maps
  <2>. QED
    BY <2>1, <2>2 DEF HeadersNext, OfInstance
<1>3. CASE ClearAuth(v) \/ ClearRequestAuth(r) \/ CopyHeaders(r)
  BY <1>3 DEF HeadersNext, OfInstance, OfRequest
<1>. QED
  BY <1>1, <1>2, <1>3 DEF HeaderCall

\* A built request is made as HeaderMaps makes it; a refused one makes nothing.
LEMMA BuildOnHeaders == Build => [HeadersNext]_headerVars
<1>. SUFFICES ASSUME NEW o \in OptionChoices, NewRequest(o) PROVE [HeadersNext]_headerVars
  BY DEF Build
<1>1. newRequest(r, v, o.form) \/ UNCHANGED headerVars
  BY DEF NewRequest
<1>2. CASE newRequest(r, v, o.form)
  BY <1>2, RequestObjectAssumption, OptionsAssumption DEF HeadersNext, OfRequest
<1>. QED
  BY <1>1, <1>2

\* So is every step of a request, if it changes the headers at all.
LEMMA NextOnHeaders == [Next]_allVars => [HeadersNext]_headerVars
<1>. SUFFICES ASSUME [Next]_allVars PROVE [HeadersNext]_headerVars
  OBVIOUS
<1>1. CASE Start
  BY <1>1, RequestObjectAssumption DEF Start, HeadersNext, OfInstance
<1>2. CASE Build
  BY <1>2, BuildOnHeaders
<1>3. CASE HeaderCall
  BY <1>3, CallOnHeaders
<1>4. CASE toHTTPRequest
  BY <1>4, RequestObjectAssumption DEF toHTTPRequest, HeadersNext, OfRequest
<1>5. CASE \E k \in Keys, x \in KeyValues : SetParam(k, x)
  BY <1>5, RequestObjectAssumption DEF SetParam, HeadersNext, OfRequest
<1>6. CASE \E map \in PathMaps : SetPathParam(map) \/ SetPathParams(map)
  BY <1>6 DEF SetPathParam, SetPathParams
<1>7. CASE NetworkFails \/ \E size \in 0 .. MaxBody : \E sent \in 0 .. size, broken \in BOOLEAN :
                              Answer(size, sent, broken)
  BY <1>7 DEF NetworkFails, Answer, Returns
<1>8. CASE StartRefused \/ Transform \/ TransformFails \/ recordMetrics
  BY <1>8 DEF StartRefused, Transform, TransformFails, recordMetrics
<1>9. CASE UNCHANGED allVars
  BY <1>9 DEF allVars
<1>. QED
  BY <1>1, <1>2, <1>3, <1>4, <1>5, <1>6, <1>7, <1>8, <1>9 DEF Next

\* A request, with its callers and its sends, does to the headers what HeaderMaps does.
THEOREM RequestImplementsMaps == Spec => HeadersSpec
<1>1. Init => HeadersInit
  BY DEF Init
<1>. QED
  BY <1>1, NextOnHeaders, PTL DEF Spec, HeadersSpec

\* So in the whole life of a request no header map is shared, and headers are values.
THEOREM RequestHeadersAreValues == Spec => []NeverShared /\ ImplementsValues
BY RequestImplementsMaps, MapsNeverShared, MapsImplementValues, PTL

-------------------------------------------------------------------------------
(* The size of a request in the metrics. *)

\* What is between the transform and the record: the body waits for the lock, then it
\* is in rawReq, until a refresh replaces that.
SizeInv ==
    /\ sends \in Nat
    /\ ~ IsRequest => sends = 0 /\ ~ refreshed
    /\ pc = "transformed" => pending = options.bodySize
    /\ IsRequest /\ ~ refreshed => raw.size = IF sends = 0 THEN 0 ELSE options.bodySize
    /\ SizeRecorded

\* Every step keeps it.
LEMMA StepSizeInv == SizeInv /\ [Next]_allVars => SizeInv'
<1>. SUFFICES ASSUME SizeInv, [Next]_allVars PROVE SizeInv'
  OBVIOUS
<1>. USE DEF SizeInv, SizeRecorded, IsRequest
<1>1. CASE Start \/ StartRefused
  BY <1>1 DEF Start, StartRefused
<1>2. CASE Build
  BY <1>2 DEF Build, NewRequest, refreshUrl
<1>3. CASE \E k \in Keys, x \in KeyValues : SetParam(k, x)
  <2>1. /\ pc \in {"built", "transformed", "inFlight", "answered"}
        /\ UNCHANGED <<pc, sends, pending, options, record>>
        /\ raw'.size = 0
    BY <1>3 DEF SetParam, Alive, refreshUrl
  <2>2. refreshed' <=> sends > 0
    BY <1>3, Zenon DEF SetParam
  <2>3. ~ refreshed' => sends = 0
    BY <2>2
  <2>. QED
    BY <2>1, <2>3
<1>4. CASE \E map \in PathMaps : SetPathParam(map) \/ SetPathParams(map)
  BY <1>4 DEF SetPathParam, SetPathParams, Alive
<1>5. CASE HeaderCall
  BY <1>5 DEF HeaderCall, requestVars
<1>6. CASE Transform \/ TransformFails
  BY <1>6 DEF Transform, TransformFails
<1>7. CASE toHTTPRequest
  BY <1>7 DEF toHTTPRequest
<1>8. CASE NetworkFails \/ \E size \in 0 .. MaxBody : \E sent \in 0 .. size, broken \in BOOLEAN :
                              Answer(size, sent, broken)
  BY <1>8 DEF NetworkFails, Answer, Returns
<1>9. CASE recordMetrics
  BY <1>9 DEF recordMetrics
<1>10. CASE UNCHANGED allVars
  BY <1>10 DEF allVars, requestVars
<1>. QED
  BY <1>1, <1>2, <1>3, <1>4, <1>5, <1>6, <1>7, <1>8, <1>9, <1>10 DEF Next

\* The metrics have the size of the body that was sent last, whatever setters did
\* meanwhile, but for a SetParam after it.
THEOREM SizeIsRecorded == Spec => []SizeRecorded
<1>1. Init => SizeInv
  BY DEF Init, SizeInv, SizeRecorded, IsRequest
<1>2. SizeInv => SizeRecorded
  BY DEF SizeInv
<1>. QED
  BY <1>1, <1>2, StepSizeInv, PTL DEF Spec

-------------------------------------------------------------------------------
(* The size of a response. *)

\* A limit is set as soon as there is an instance.
LimitInv ==
    /\ provided \in Int
    /\ IsRequest \/ pc = "instance" => maxSize \in Int
    /\ pc \in {"start", "instance"} => res = NoResult
    /\ WholeBodyOrError

\* Every step keeps it.
LEMMA StepLimitInv == LimitInv /\ [Next]_allVars => LimitInv'
<1>. SUFFICES ASSUME LimitInv, [Next]_allVars PROVE LimitInv'
  OBVIOUS
<1>. USE DEF LimitInv, WholeBodyOrError, IsRequest
<1>1. CASE Start \/ StartRefused
  BY <1>1, RequestObjectAssumption DEF Start, StartRefused, NoResult, validateConfig
<1>2. CASE Build
  BY <1>2 DEF Build, NewRequest, NoResult
<1>3. CASE \E k \in Keys, x \in KeyValues : SetParam(k, x)
  BY <1>3 DEF SetParam, Alive
<1>4. CASE \E map \in PathMaps : SetPathParam(map) \/ SetPathParams(map)
  BY <1>4 DEF SetPathParam, SetPathParams, Alive
<1>5. CASE HeaderCall
  BY <1>5 DEF HeaderCall, requestVars
<1>6. CASE Transform \/ TransformFails \/ toHTTPRequest
  BY <1>6 DEF Transform, TransformFails, toHTTPRequest, NoResult, Failed
<1>7. CASE NetworkFails
  BY <1>7 DEF NetworkFails, Returns, Failed
<1>8. ASSUME NEW size \in 0 .. MaxBody, NEW sent \in 0 .. size, NEW broken \in BOOLEAN,
             Answer(size, sent, broken)
      PROVE  LimitInv'
  <2>1. /\ pc = "inFlight" /\ pc' = "answered"
        /\ UNCHANGED <<provided, maxSize>>
        /\ sent = size \/ broken
        /\ res' = BodyResult(sent, broken)
        /\ answer' = [size |-> size, broken |-> broken]
    BY <1>8 DEF Answer, Returns
  <2>2. maxSize \in Int /\ sent \in Int /\ size \in Int
    BY <2>1, RequestObjectAssumption
  <2>3. CASE (broken /\ sent < maxSize) \/ sent > maxSize
    BY <2>1, <2>2, <2>3 DEF BodyResult, Failed
  <2>4. CASE ~ ((broken /\ sent < maxSize) \/ sent > maxSize)
    <3>1. res'.size = sent
      BY <2>1, <2>4 DEF BodyResult
    <3>2. sent = size \/ (broken /\ sent = maxSize)
      BY <2>1, <2>2, <2>4
    <3>. QED
      BY <2>1, <2>2, <3>1, <3>2
  <2>. QED
    BY <2>3, <2>4
<1>9. CASE recordMetrics
  BY <1>9 DEF recordMetrics
<1>10. CASE UNCHANGED allVars
  BY <1>10 DEF allVars, requestVars
<1>. QED
  BY <1>1, <1>2, <1>3, <1>4, <1>5, <1>6, <1>7, <1>8, <1>9, <1>10 DEF Next

\* A response that is handed out is whole, whatever the limit and the server.
THEOREM ResponsesAreWhole == Spec => []WholeBodyOrError
<1>1. Init => LimitInv
  BY RequestObjectAssumption DEF Init, LimitInv, WholeBodyOrError, IsRequest, NoResult
<1>2. LimitInv => WholeBodyOrError
  BY DEF LimitInv
<1>. QED
  BY <1>1, <1>2, StepLimitInv, PTL DEF Spec

-------------------------------------------------------------------------------
(* The URL of a request. *)

\* The values of a key depend on the parameter of that key only.
LEMMA SameParameter ==
    ASSUME NEW ps, NEW qs, NEW k \in AllKeys, ps[k] = qs[k]
    PROVE  getUrlInstance(ps)[k] = getUrlInstance(qs)[k]
BY DEF getUrlInstance

\* Whoever replaces the URL or the http.Request replaces both, with the parameters as
\* they are.
UrlInv ==
    IsRequest =>
        /\ params = [k \in AllKeys |-> params[k]]
        /\ \A k \in Keys : url[k] = getUrlInstance(params)[k]
        /\ raw.url = url

\* What every refresh establishes.
LEMMA RefreshUrlInv ==
    ASSUME NEW ps, params' = [k \in AllKeys |-> ps[k]], refreshUrl(params')
    PROVE  UrlInv'
<1>1. url' = getUrlInstance(params') /\ raw'.url = url'
  BY DEF refreshUrl
<1>2. params' = [k \in AllKeys |-> params'[k]]
  OBVIOUS
<1>. QED
  BY <1>1, <1>2 DEF UrlInv

\* The path parameters are kept among the query parameters, but beside them.
LEMMA PathParamUrlInv ==
    ASSUME PathKey \notin Keys, UrlInv, IsRequest, NEW value,
           params' = [params EXCEPT ![PathKey] = value],
           UNCHANGED <<url, raw>>
    PROVE  UrlInv'
<1>1. params = [k \in AllKeys |-> params[k]] /\ PathKey \in AllKeys
  BY DEF UrlInv, AllKeys
<1>2. params' = [k \in AllKeys |-> params'[k]]
  BY <1>1
<1>3. \A k \in Keys : params'[k] = params[k]
  BY <1>1 DEF AllKeys
<1>4. ASSUME NEW k \in Keys PROVE getUrlInstance(params')[k] = getUrlInstance(params)[k]
  <2>1. k \in AllKeys /\ params'[k] = params[k]
    BY <1>3 DEF AllKeys
  <2>. QED
    BY <2>1, SameParameter
<1>. QED
  BY <1>2, <1>4 DEF UrlInv

\* Every step keeps it, if the path parameters have their key to themselves.
LEMMA StepUrlInv == PathKey \notin Keys /\ UrlInv /\ [Next]_allVars => UrlInv'
<1>. SUFFICES ASSUME PathKey \notin Keys, UrlInv, [Next]_allVars PROVE UrlInv'
  OBVIOUS
<1>1. ASSUME NEW o \in OptionChoices, NewRequest(o) PROVE UrlInv'
  <2>1. CASE pc' = "refused"
    BY <2>1 DEF UrlInv, IsRequest
  <2>2. CASE pc' # "refused"
    <3>1. PICK b : params' = [k \in AllKeys |-> b.params[k]] /\ refreshUrl(params')
      BY <1>1, <2>2 DEF NewRequest
    <3>. QED
      BY <3>1, RefreshUrlInv
  <2>. QED
    BY <2>1, <2>2
<1>2. ASSUME NEW k \in Keys, NEW x \in KeyValues, SetParam(k, x) PROVE UrlInv'
  <2>1. IsRequest /\ params' = [params EXCEPT ![k] = x] /\ refreshUrl(params')
    BY <1>2 DEF SetParam, Alive, IsRequest
  <2>2. params' = [q \in AllKeys |-> params'[q]]
    BY <2>1 DEF UrlInv
  <2>. QED
    BY <2>1, <2>2, RefreshUrlInv
<1>3. ASSUME NEW map \in PathMaps, SetPathParam(map) \/ SetPathParams(map) PROVE UrlInv'
  <2>1. IsRequest /\ UNCHANGED <<url, raw>>
    BY <1>3 DEF SetPathParam, SetPathParams, Alive, IsRequest
  <2>2. PICK value : params' = [params EXCEPT ![PathKey] = value]
    BY <1>3 DEF SetPathParam, SetPathParams
  <2>. QED
    BY <2>1, <2>2, PathParamUrlInv
<1>4. CASE toHTTPRequest
  BY <1>4 DEF toHTTPRequest, UrlInv, IsRequest
<1>5. CASE UNCHANGED <<params, url, raw>> /\ (IsRequest' => IsRequest)
  BY <1>5 DEF UrlInv, IsRequest
<1>6. CASE Start \/ StartRefused
  BY <1>6 DEF Start, StartRefused, UrlInv, IsRequest
<1>7. CASE HeaderCall \/ UNCHANGED allVars
  BY <1>5, <1>7 DEF HeaderCall, requestVars, allVars, IsRequest
<1>8. CASE Transform \/ TransformFails \/ recordMetrics
  BY <1>5, <1>8 DEF Transform, Alive, TransformFails, recordMetrics, IsRequest
<1>9. CASE NetworkFails \/ \E size \in 0 .. MaxBody : \E sent \in 0 .. size, broken \in BOOLEAN :
                              Answer(size, sent, broken)
  BY <1>5, <1>9 DEF NetworkFails, Answer, Returns, IsRequest
<1>. QED
  BY <1>1, <1>2, <1>3, <1>4, <1>6, <1>7, <1>8, <1>9 DEF Next, Build

\* The URL and the http.Request that goes out are those of the parameters, for any keys,
\* values and options and any order of setters and sends, as long as nobody uses the
\* key of the path parameters as a query key: SetPathParam would then change the
\* parameter and leave the URL.
THEOREM UrlIsOfParams ==
    ASSUME PathKey \notin Keys
    PROVE  Spec => []UrlFromParams
<1>1. Init => UrlInv
  BY DEF Init, UrlInv, IsRequest
<1>2. UrlInv => UrlFromParams
  BY DEF UrlInv, UrlFromParams
<1>3. UrlInv /\ [Next]_allVars => UrlInv'
  BY StepUrlInv
<1>. QED
  BY <1>1, <1>2, <1>3, PTL DEF Spec

-------------------------------------------------------------------------------
(* Types. *)

Own(k) == getUrlInstance(NoParams)[k]

\* A parameter adds at most one value to those the base URL has of its key.
LEMMA OneValueOfEach ==
    ASSUME NEW ps, NEW k \in AllKeys
    PROVE  Len(getUrlInstance(ps)[k]) <= 1 + Len(Own(k))
<1>. DEFINE own == IF k \in DOMAIN OwnQuery THEN OwnQuery[k] ELSE <<>>
<1>1. own \in Seq(STRING)
  <2>1. CASE k \in DOMAIN OwnQuery
    BY <2>1, RequestObjectAssumption
  <2>2. CASE k \notin DOMAIN OwnQuery
    BY <2>2
  <2>. QED
    BY <2>1, <2>2
<1>2. getUrlInstance(ps)[k] = own \o (IF ps[k] = None THEN <<>> ELSE <<ps[k]>>)
  BY DEF getUrlInstance
<1>3. Own(k) = own \o <<>>
  BY DEF getUrlInstance, NoParams, Own
<1>4. Len(Own(k)) = Len(own) /\ Len(own) \in Nat
  BY <1>1, <1>3
<1>5. CASE ps[k] = None
  BY <1>1, <1>2, <1>4, <1>5
<1>6. CASE ps[k] # None
  <2>1. Len(getUrlInstance(ps)[k]) = Len(own) + 1
    BY <1>1, <1>2, <1>6
  <2>. QED
    BY <1>4, <2>1
<1>. QED
  BY <1>5, <1>6

\* And so has a refresh.
LEMMA RefreshLengths ==
    ASSUME NEW ps, refreshUrl(ps)
    PROVE  \A k \in AllKeys : Len(url'[k]) <= 1 + Len(Own(k))
BY OneValueOfEach DEF refreshUrl

\* A transform runs only when a send is left.
TypeInv ==
    /\ TypeOK
    /\ provided \in ProvidedSizes
    /\ pc = "transformed" => sends < MaxSends

\* Every step keeps it.
LEMMA StepTypeInv == TypeInv /\ [Next]_allVars => TypeInv'
<1>. SUFFICES ASSUME TypeInv, [Next]_allVars PROVE TypeInv'
  OBVIOUS
<1>. USE DEF TypeInv, TypeOK, IsRequest
<1>0. /\ MaxBody \in Nat /\ MaxSends \in Nat /\ MaxOps \in Nat
      /\ MaxAllowedSize \in Nat /\ DefaultMaxSize \in 1 .. MaxAllowedSize
      /\ ProvidedSizes \subseteq Int
  BY RequestObjectAssumption
<1>1. CASE Start
  <2>1. maxSize' \in 1 .. MaxAllowedSize
    BY <1>0, <1>1 DEF Start, validateConfig
  <2>. QED
    BY <1>1, <2>1 DEF Start
<1>2. CASE StartRefused
  BY <1>2 DEF StartRefused
<1>3. ASSUME NEW o \in OptionChoices, NewRequest(o) PROVE TypeInv'
  <2>1. /\ pc = "instance" /\ pc' \in {"built", "refused"}
        /\ UNCHANGED <<provided, maxSize, pending, res, ops, sends>>
    BY <1>3 DEF NewRequest
  <2>2. pc' = "built" => \E ps : refreshUrl(ps)
    BY <1>3 DEF NewRequest
  <2>3. pc' = "built" => \A k \in AllKeys : Len(url'[k]) <= 1 + Len(Own(k))
    BY <2>2, RefreshLengths
  <2>. QED
    BY <2>1, <2>3 DEF Own, getUrlInstance, NoParams, AllKeys
<1>4. ASSUME NEW k \in Keys, NEW x \in KeyValues, SetParam(k, x) PROVE TypeInv'
  <2>1. /\ ops < MaxOps /\ ops' = ops + 1
        /\ UNCHANGED <<provided, maxSize, pc, pending, res, sends>>
        /\ refreshUrl(params')
    BY <1>4 DEF SetParam, Call
  <2>2. \A q \in AllKeys : Len(url'[q]) <= 1 + Len(Own(q))
    BY <2>1, RefreshLengths
  <2>3. ops' \in 0 .. MaxOps
    BY <1>0, <2>1
  <2>. QED
    BY <2>1, <2>2, <2>3 DEF Own, getUrlInstance, NoParams, AllKeys
<1>5. CASE HeaderCall \/ \E map \in PathMaps : SetPathParam(map) \/ SetPathParams(map)
  <2>1. /\ ops < MaxOps /\ ops' = ops + 1
        /\ UNCHANGED <<provided, maxSize, pc, url, pending, res, sends>>
    BY <1>5 DEF HeaderCall, SetPathParam, SetPathParams, Call, requestVars
  <2>2. ops' \in 0 .. MaxOps
    BY <1>0, <2>1
  <2>. QED
    BY <2>1, <2>2
<1>6. CASE Transform
  BY <1>0, <1>6 DEF Transform, Alive, NoResult
<1>7. CASE TransformFails
  BY <1>0, <1>7 DEF TransformFails, Failed
<1>8. CASE toHTTPRequest
  BY <1>0, <1>8 DEF toHTTPRequest
<1>9. CASE NetworkFails
  BY <1>0, <1>9 DEF NetworkFails, Returns, Failed
<1>10. ASSUME NEW size \in 0 .. MaxBody, NEW sent \in 0 .. size, NEW broken \in BOOLEAN,
              Answer(size, sent, broken)
       PROVE  TypeInv'
  <2>1. /\ pc = "inFlight" /\ pc' = "answered"
        /\ UNCHANGED <<provided, maxSize, url, pending, ops, sends>>
        /\ res' = BodyResult(sent, broken)
    BY <1>10 DEF Answer, Returns
  <2>2. sent \in 0 .. MaxBody
    BY <1>0
  <2>3. res' = Failed \/ res' = [kind |-> "response", size |-> sent]
    BY <2>1, Zenon DEF BodyResult
  <2>4. res'.kind \in {"none", "response", "error"}
    BY <2>3 DEF Failed
  <2>5. res'.size \in 0 .. MaxBody
    BY <1>0, <2>2, <2>3 DEF Failed
  <2>. QED
    BY <2>1, <2>4, <2>5
<1>11. CASE recordMetrics
  BY <1>11 DEF recordMetrics
<1>12. CASE UNCHANGED allVars
  BY <1>12 DEF allVars, requestVars
<1>. QED
  BY <1>1, <1>2, <1>3, <1>4, <1>5, <1>6, <1>7, <1>8, <1>9, <1>10, <1>11, <1>12 DEF Next, Build

\* A request has at most one value of each key beside those of the base URL, its limit
\* is one New accepts, and a body waits for the lock only between the two halves of
\* toHTTPRequest.
THEOREM RequestTypeCorrect == Spec => []TypeOK
<1>1. Init => TypeInv
  BY RequestObjectAssumption DEF Init, TypeInv, TypeOK, IsRequest, NoResult
<1>2. TypeInv => TypeOK
  BY DEF TypeInv
<1>. QED
  BY <1>1, <1>2, StepTypeInv, PTL DEF Spec

-------------------------------------------------------------------------------
(* The parameters of a request, once it is built. *)

\* The map[k] that a loop over the positions in t of order gives to its builder.
given(order, t) == {i \in t : \A j \in t : j <= i => order[j] # EmptyKey}

\* What it makes of the builder b.
SetOf(b, map, order, t) ==
    [params |-> [k \in DOMAIN b.params |->
                    IF ~ b.err /\ \E i \in given(order, t) : order[i] = k
                    THEN map[k] ELSE b.params[k]],
     err |-> b.err \/ \E i \in t : order[i] = EmptyKey]

\* What a builder is.
IsBuilder(b) ==
    /\ b = [params |-> b.params, err |-> b.err]
    /\ b.err \in BOOLEAN
    /\ b.params = [k \in DOMAIN b.params |-> b.params[k]]

\* One more SetParam.
LEMMA OneMoreSet ==
    ASSUME NEW b, IsBuilder(b), NEW map, NEW order, NEW t, NEW u, NEW m, IsLast(m, u, t)
    PROVE  SetOf(b, map, order, t) =
               builderSetParam(SetOf(b, map, order, u), order[m], map[order[m]])
<1>. DEFINE B == SetOf(b, map, order, u)
            key == order[m]
            empty(s) == \E i \in s : order[i] = EmptyKey
            none(s, k) == ~ \E i \in given(order, s) : order[i] = k
<1>. USE DEF IsLast
<1>1. empty(t) <=> empty(u) \/ key = EmptyKey
  OBVIOUS
<1>2. \A i \in u : i \in given(order, t) <=> i \in given(order, u)
  BY DEF given
<1>3. m \in given(order, t) <=> ~ empty(t)
  BY DEF given
<1>4. B = [params |-> B.params, err |-> B.err] /\ (B.err <=> b.err \/ empty(u))
  BY DEF SetOf
<1>5. CASE b.err \/ empty(u)
  <2>1. \A k : b.err \/ (none(t, k) <=> none(u, k))
    BY <1>1, <1>2, <1>3, <1>5 DEF given
  <2>2. SetOf(b, map, order, t).params = B.params
    BY <2>1 DEF SetOf
  <2>3. SetOf(b, map, order, t) = [params |-> B.params, err |-> TRUE] /\ B.err = TRUE
    BY <1>1, <1>5, <2>2 DEF SetOf, IsBuilder
  <2>4. B = SetOf(b, map, order, t)
    BY <1>4, <2>3
  <2>. QED
    BY <2>3, <2>4 DEF builderSetParam
<1>6. CASE ~ b.err /\ ~ empty(u) /\ key = EmptyKey
  <2>1. \A k : none(t, k) <=> none(u, k)
    BY <1>1, <1>2, <1>3, <1>6 DEF given
  <2>2. SetOf(b, map, order, t).params = B.params
    BY <2>1 DEF SetOf
  <2>3. SetOf(b, map, order, t) = [params |-> B.params, err |-> TRUE] /\ B.err = FALSE
    BY <1>1, <1>6, <2>2 DEF SetOf
  <2>. QED
    BY <1>4, <1>6, <2>3 DEF builderSetParam
<1>7. CASE ~ b.err /\ ~ empty(u) /\ key # EmptyKey
  <2>1. \A k : none(t, k) <=> none(u, k) /\ k # key
    BY <1>1, <1>2, <1>3, <1>7 DEF given
  <2>2. SetOf(b, map, order, t).params = [B.params EXCEPT ![key] = map[key]]
    BY <1>7, <2>1 DEF SetOf
  <2>3. /\ SetOf(b, map, order, t) = [params |-> SetOf(b, map, order, t).params, err |-> FALSE]
        /\ B.err = FALSE
    BY <1>1, <1>7 DEF SetOf
  <2>. QED
    BY <1>4, <1>7, <2>2, <2>3 DEF builderSetParam
<1>. QED
  BY <1>5, <1>6, <1>7 DEF IsBuilder

\* To set nothing leaves the builder as it is.
LEMMA NothingSet ==
    ASSUME NEW b, IsBuilder(b), NEW map, NEW order
    PROVE  SetOf(b, map, order, {}) = b
<1>1. SetOf(b, map, order, {}).params = b.params
  BY DEF SetOf, given, IsBuilder
<1>2. SetOf(b, map, order, {}).err = b.err
  BY DEF SetOf, IsBuilder
<1>3. SetOf(b, map, order, {}) = [params |-> b.params, err |-> b.err]
  BY <1>1, <1>2 DEF SetOf
<1>. QED
  BY <1>3 DEF IsBuilder

\* The recursion of SetAll, over the sets of positions, and its solution.
setLoop(b, map, order, n, g) ==
    [t \in SUBSET (1 .. n) |->
        IF t = {} THEN b
        ELSE builderSetParam(g[t \ {Max(t)}], order[Max(t)], map[order[Max(t)]])]

setSolution(b, map, order, n) == [t \in SUBSET (1 .. n) |-> SetOf(b, map, order, t)]

\* What is made of the builder at each set of positions solves the recursion.
LEMMA SetOfSolves ==
    ASSUME NEW b, IsBuilder(b), NEW map, NEW order, NEW n \in Nat
    PROVE  setSolution(b, map, order, n) = setLoop(b, map, order, n, setSolution(b, map, order, n))
<1>1. SetOf(b, map, order, {}) = b
  BY NothingSet
<1>2. ASSUME NEW t \in SUBSET (1 .. n), t # {}
      PROVE  /\ t \ {Max(t)} \in SUBSET (1 .. n)
             /\ SetOf(b, map, order, t) =
                   builderSetParam(SetOf(b, map, order, t \ {Max(t)}), order[Max(t)], map[order[Max(t)]])
  <2>1. t \ {Max(t)} \in SUBSET (1 .. n) /\ IsLast(Max(t), t \ {Max(t)}, t)
    BY <1>2, LastAndRest
  <2>. QED
    BY <2>1, OneMoreSet
<1>. QED
  BY <1>1, <1>2 DEF setLoop, setSolution

\* What a range over a map makes of a builder, in the order in which it visits the keys.
LEMMA SetAllIsSetOf ==
    ASSUME NEW b, IsBuilder(b), NEW map, NEW order, NEW n \in Nat, DOMAIN order = 1 .. n
    PROVE  SetAll(b, map, order) = SetOf(b, map, order, 1 .. n)
<1>. DEFINE loop == CHOOSE g : g = setLoop(b, map, order, n, g)
            S == {k \in Nat : k <= n => loop[1 .. k] = SetOf(b, map, order, 1 .. k)}
<1>1. SetAll(b, map, order) = loop[1 .. n]
  BY Zenon DEF SetAll, setLoop, FoldLeft, MapThenFoldSet
<1>2. loop = setLoop(b, map, order, n, loop)
  <2>1. \E g : g = setLoop(b, map, order, n, g)
    BY SetOfSolves
  <2>. QED
    BY <2>1, Zenon
<1>3. 0 \in S
  <2>. HIDE DEF loop
  <2>1. 1 .. 0 = {} /\ {} \in SUBSET (1 .. n)
    OBVIOUS
  <2>2. loop[{}] = b
    BY <1>2, <2>1 DEF setLoop
  <2>3. SetOf(b, map, order, {}) = b
    BY NothingSet
  <2>. QED
    BY <2>1, <2>2, <2>3
<1>4. ASSUME NEW k \in Nat, k \in S PROVE k + 1 \in S
  <2>. HIDE DEF loop
  <2>1. SUFFICES ASSUME k + 1 <= n
                 PROVE  loop[1 .. k + 1] = SetOf(b, map, order, 1 .. k + 1)
    OBVIOUS
  <2>2. /\ 1 .. k + 1 \in SUBSET (1 .. n) /\ 1 .. k + 1 # {} /\ Max(1 .. k + 1) = k + 1
        /\ (1 .. k + 1) \ {k + 1} = 1 .. k
    BY <2>1, k + 1 \in Nat, FirstPositions, LastOfInterval
  <2>3. loop[1 .. k + 1] = builderSetParam(loop[1 .. k], order[k + 1], map[order[k + 1]])
    BY <1>2, <2>2 DEF setLoop
  <2>4. loop[1 .. k] = SetOf(b, map, order, 1 .. k)
    BY <1>4, <2>1
  <2>5. SetOf(b, map, order, 1 .. k + 1) =
           builderSetParam(SetOf(b, map, order, 1 .. k), order[k + 1], map[order[k + 1]])
    <3>1. IsLast(k + 1, 1 .. k, 1 .. k + 1)
      BY LastOfInterval
    <3>. QED
      BY <3>1, OneMoreSet
  <2>. QED
    BY <2>3, <2>4, <2>5
<1>5. n \in S
  <2>. HIDE DEF S
  <2>. QED
    BY <1>3, <1>4, InductiveSet
<1>. QED
  BY <1>1, <1>5

\* In whatever order the keys of a map are visited, all are set, or one is empty and the
\* builder keeps the error.
LEMMA MapIsSet ==
    ASSUME NEW b, IsBuilder(b), NEW map, IsFiniteSet(DOMAIN map),
           NEW order \in SetToSeqs(DOMAIN map), NEW c, c = SetAll(b, map, order)
    PROVE  /\ IsBuilder(c) /\ DOMAIN c.params = DOMAIN b.params
           /\ c.err <=> b.err \/ EmptyKey \in DOMAIN map
           /\ ~ c.err => \A k \in DOMAIN b.params :
                            c.params[k] = IF k \in DOMAIN map THEN map[k] ELSE b.params[k]
<1>. DEFINE n == Cardinality(DOMAIN map)
<1>1. /\ n \in Nat /\ DOMAIN order = 1 .. n
      /\ \A i \in 1 .. n : order[i] \in DOMAIN map
      /\ \A k \in DOMAIN map : \E i \in 1 .. n : order[i] = k
  BY VisitsAll
<1>. HIDE DEF n
<1>2. c = SetOf(b, map, order, 1 .. n)
  BY <1>1, SetAllIsSetOf
<1>3. IsBuilder(c) /\ DOMAIN c.params = DOMAIN b.params
  BY <1>2 DEF SetOf, IsBuilder
<1>4. c.err <=> b.err \/ EmptyKey \in DOMAIN map
  <2>1. c.err = (b.err \/ \E i \in 1 .. n : order[i] = EmptyKey)
    BY <1>2 DEF SetOf
  <2>2. (\E i \in 1 .. n : order[i] = EmptyKey) <=> EmptyKey \in DOMAIN map
    BY <1>1
  <2>. QED
    BY <2>1, <2>2
<1>5. ASSUME ~ c.err, NEW k \in DOMAIN b.params
      PROVE  c.params[k] = IF k \in DOMAIN map THEN map[k] ELSE b.params[k]
  <2>1. given(order, 1 .. n) = 1 .. n
    BY <1>1, <1>4, <1>5 DEF given
  <2>2. (\E i \in given(order, 1 .. n) : order[i] = k) <=> k \in DOMAIN map
    BY <1>1, <2>1
  <2>3. ~ b.err
    BY <1>4, <1>5
  <2>. QED
    BY <1>2, <2>2, <2>3 DEF SetOf
<1>. QED
  BY <1>3, <1>4, <1>5

\* What the fields of the options come to.
LEMMA QueryOfOptions ==
    ASSUME NEW o \in OptionChoices, NEW q, q = structToQueryParams(o.query)
    PROVE  /\ q.err <=> \E i \in DOMAIN o.query :
                            IsAsked(o.query[i]) /\ isUnsupported(o.query[i])
           /\ IsFiniteSet(DOMAIN q.params)
           /\ EmptyKey \notin DOMAIN q.params
           /\ ~ q.err => \A k \in AllKeys \ DOMAIN o.params :
                  Asked(o, k) = IF k \in DOMAIN q.params THEN q.params[k] ELSE None
<1>. DEFINE fields == o.query
            n == Len(o.query)
            names == {fields[i].name : i \in kept(fields, 1 .. n)}
<1>1. n \in Nat /\ DOMAIN fields = 1 .. n
  BY OptionsAssumption
<1>. HIDE DEF n
<1>2. q = Converted(fields, 1 .. n)
  BY <1>1, StructConverted
<1>0. \A i \in 1 .. n : IsAsked(fields[i]) <=> ~ isDropped(fields[i])
  BY DEF IsAsked, isDropped, isZeroValue, hasNoValue
<1>3. \A i \in 1 .. n : refuses(fields[i]) <=> IsAsked(fields[i]) /\ isUnsupported(fields[i])
  BY <1>0 DEF refuses
<1>4. q.err <=> \E i \in 1 .. n : refuses(fields[i])
  BY <1>2 DEF Converted
<1>5. DOMAIN q.params = names
  BY <1>2 DEF Converted
<1>6. kept(fields, 1 .. n) \subseteq 1 .. n
  BY DEF kept, reached
<1>7. EmptyKey \notin names
  BY <1>1, <1>6, OptionsAssumption
<1>8. IsFiniteSet(names)
  <2>. DEFINE name == [i \in kept(fields, 1 .. n) |-> fields[i].name]
  <2>1. IsFiniteSet(kept(fields, 1 .. n))
    BY <1>1, <1>6, FS_Interval, FS_Subset, 1 \in Int
  <2>2. name \in Surjection(kept(fields, 1 .. n), names)
    BY DEF Surjection
  <2>. QED
    BY <2>1, <2>2, FS_Surjection
<1>9. ASSUME ~ q.err, NEW k \in AllKeys \ DOMAIN o.params
      PROVE  Asked(o, k) = IF k \in DOMAIN q.params THEN q.params[k] ELSE None
  <2>. DEFINE asked == {i \in DOMAIN o.query : o.query[i].name = k /\ IsAsked(o.query[i])}
              same == {i \in kept(fields, 1 .. n) : fields[i].name = k}
  <2>2. reached(fields, 1 .. n) = 1 .. n
    BY <1>4, <1>9 DEF reached
  <2>3. asked = same
    BY <1>0, <1>1, <2>2 DEF kept
  <2>4. Asked(o, k) = IF asked = {} THEN None
                      ELSE fields[CHOOSE i \in asked : \A j \in asked : j <= i].value
    BY <1>9, Zenon DEF Asked
  <2>5. k \in DOMAIN q.params <=> same # {}
    BY <1>5
  <2>6. ASSUME same # {} PROVE Asked(o, k) = q.params[k]
    <3>. DEFINE last == CHOOSE i \in asked : \A j \in asked : j <= i
    <3>1. same \in SUBSET (1 .. n) /\ \A i \in same : i \in Int
      BY <1>1, <1>6
    <3>2. Max(same) \in same /\ \A j \in same : j <= Max(same)
      BY <1>1, <2>6, <3>1, LastOfPositions
    <3>3. last \in same /\ \A j \in same : j <= last
      BY <2>3, <3>2, Zenon
    <3>. HIDE DEF last, same
    <3>4. last = Max(same)
      <4>. DEFINE m == Max(same)
      <4>1. m \in same /\ last \in same /\ m <= last /\ last <= m
        BY <3>2, <3>3
      <4>2. m \in Int /\ last \in Int
        BY <3>1, <4>1
      <4>. HIDE DEF m
      <4>3. last = m
        BY <4>1, <4>2
      <4>. QED
        BY <4>3 DEF m
    <3>5. q.params[k] = fields[Max(same)].value
      BY <1>2, <1>5, <2>5, <2>6 DEF Converted, lastOf, same
    <3>. QED
      BY <2>3, <2>4, <2>6, <3>4, <3>5 DEF last
  <2>. QED
    BY <2>3, <2>4, <2>5, <2>6
<1>. QED
  BY <1>1, <1>3, <1>4, <1>5, <1>7, <1>8, <1>9

\* The parameters newRequest builds.
LEMMA BuiltParamsAsAsked ==
    ASSUME NEW o \in OptionChoices, NEW q, q = structToQueryParams(o.query), ~ q.err,
           NEW qorder \in SetToSeqs(DOMAIN q.params), NEW porder \in SetToSeqs(DOMAIN o.params),
           NEW b, b = BuiltParams(o, qorder, porder)
    PROVE  /\ b.err <=> EmptyKey \in DOMAIN o.params
           /\ ~ b.err => \A k \in AllKeys : b.params[k] = Asked(o, k)
<1>. DEFINE start == [params |-> NoParams, err |-> FALSE]
            c == SetAll(start, q.params, qorder)
<1>1. /\ IsFiniteSet(DOMAIN q.params) /\ EmptyKey \notin DOMAIN q.params
      /\ \A k \in AllKeys \ DOMAIN o.params :
            Asked(o, k) = IF k \in DOMAIN q.params THEN q.params[k] ELSE None
  BY QueryOfOptions
<1>2. IsBuilder(start) /\ DOMAIN start.params = AllKeys /\ ~ start.err
  BY DEF IsBuilder, NoParams
<1>3. \A k \in AllKeys : start.params[k] = None
  BY DEF NoParams
<1>4. b = SetAll(c, o.params, porder)
  BY DEF BuiltParams
<1>. HIDE DEF start
<1>5. /\ IsBuilder(c) /\ DOMAIN c.params = AllKeys /\ ~ c.err
      /\ \A k \in AllKeys :
            c.params[k] = IF k \in DOMAIN q.params THEN q.params[k] ELSE start.params[k]
  BY <1>1, <1>2, MapIsSet
<1>. HIDE DEF c
<1>6. IsFiniteSet(DOMAIN o.params)
  BY OptionsAssumption
<1>7. /\ b.err <=> EmptyKey \in DOMAIN o.params
      /\ ~ b.err => \A k \in AllKeys :
             b.params[k] = IF k \in DOMAIN o.params THEN o.params[k] ELSE c.params[k]
  BY <1>4, <1>5, <1>6, MapIsSet
<1>8. ASSUME ~ b.err, NEW k \in AllKeys PROVE b.params[k] = Asked(o, k)
  <2>1. CASE k \in DOMAIN o.params
    BY <1>7, <1>8, <2>1 DEF Asked
  <2>2. CASE k \notin DOMAIN o.params
    BY <1>1, <1>3, <1>5, <1>7, <1>8, <2>2
  <2>. QED
    BY <2>1, <2>2
<1>. QED
  BY <1>7, <1>8

\* A request is refused for the reasons its options give, or has what they ask for.
LEMMA BuildAsOptioned ==
    ASSUME NEW o \in OptionChoices, NewRequest(o)
    PROVE  AsOptioned
<1>. DEFINE q == structToQueryParams(o.query)
            headersOK == validateHeaders(RequestHeaders(r, v, o.form))
<1>1. PICK qorder \in SetToSeqs(DOMAIN q.params), porder \in SetToSeqs(DOMAIN o.params) :
         LET b == BuiltParams(o, qorder, porder)
         IN  IF headersOK /\ ~ q.err /\ ~ b.err
             THEN pc' = "built" /\ params' = [k \in AllKeys |-> b.params[k]]
             ELSE pc' = "refused"
  BY Zenon DEF NewRequest
<1>2. options' = o
  BY DEF NewRequest
<1>. DEFINE b == BuiltParams(o, qorder, porder)
<1>3. q.err <=> \E i \in DOMAIN o.query : IsAsked(o.query[i]) /\ isUnsupported(o.query[i])
  BY QueryOfOptions
<1>4. ~ q.err => /\ b.err <=> EmptyKey \in DOMAIN o.params
                 /\ ~ b.err => \A k \in AllKeys : b.params[k] = Asked(o, k)
  BY BuiltParamsAsAsked
<1>5. IF headersOK /\ ~ q.err /\ ~ b.err
      THEN pc' = "built" /\ params' = [k \in AllKeys |-> b.params[k]]
      ELSE pc' = "refused"
  BY <1>1
<1>. HIDE DEF q, b, headersOK
<1>. QED
  BY <1>2, <1>3, <1>4, <1>5 DEF AsOptioned, headersOK

\* For any options, any maps and any order in which their keys are visited, the request
\* has the parameters that are asked for, or it is refused for the reasons the code has.
THEOREM BuildsWhatIsAsked == Spec => BuiltAsOptioned
<1>1. ASSUME [Next]_allVars, UNCHANGED options PROVE AsOptioned
  BY <1>1 DEF AsOptioned
<1>2. ASSUME [Next]_allVars PROVE (\E o \in OptionChoices : NewRequest(o)) \/ UNCHANGED options
  BY <1>2 DEF Next, Build, Start, StartRefused, SetParam, SetPathParam, SetPathParams, HeaderCall,
              Transform, TransformFails, toHTTPRequest, NetworkFails, Answer, Returns,
              recordMetrics, allVars, requestVars
<1>3. [Next]_allVars => AsOptioned
  BY <1>1, <1>2, BuildAsOptioned
<1>. QED
  BY <1>3, PTL DEF Spec, BuiltAsOptioned

-------------------------------------------------------------------------------
(* The path of a request. *)

\* A text alone.
LEMMA FlattenOne ==
    ASSUME NEW a \in [1 .. 1 -> Seq(Token)]
    PROVE  FlattenSeq(a) = a[1]
<1>. DEFINE after == [i \in 1 .. 1 |-> i + 1]
<1>1. IsForward(1, after)
  BY DEF IsForward
<1>2. PICK t : IsTails(t, 1, a)
  BY <1>1, FromEndExists DEF IsTails
<1>. HIDE DEF after
<1>3. t[1 + 1] = <<>> /\ t[1] = a[1] \o t[1 + 1]
  BY <1>2 DEF IsTails, IsFromEnd, SolvesFromEnd
<1>4. a[1] \in Seq(Token)
  OBVIOUS
<1>5. t[1] = a[1]
  BY <1>3, <1>4, ConcatEmptySeq
<1>. QED
  BY <1>2, <1>5, FlattenIsTails

\* A template of one part is that part.
LEMMA TemplateOfOne ==
    ASSUME NEW pp, NEW p, IsPart(p, pp)
    PROVE  TemplateUrl(<<p>>) = templateText(p)
<1>. DEFINE a == [i \in DOMAIN <<p>> |-> templateText(<<p>>[i])]
<1>1. DOMAIN <<p>> = 1 .. 1 /\ <<p>>[1] = p
  OBVIOUS
<1>2. p.name \in Seq(Token)
  BY WordsAreTexts DEF IsPart
<1>3. brace(p.name) \in Seq(Token) /\ colon(p.name) \in Seq(Token)
  BY <1>2, BraceTokens, ColonTokens
<1>4. templateText(p) \in Seq(Token)
  <2>1. /\ slashed(p.name) \in Seq(Token)
        /\ slashed(brace(p.name)) \in Seq(Token) /\ slashed(colon(p.name)) \in Seq(Token)
    BY <1>2, <1>3, SlashedTokens
  <2>. QED
    BY <2>1, TemplateTexts
<1>5. a = [i \in 1 .. 1 |-> templateText(p)]
  BY <1>1
<1>6. TemplateUrl(<<p>>) = FlattenSeq(a)
  BY Zenon DEF TemplateUrl, templateText
<1>. HIDE DEF a
<1>7. a \in [1 .. 1 -> Seq(Token)] /\ a[1] = templateText(p)
  BY <1>4, <1>5
<1>. QED
  BY <1>6, <1>7, FlattenOne

\* A sequence of elements of one set is one of elements of a larger one.
LEMMA SeqOfMore ==
    ASSUME NEW S, NEW T, S \subseteq T, NEW x \in Seq(S)
    PROVE  x \in Seq(T)
<1>1. x = [i \in 1 .. Len(x) |-> x[i]] /\ Len(x) \in Nat /\ \A i \in 1 .. Len(x) : x[i] \in T
  OBVIOUS
<1>. QED
  BY <1>1

\* Strings are tokens.
LEMMA StringsAreTokens ==
    ASSUME NEW x \in Seq(STRING)
    PROVE  x \in Seq(Token)
<1>1. STRING \subseteq Token
  BY DEF Token
<1>. QED
  BY <1>1, SeqOfMore

\* What the model takes names and keys from is what the proofs do.
LEMMA WordTokensAreWords ==
    ASSUME NEW x \in Seq(WordTokens)
    PROVE  x \in Seq(Words)
<1>1. WordTokens \subseteq Words
  BY DEF WordTokens, Words, Token
<1>. QED
  BY <1>1, SeqOfMore

\* In unambiguous options only the key of a placeholder can be found.
LEMMA OptionsAreTemplate ==
    ASSUME NEW o \in OptionChoices, Unambiguous(o)
    PROVE  IsTemplate(o.template, o.pathParams)
<1>1. \E n \in Nat : DOMAIN o.template = 1 .. n
  <2>1. Len(o.template) \in Nat /\ DOMAIN o.template = 1 .. Len(o.template)
    BY OptionsAssumption
  <2>. QED
    BY <2>1, Zenon
<1>2. ArePathParams(o.pathParams)
  <2>1. ASSUME NEW key \in DOMAIN o.pathParams
        PROVE  /\ key \in Seq(Words) /\ o.pathParams[key] \in Seq(Token)
               /\ \A i \in 1 .. Len(o.pathParams[key]) : o.pathParams[key][i] # ":"
    <3>1. key \in Seq(WordTokens) /\ o.pathParams[key] \in Seq(STRING)
      BY OptionsAssumption
    <3>2. DOMAIN o.pathParams[key] = 1 .. Len(o.pathParams[key])
      BY <3>1
    <3>3. \A i \in DOMAIN o.pathParams[key] : o.pathParams[key][i] # ":"
      BY DEF Unambiguous
    <3>. QED
      BY <3>1, <3>2, <3>3, StringsAreTokens, WordTokensAreWords
  <2>. QED
    BY <2>1 DEF ArePathParams
<1>3. ASSUME NEW i \in DOMAIN o.template PROVE IsPart(o.template[i], o.pathParams)
  <2>1. o.template[i].kind \in {"text", "brace", "colon"} /\ o.template[i].name \in Seq(WordTokens)
    BY OptionsAssumption
  <2>2. o.template[i].kind = "colon" =>
           \A key \in DOMAIN o.pathParams :
               IsPrefix(key, o.template[i].name) => key = o.template[i].name
    BY DEF Unambiguous
  <2>. QED
    BY <2>1, <2>2, WordTokensAreWords DEF IsPart
<1>. QED
  BY <1>1, <1>2, <1>3 DEF IsTemplate

\* The path that is asked for is the template with all its keys replaced.
LEMMA AskedIsPathText ==
    ASSUME NEW o, IsTemplate(o.template, o.pathParams)
    PROVE  AskedPath(o) = pathText(o.template, o.pathParams, DOMAIN o.pathParams, DOMAIN o.pathParams)
<1>. DEFINE D == DOMAIN o.pathParams
            segment(p) == IF p.kind # "text" /\ p.name \in D THEN <<p.name>> ELSE <<>>
            asked(i) == IF segment(o.template[i]) = <<>>
                        THEN TemplateUrl(<<o.template[i]>>)
                        ELSE <<"/">> \o PathEscape(o.pathParams[o.template[i].name])
<1>1. AskedPath(o) = FlattenSeq([i \in DOMAIN o.template |-> asked(i)])
  BY Zenon DEF AskedPath
<1>2. ASSUME NEW i \in DOMAIN o.template
      PROVE  asked(i) = partText(o.template[i], o.pathParams, D, D)
  <2>. DEFINE p == o.template[i]
  <2>1. IsPart(p, o.pathParams)
    BY DEF IsTemplate
  <2>2. TemplateUrl(<<p>>) = templateText(p) /\ p.kind \in {"text", "brace", "colon"}
    BY <2>1, TemplateOfOne DEF IsPart
  <2>3. segment(p) = <<>> <=> ~ (p.kind # "text" /\ p.name \in D)
    OBVIOUS
  <2>4. isReplaced(p, D, D) <=> p.kind # "text" /\ p.name \in D
    BY <2>2 DEF isReplaced
  <2>. HIDE DEF p, segment, D
  <2>. QED
    BY <2>2, <2>3, <2>4 DEF partText, slashed, p
<1>. HIDE DEF asked, D
<1>3. [i \in DOMAIN o.template |-> asked(i)]
          = [i \in DOMAIN o.template |-> partText(o.template[i], o.pathParams, D, D)]
  BY <1>2
<1>. QED
  BY <1>1, <1>3 DEF pathText, D

\* The path is what replacePathParams made of the template, in some order.
PathInv ==
    IsRequest =>
        /\ options \in OptionChoices
        /\ \E order \in SetToSeqs(DOMAIN options.pathParams) :
              path = replacePathParams(TemplateUrl(options.template), options.pathParams, order)

\* A request that is built has such a path.
LEMMA BuildPathInv ==
    ASSUME NEW o \in OptionChoices, NewRequest(o)
    PROVE  PathInv'
<1>1. CASE pc' = "refused"
  BY <1>1 DEF PathInv, IsRequest
<1>2. CASE pc' # "refused"
  <2>1. /\ options' = o
        /\ \E order \in SetToSeqs(DOMAIN o.pathParams) :
              path' = replacePathParams(TemplateUrl(o.template), o.pathParams, order)
    BY <1>2, Zenon DEF NewRequest
  <2>. QED
    BY <2>1 DEF PathInv
<1>. QED
  BY <1>1, <1>2

\* Nothing changes the path of a request.
LEMMA StepPathInv == PathInv /\ [Next]_allVars => PathInv'
<1>. SUFFICES ASSUME PathInv, [Next]_allVars PROVE PathInv'
  OBVIOUS
<1>1. CASE Build
  BY <1>1, BuildPathInv DEF Build
<1>2. CASE UNCHANGED <<options, path>> /\ (IsRequest' => IsRequest)
  BY <1>2 DEF PathInv
<1>3. CASE ~ Build
  <2>1. UNCHANGED <<options, path>>
    BY <1>3 DEF Next, Start, StartRefused, SetParam, SetPathParam, SetPathParams, HeaderCall,
                Transform, TransformFails, toHTTPRequest, NetworkFails, Answer, Returns,
                recordMetrics, allVars, requestVars
  <2>2. IsRequest' => IsRequest
    BY <1>3 DEF IsRequest, Next, Start, StartRefused, SetParam, SetPathParam, SetPathParams,
                HeaderCall, Alive, Transform, TransformFails, toHTTPRequest, NetworkFails,
                Answer, Returns, recordMetrics, allVars, requestVars
  <2>. QED
    BY <1>2, <2>1, <2>2
<1>. QED
  BY <1>1, <1>3

\* For any unambiguous options, and whatever the order in which the path parameters are
\* visited, the path of a request is the template with each placeholder replaced.
THEOREM PathIsAsTemplated == Spec => []PathAsTemplated
<1>1. Init => PathInv
  BY DEF Init, PathInv, IsRequest
<1>2. PathInv => PathAsTemplated
  <2>1. SUFFICES ASSUME PathInv, IsRequest, Unambiguous(options) PROVE path = AskedPath(options)
    BY DEF PathAsTemplated
  <2>2. PICK o \in OptionChoices : o = options
    BY <2>1 DEF PathInv
  <2>3. IsTemplate(o.template, o.pathParams) /\ IsFiniteSet(DOMAIN o.pathParams)
    BY <2>1, <2>2, OptionsAreTemplate, OptionsAssumption
  <2>4. PICK order \in SetToSeqs(DOMAIN o.pathParams) :
           path = replacePathParams(TemplateUrl(o.template), o.pathParams, order)
    BY <2>1, <2>2 DEF PathInv
  <2>5. path = pathText(o.template, o.pathParams, DOMAIN o.pathParams, DOMAIN o.pathParams)
    BY <2>3, <2>4, PathReplaced
  <2>. QED
    BY <2>2, <2>3, <2>5, AskedIsPathText
<1>. QED
  BY <1>1, <1>2, StepPathInv, PTL DEF Spec

===============================================================================
