----------------------------- MODULE RequestObject -----------------------------
(***************************************************************************)
(* One request of one instance, from the configuration given to New to the *)
(* metrics record: mergeConfig, newRequest and its builder, the setters a  *)
(* goroutine that has the request may call at any moment, DefaultClient.Do *)
(* with toHTTPRequest and the size limit, and recordMetrics.  The headers  *)
(* are those of HeaderMaps.                                                *)
(*                                                                         *)
(* toHTTPRequest runs the transform before it takes the lock, so its two   *)
(* halves are two steps; every other method is one.  The URL and the body  *)
(* are what can be told apart: the path, the values of each query key, and *)
(* the size of the body.  refreshUrl is taken not to fail once newRequest  *)
(* has accepted the URL.  mergeConfig leaves EnableTrace behind, so no     *)
(* client that New makes ever traces.                                      *)
(***************************************************************************)
EXTENDS HeaderMaps, PathParams, Integers, FiniteSets

CONSTANTS
    v, r,               \* the instance and the request
    HeaderChoices,      \* the headers callers use
    ProvidedSizes,      \* the MaxResponseBodySize of the Config given to New
    MaxAllowedSize,     \* 1 GB
    DefaultMaxSize,     \* defaultConfig.MaxResponseBodySize
    OptionChoices,      \* [template, pathParams, query, params, form, bodySize]
    Followed,           \* bound: the options of the requests that are used once built
    Keys,               \* query keys
    KeyValues,          \* values given to SetParam
    PathMaps,           \* maps given to SetPathParam and SetPathParams
    OwnQuery,           \* the query the base URL itself has: Keys -> sequences
    MaxBody,            \* bound: the largest response body
    MaxSends,           \* bound: the sends, retries included
    MaxOps              \* bound: the calls of the callers

ASSUME RequestObjectAssumption ==
    /\ v \in Instances /\ r \in Requests
    /\ HeaderChoices \subseteq Maps
    /\ MaxAllowedSize \in Nat /\ DefaultMaxSize \in 1 .. MaxAllowedSize
    /\ ProvidedSizes \subseteq Int
    /\ OwnQuery \in [DOMAIN OwnQuery -> Seq(STRING)]
    /\ MaxBody \in Nat /\ MaxSends \in Nat /\ MaxOps \in Nat

\* The key under which the path parameters of a built request are kept, among the
\* query parameters, and the key SetParam refuses.
PathKey == "__path_params__"
EmptyKey == ""

\* A struct has its fields in order, and a field always has a name: its own, when the
\* tag has none.  Names and keys of a template are words, and no key is empty; of the
\* base URL, which the code replaces in too, no key is taken to follow a colon.
ASSUME OptionsAssumption ==
    \A o \in OptionChoices :
        /\ o.form \in BOOLEAN
        /\ o.query \in Seq({o.query[i] : i \in DOMAIN o.query})
        /\ \A i \in DOMAIN o.query : o.query[i].name # EmptyKey
        /\ IsFiniteSet(DOMAIN o.params)
        /\ o.template \in Seq({o.template[i] : i \in DOMAIN o.template})
        /\ \A i \in DOMAIN o.template : /\ o.template[i].kind \in {"text", "brace", "colon"}
                                        /\ o.template[i].name \in Seq(WordTokens)
        /\ IsFiniteSet(DOMAIN o.pathParams)
        /\ \A key \in DOMAIN o.pathParams : /\ key \in Seq(WordTokens) /\ key # <<>>
                                            /\ o.pathParams[key] \in Seq(STRING)

VARIABLES
    provided,   \* the MaxResponseBodySize given to New
    maxSize,    \* the merged one, None before New
    options,    \* the options of the request, None before newRequest
    pc,
    path,       \* of baseURL, with its placeholders replaced
    params,     \* r.params: each key's value or None
    url,        \* the query of r.url: each key's values, in order
    raw,        \* r.rawReq: [url, size]
    pending,    \* what the transform returned: the size of a body, or None
    res,        \* [kind, size]: what Do returned
    record,     \* the sizes in the metrics, or None
    ops, sends, \* counters for the bounds
    \* History, read by the properties only:
    answer,     \* [size, broken]: the last body the server sent
    refreshed   \* a SetParam replaced rawReq after it was sent

requestVars == <<provided, maxSize, options, pc, path, params, url, raw, pending, res,
                 record, sends, answer, refreshed>>
allVars == <<headerVars, requestVars, ops>>

AllKeys == Keys \cup {PathKey}
NoParams == [k \in AllKeys |-> None]
NoQuery == [k \in AllKeys |-> <<>>]
NoResult == [kind |-> "none", size |-> 0]

\* A call of one of the callers.
Call == ops < MaxOps /\ ops' = ops + 1

-------------------------------------------------------------------------------
(* The instance. *)

Init ==
    /\ HeadersInit
    /\ provided \in ProvidedSizes
    /\ maxSize = None /\ options = None
    /\ pc = "start"
    /\ path = <<>> /\ params = NoParams /\ url = NoQuery
    /\ raw = None /\ pending = None
    /\ res = NoResult /\ record = None
    /\ ops = 0 /\ sends = 0
    /\ answer = None /\ refreshed = FALSE

validateConfig(size) == size \in 0 .. MaxAllowedSize

Start ==
    /\ pc = "start"
    /\ validateConfig(provided)
    /\ New(v)
    /\ maxSize' = IF provided > 0 THEN provided ELSE DefaultMaxSize
    /\ pc' = "instance"
    /\ UNCHANGED <<provided, options, path, params, url, raw, pending, res, record, ops,
                   sends, answer, refreshed>>

StartRefused ==
    /\ pc = "start"
    /\ ~ (validateConfig(provided) /\ validateHeaders(HeadersOf(Provided(v))))
    /\ pc' = "refused"
    /\ UNCHANGED <<headerVars, provided, maxSize, options, path, params, url, raw, pending,
                   res, record, ops, sends, answer, refreshed>>

-------------------------------------------------------------------------------
(* The URL and its parameters. *)

\* getUrlInstance: the base URL's own query, then the parameters beside it.  A slice
\* is one value, the text of the slice.
getUrlInstance(ps) ==
    [k \in AllKeys |->
        (IF k \in DOMAIN OwnQuery THEN OwnQuery[k] ELSE <<>>)
        \o (IF ps[k] = None THEN <<>> ELSE <<ps[k]>>)]

refreshUrl_OnTop(ps) ==
    /\ url' = [k \in AllKeys |-> url[k] \o (IF ps[k] = None THEN <<>> ELSE <<ps[k]>>)]
    /\ raw' = [url |-> url', size |-> 0]

\* The new http.Request has no headers (refreshRawHeaders).  For that of newRequest, which
\* has had none before, this is the map that was not made.
refreshUrl(ps) ==
    /\ url' = getUrlInstance(ps)
    /\ raw' = [url |-> url', size |-> 0]

\* requestBuilder.SetParam: the first error stays, and nothing is set after it.
builderSetParam_Forgets(b, key, value) ==
    IF key = EmptyKey
    THEN [b EXCEPT !.err = TRUE]
    ELSE [params |-> [b.params EXCEPT ![key] = value], err |-> FALSE]

builderSetParam(b, key, value) ==
    IF b.err THEN b
    ELSE IF key = EmptyKey
    THEN [b EXCEPT !.err = TRUE]
    ELSE [b EXCEPT !.params[key] = value]

\* The range over a map visits its keys in any order.
SetAll(b, map, order) ==
    LET set(c, key) == builderSetParam(c, key, map[key]) IN FoldLeft(set, b, order)

\* newRequest's query: QueryStruct first, Params over it.
BuiltParams(o, qorder, porder) ==
    SetAll(SetAll([params |-> NoParams, err |-> FALSE],
                  structToQueryParams(o.query).params, qorder),
           o.params, porder)

NewRequest(o) ==
    \E qorder \in SetToSeqs(DOMAIN structToQueryParams(o.query).params),
       porder \in SetToSeqs(DOMAIN o.params), order \in SetToSeqs(DOMAIN o.pathParams) :
        LET b == BuiltParams(o, qorder, porder)
            headersOK == validateHeaders(RequestHeaders(r, v, o.form))
        IN  /\ pc = "instance"
            /\ options' = o
            /\ IF headersOK /\ ~ structToQueryParams(o.query).err /\ ~ b.err
               THEN /\ newRequest(r, v, o.form)
                    /\ pc' = "built"
                    /\ path' = replacePathParams(TemplateUrl(o.template), o.pathParams, order)
                    /\ params' = [k \in AllKeys |-> b.params[k]]
                    /\ refreshUrl(params')
               ELSE /\ pc' = "refused"
                    /\ UNCHANGED <<headerVars, path, params, url, raw>>
            /\ UNCHANGED <<provided, maxSize, pending, res, record, ops, sends, answer,
                           refreshed>>

Build == \E o \in OptionChoices : NewRequest(o)

-------------------------------------------------------------------------------
(* The setters, called by whoever has the request, while it is sent too. *)

Alive == pc \in {"built", "transformed", "inFlight", "answered"} /\ options \in Followed

SetParam_Stale(key, value) ==
    /\ Alive /\ Call
    /\ params' = [params EXCEPT ![key] = value]
    /\ UNCHANGED <<url, raw, refreshed>>
    /\ UNCHANGED <<headerVars, provided, maxSize, options, pc, path, pending, res, record,
                   sends, answer>>

SetParam(key, value) ==
    /\ Alive /\ Call
    /\ params' = [params EXCEPT ![key] = value]
    /\ refreshUrl(params')
    /\ refreshRawHeaders(r)
    /\ refreshed' = (sends > 0)
    /\ UNCHANGED <<provided, maxSize, options, pc, path, pending, res, record, sends, answer>>

\* One parameter goes into the map that is there, or into a new one; neither replaces
\* a placeholder, and the URL stays as it is until the next SetParam.
SetPathParam(map) ==
    /\ Alive /\ Call
    /\ params' = [params EXCEPT ![PathKey] =
                    IF params[PathKey] = None THEN map
                    ELSE [k \in DOMAIN map \cup DOMAIN params[PathKey] |->
                            IF k \in DOMAIN map THEN map[k] ELSE params[PathKey][k]]]
    /\ UNCHANGED <<headerVars, provided, maxSize, options, pc, path, url, raw, pending, res,
                   record, sends, answer, refreshed>>

SetPathParams(map) ==
    /\ Alive /\ Call
    /\ params' = [params EXCEPT ![PathKey] = map]
    /\ UNCHANGED <<headerVars, provided, maxSize, options, pc, path, url, raw, pending, res,
                   record, sends, answer, refreshed>>

\* The callers' own maps and the headers of the instance and of the request.
HeaderCall ==
    /\ Call
    /\ pc \in {"start", "instance"} \/ Alive
    /\ \/ \E m \in HeaderChoices :
            ChangeProvided(v, m) \/ ChangeGiven(r, m) \/ ChangeReturned(r, m) \/ SetHeaders(r, m)
       \/ \E m \in HeaderChoices : SetAuth(v, m[Authorization]) /\ m[Authorization] # None
       \/ ClearAuth(v) \/ ClearRequestAuth(r) \/ CopyHeaders(r)
    /\ UNCHANGED requestVars

-------------------------------------------------------------------------------
(* DefaultClient.Do, once for each attempt. *)

Transform ==
    /\ Alive
    /\ pc \in {"built", "answered"}
    /\ sends < MaxSends
    /\ pending' = options.bodySize
    /\ pc' = "transformed"
    /\ res' = NoResult
    /\ answer' = None
    /\ UNCHANGED <<headerVars, provided, maxSize, options, path, params, url, raw, record,
                   ops, sends, refreshed>>

Failed == [kind |-> "error", size |-> 0]

TransformFails ==
    /\ pc = "transformed"
    /\ pc' = "answered"
    /\ pending' = None
    /\ res' = Failed
    /\ UNCHANGED <<headerVars, provided, maxSize, options, path, params, url, raw, record,
                   ops, sends, answer, refreshed>>

toHTTPRequest_NotKept ==
    /\ pc = "transformed"
    /\ raw' = raw
    /\ attachHeadersToHttpReqUnsafe(r)
    /\ pc' = "inFlight"
    /\ pending' = None
    /\ sends' = sends + 1
    /\ refreshed' = FALSE
    /\ UNCHANGED <<provided, maxSize, options, path, params, url, res, record, ops, answer>>

\* The second half of toHTTPRequest, and the send.
toHTTPRequest ==
    /\ pc = "transformed"
    /\ raw' = [url |-> url, size |-> pending]
    /\ attachHeadersToHttpReqUnsafe(r)
    /\ pc' = "inFlight"
    /\ pending' = None
    /\ sends' = sends + 1
    /\ refreshed' = FALSE
    /\ UNCHANGED <<provided, maxSize, options, path, params, url, res, record, ops, answer>>

Returns(result) ==
    /\ pc = "inFlight"
    /\ pc' = "answered"
    /\ res' = result
    /\ UNCHANGED <<headerVars, provided, maxSize, options, path, params, url, raw, pending,
                   record, ops, sends, refreshed>>

NetworkFails == Returns(Failed) /\ UNCHANGED answer

\* Of a body some bytes arrive, all of them unless the connection breaks.  ReadAll
\* stops at the limit; one more byte is then asked for, and whether that read fails
\* is not looked at.
BodyResult_NoProbe(sent, broken) ==
    IF broken /\ sent < maxSize THEN Failed
    ELSE [kind |-> "response", size |-> IF sent < maxSize THEN sent ELSE maxSize]

BodyResult(sent, broken) ==
    IF (broken /\ sent < maxSize) \/ sent > maxSize THEN Failed
    ELSE [kind |-> "response", size |-> sent]

Answer(size, sent, broken) ==
    /\ sent = size \/ broken
    /\ Returns(BodyResult(sent, broken))
    /\ answer' = [size |-> size, broken |-> broken]

-------------------------------------------------------------------------------
(* recordMetrics: the size of the request is read from rawReq. *)

recordMetrics ==
    /\ pc = "answered"
    /\ pc' = "recorded"
    /\ record' = [request |-> raw.size, response |-> res.size]
    /\ UNCHANGED <<headerVars, provided, maxSize, options, path, params, url, raw, pending,
                   res, ops, sends, answer, refreshed>>

Next ==
    \/ Start \/ StartRefused \/ Build
    \/ \E k \in Keys, x \in KeyValues : SetParam(k, x)
    \/ \E map \in PathMaps : SetPathParam(map) \/ SetPathParams(map)
    \/ HeaderCall
    \/ Transform \/ TransformFails \/ toHTTPRequest \/ NetworkFails
    \/ \E size \in 0 .. MaxBody : \E sent \in 0 .. size, broken \in BOOLEAN : Answer(size, sent, broken)
    \/ recordMetrics

Spec == Init /\ [][Next]_allVars

-------------------------------------------------------------------------------
(* Properties. *)

IsRequest == pc \in {"built", "transformed", "inFlight", "answered", "recorded"}

\* The variables keep their types; a URL has at most one value of each key beside
\* those the base URL has itself.
TypeOK ==
    /\ pc \in {"start", "instance", "refused"} \/ IsRequest
    /\ maxSize = None \/ maxSize \in 1 .. MaxAllowedSize
    /\ IsRequest => \A k \in AllKeys : Len(url[k]) <= 1 + Len(getUrlInstance(NoParams)[k])
    /\ res.kind \in {"none", "response", "error"}
    /\ res.size \in 0 .. MaxBody
    /\ pending # None => pc = "transformed"
    /\ ops \in 0 .. MaxOps /\ sends \in 0 .. MaxSends

\* A field that is not skipped, nor empty where that means nothing is to be sent.
IsAsked(f) ==
    /\ ~ f.skipped
    /\ f.zero => f.kind \notin {"slice", "pointer"} /\ (f.omitEmpty => f.kind = "struct")

\* What the options ask of the parameters: Params before QueryStruct, whose last field
\* of a name counts.
Asked(o, k) ==
    LET fields == {i \in DOMAIN o.query : o.query[i].name = k /\ IsAsked(o.query[i])}
    IN  IF k \in DOMAIN o.params THEN o.params[k]
        ELSE IF fields = {} THEN None
        ELSE o.query[CHOOSE i \in fields : \A j \in fields : j <= i].value

\* In whatever order newRequest visits the maps it is given, the request has the
\* parameters its options ask for, and is refused exactly when a key is empty, a field
\* that is asked for has no conversion or a header is invalid.
AsOptioned ==
    options = None /\ options' # None =>
        LET o == options'
            refused == \/ EmptyKey \in DOMAIN o.params
                       \/ \E i \in DOMAIN o.query :
                            IsAsked(o.query[i]) /\ isUnsupported(o.query[i])
                       \/ ~ validateHeaders(RequestHeaders(r, v, o.form))
        IN  IF refused THEN pc' = "refused"
            ELSE pc' = "built" /\ \A k \in AllKeys : params'[k] = Asked(o, k)

\* Nothing else builds a request.
BuiltAsOptioned == [][AsOptioned]_allVars

\* The path a template asks for: each placeholder by the escaped value of its key.
AskedPath(o) ==
    LET segment(p) == IF p.kind # "text" /\ p.name \in DOMAIN o.pathParams
                      THEN <<p.name>> ELSE <<>>
    IN  FlattenSeq([i \in DOMAIN o.template |->
            IF segment(o.template[i]) = <<>>
            THEN TemplateUrl(<<o.template[i]>>)
            ELSE <<"/">> \o PathEscape(o.pathParams[o.template[i].name])])

\* No key is the beginning of the name of another placeholder, and no value brings a
\* colon of its own.
Unambiguous(o) ==
    /\ \A key \in DOMAIN o.pathParams, i \in DOMAIN o.template :
          o.template[i].kind = "colon" /\ IsPrefix(key, o.template[i].name)
              => key = o.template[i].name
    /\ \A key \in DOMAIN o.pathParams : ":" \notin {o.pathParams[key][i] :
                                                  i \in DOMAIN o.pathParams[key]}

\* Path parameters are replaced all at once, as it were: the order in which the map is
\* visited does not show, unless the options are ambiguous.
PathAsTemplated == IsRequest /\ Unambiguous(options) => path = AskedPath(options)

\* The URL, and the http.Request that goes out, carry every parameter set so far, once
\* each and with its last value, beside the base URL's own query, however often and
\* whenever parameters were set.
UrlFromParams ==
    IsRequest =>
        /\ \A k \in Keys : url[k] = getUrlInstance(params)[k]
        /\ raw.url = url

\* The metrics have the size of the body that was sent, in the last attempt that got so
\* far, unless a SetParam has put an empty http.Request in its place since.
SizeRecorded ==
    pc = "recorded" /\ ~ refreshed =>
        record.request = IF sends = 0 THEN 0 ELSE options.bodySize

\* A response has the whole body the server sent, or is an error: it is never cut at
\* MaxResponseBodySize, except when the connection breaks exactly there.
WholeBodyOrError ==
    res.kind = "response" =>
        \/ res.size = answer.size
        \/ answer.broken /\ res.size = maxSize

\* A path parameter is no query parameter.  In the code SetPathParam keeps it among
\* them, and the next SetParam writes it into the URL.
PathParamsNotInQuery == IsRequest => url[PathKey] = <<>>

===============================================================================
