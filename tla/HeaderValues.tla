------------------------------ MODULE HeaderValues ------------------------------
(***************************************************************************)
(* What headers are and who has some: the package's defaults, a            *)
(* configuration given to New and the instance made of it, the options     *)
(* given to a request, the request made of them, the http.Request that is  *)
(* sent for it, and the copy Request.Headers hands out.                    *)
(***************************************************************************)
CONSTANTS
    Names,          \* header names, Authorization and ContentType among them
    Authorization,
    ContentType,
    Values,         \* header values, FormType among them
    BadValues,      \* the values that validateHeaders refuses
    FormType,       \* application/x-www-form-urlencoded
    None,           \* no value for a name
    Instances,
    Requests,
    defaultHeaders  \* defaultConfig.Headers

Maps == [Names -> Values \cup {None}]

ASSUME HeadersAssumption ==
    /\ {Authorization, ContentType} \subseteq Names
    /\ Authorization # ContentType
    /\ FormType \in Values \ BadValues
    /\ None \notin Values
    /\ defaultHeaders \in Maps
    /\ \A n \in Names : defaultHeaders[n] \notin BadValues

Defaults == <<"defaults", "package">>
Provided(i) == <<"provided", i>>
Config(i) == <<"config", i>>
Given(r) == <<"options", r>>
Held(r) == <<"request", r>>
Raw(r) == <<"raw", r>>
Returned(r) == <<"returned", r>>

Holders ==
    {Defaults}
    \cup {Provided(i) : i \in Instances} \cup {Config(i) : i \in Instances}
    \cup {Given(r) : r \in Requests} \cup {Held(r) : r \in Requests}
    \cup {Raw(r) : r \in Requests} \cup {Returned(r) : r \in Requests}

NoHeaders == [n \in Names |-> None]

\* The headers of a with those of b over them.
Overlay(a, b) == [n \in Names |-> IF b[n] = None THEN a[n] ELSE b[n]]

Without(m, name) == [m EXCEPT ![name] = None]

\* What FormData adds to the headers of a request.
FormHeaders(form) == [n \in Names |-> IF form /\ n = ContentType THEN FormType ELSE None]

validateHeaders(m) == \A n \in Names : m[n] \notin BadValues

===============================================================================
