------------------------------- MODULE HeaderMaps -------------------------------
(***************************************************************************)
(* Headers as the code keeps them: Go maps, which are references.  Each    *)
(* holder has the address of a map or none, and whether two of them write  *)
(* the same memory is for the code to prevent: mergeConfig, newRequest,    *)
(* Request.Headers and attachHeadersToHttpReqUnsafe copy.                  *)
(*                                                                         *)
(* A header that is refused leaves everything as it was, so those calls    *)
(* are no steps here.  Header names are compared as they are written.      *)
(***************************************************************************)
EXTENDS HeaderValues

CONSTANTS
    Addresses,      \* the memory, never full in the runs
    Nil             \* the map that was not made

ASSUME AddressesAssumption == Addresses # {} /\ Nil \notin Addresses

VARIABLES
    mem,            \* what the map at each address holds
    place           \* the address of each holder's map

headerVars == <<mem, place>>

HeadersOf(h) == IF place[h] = Nil THEN NoHeaders ELSE mem[place[h]]

\* mergeConfig starts from the defaults and the builder makes a map, so an instance
\* and a request have a map from the beginning.
Exists(h) == place[h] # Nil

Unused == {a \in Addresses : \A h \in Holders : place[h] # a}

HeadersInit ==
    LET a == CHOOSE a \in Addresses : TRUE
    IN  /\ place = [h \in Holders |-> IF h = Defaults THEN a ELSE Nil]
        /\ mem = [b \in Addresses |-> IF b = a THEN defaultHeaders ELSE NoHeaders]

-------------------------------------------------------------------------------
(* make, and a write into a map. *)

\* h gets a new map that holds m.  The map it had is collected unless somebody else
\* has it too.
Make(h, m) ==
    LET a == CHOOSE a \in Unused : TRUE
        others == {place[g] : g \in Holders \ {h}}
    IN  /\ Unused # {}
        /\ place' = [place EXCEPT ![h] = a]
        /\ mem' = [b \in Addresses |->
                     IF b = a THEN m ELSE IF b \in others THEN mem[b] ELSE NoHeaders]

\* h writes into its map, which is made when there was none.
Write(h, m) ==
    \/ place[h] = Nil /\ Make(h, m)
    \/ /\ place[h] # Nil
       /\ mem' = [mem EXCEPT ![place[h]] = m]
       /\ UNCHANGED place

\* The caller fills or changes a map it owns.
ChangeProvided(i, m) == Write(Provided(i), m)
ChangeGiven(r, m) == Write(Given(r), m)
ChangeReturned(r, m) == Write(Returned(r), m)

-------------------------------------------------------------------------------
(* The instance. *)

mergeConfig_Shares(i) ==
    /\ place' = [place EXCEPT ![Config(i)] = place[Defaults]]
    /\ mem' = [mem EXCEPT ![place[Defaults]] =
                  Overlay(HeadersOf(Defaults), HeadersOf(Provided(i)))]

mergeConfig(i) ==
    Make(Config(i), Overlay(HeadersOf(Defaults), HeadersOf(Provided(i))))

New(i) ==
    /\ validateHeaders(HeadersOf(Provided(i)))
    /\ mergeConfig(i)

\* SetBasicAuth, SetBearerToken and SetAuthToken, which validate nothing.
SetAuth(i, t) ==
    /\ Exists(Config(i))
    /\ Write(Config(i), [HeadersOf(Config(i)) EXCEPT ![Authorization] = t])

ClearAuth(i) ==
    /\ Exists(Config(i))
    /\ Write(Config(i), Without(HeadersOf(Config(i)), Authorization))

-------------------------------------------------------------------------------
(* The request. *)

RequestHeaders(r, i, form) ==
    Overlay(Overlay(HeadersOf(Config(i)), HeadersOf(Given(r))), FormHeaders(form))

newRequest(r, i, form) ==
    /\ Exists(Config(i))
    /\ validateHeaders(RequestHeaders(r, i, form))
    /\ Make(Held(r), RequestHeaders(r, i, form))

\* SetHeader too, with the one header.
SetHeaders(r, m) ==
    /\ Exists(Held(r))
    /\ validateHeaders(m)
    /\ Write(Held(r), Overlay(HeadersOf(Held(r)), m))

ClearRequestAuth(r) ==
    /\ Exists(Held(r))
    /\ Write(Held(r), Without(HeadersOf(Held(r)), Authorization))

\* Request.Headers
CopyHeaders_Shares(r) ==
    /\ Exists(Held(r))
    /\ place' = [place EXCEPT ![Returned(r)] = place[Held(r)]]
    /\ UNCHANGED mem

CopyHeaders(r) ==
    /\ Exists(Held(r))
    /\ Make(Returned(r), HeadersOf(Held(r)))

\* refreshUrl puts an http.Request without headers in the place of the one there was.
refreshRawHeaders(r) ==
    /\ Exists(Held(r))
    /\ Make(Raw(r), NoHeaders)

attachHeadersToHttpReqUnsafe(r) ==
    /\ Exists(Held(r))
    /\ Make(Raw(r), HeadersOf(Held(r)))

-------------------------------------------------------------------------------

OfInstance(i) ==
    \/ \E m \in Maps : ChangeProvided(i, m)
    \/ New(i)
    \/ \E t \in Values : SetAuth(i, t)
    \/ ClearAuth(i)

OfRequest(r) ==
    \/ \E m \in Maps : ChangeGiven(r, m)
    \/ \E m \in Maps : ChangeReturned(r, m)
    \/ \E i \in Instances, form \in BOOLEAN : newRequest(r, i, form)
    \/ \E m \in Maps : SetHeaders(r, m)
    \/ ClearRequestAuth(r)
    \/ CopyHeaders(r)
    \/ refreshRawHeaders(r)
    \/ attachHeadersToHttpReqUnsafe(r)

HeadersNext == (\E i \in Instances : OfInstance(i)) \/ (\E r \in Requests : OfRequest(r))

HeadersSpec == HeadersInit /\ [][HeadersNext]_headerVars

-------------------------------------------------------------------------------
(* Properties. *)

\* No two holders have the same map: a write is seen by one of them.
NeverShared ==
    \A g, h \in Holders : place[g] = place[h] /\ place[g] # Nil => g = h

Promise == INSTANCE AbstractHeaders WITH headers <- [h \in Holders |-> HeadersOf(h)]

\* Whatever an instance, a request and their callers do with their headers, nobody
\* sees the writes of another: the maps implement headers that are values.
ImplementsValues == Promise!Spec

===============================================================================
