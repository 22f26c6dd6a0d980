---------------------------- MODULE BreakerRegistry ----------------------------
(***************************************************************************)
(* CircuitBreakerManager: the breakers of a Vecto instance, one per key,   *)
(* behind a sync.RWMutex.  GetOrCreate looks the key up under the read     *)
(* lock, gives the lock up, and looks again under the write lock; another  *)
(* goroutine may create or remove the same breaker in between.             *)
(*                                                                         *)
(* A breaker is its address.  A new one gets any address that is neither   *)
(* in the map nor held by a goroutine, so an address may come back once    *)
(* its breaker is garbage.  What a breaker does is CircuitBreaker; its     *)
(* configuration, fixed at creation, is a constant there.                  *)
(***************************************************************************)
EXTENDS Naturals

CONSTANTS
    Callers,    \* the goroutines that look breakers up
    Keys,       \* the circuit breaker keys
    Addresses,  \* where a breaker can be allocated
    Nil         \* the nil *CircuitBreaker

ASSUME NilAssumption == Nil \notin Addresses

VARIABLES
    breakers,   \* key |-> the address of its breaker, Nil when it has none
    pc,         \* "idle", "missed": between the two lookups, "holding"
    key,        \* the key each caller asked for last
    held,       \* the breaker each caller got and still uses
    outdated    \* history: the key was removed since the caller got its breaker

vars == <<breakers, pc, key, held, outdated>>

Init ==
    /\ breakers = [k \in Keys |-> Nil]
    /\ pc = [c \in Callers |-> "idle"]
    /\ key \in [Callers -> Keys]
    /\ held = [c \in Callers |-> Nil]
    /\ outdated = [c \in Callers |-> FALSE]

Holders(ks) == {c \in Callers : key[c] \in ks /\ held[c] # Nil}

Hold(c, b) ==
    /\ held' = [held EXCEPT ![c] = b]
    /\ outdated' = [outdated EXCEPT ![c] = FALSE]
    /\ pc' = [pc EXCEPT ![c] = "holding"]

Fresh == {a \in Addresses : /\ \A k \in Keys : breakers[k] # a
                            /\ \A c \in Callers : held[c] # a}

-------------------------------------------------------------------------------
(* GetOrCreate. *)

\* Under the read lock.
GetOrCreate(c, k) ==
    /\ pc[c] = "idle"
    /\ key' = [key EXCEPT ![c] = k]
    /\ \/ breakers[k] # Nil /\ Hold(c, breakers[k])
       \/ /\ breakers[k] = Nil
          /\ pc' = [pc EXCEPT ![c] = "missed"]
          /\ UNCHANGED <<held, outdated>>
    /\ UNCHANGED breakers

Create(c) ==
    \E b \in Fresh :
        /\ breakers' = [breakers EXCEPT ![key[c]] = b]
        /\ Hold(c, b)

create_Unchecked(c) ==
    /\ pc[c] = "missed"
    /\ Create(c)
    /\ UNCHANGED key

\* Under the write lock: the key may have got its breaker meanwhile.
create(c) ==
    /\ pc[c] = "missed"
    /\ \/ breakers[key[c]] # Nil /\ Hold(c, breakers[key[c]]) /\ UNCHANGED breakers
       \/ breakers[key[c]] = Nil /\ Create(c)
    /\ UNCHANGED key

-------------------------------------------------------------------------------

Get_Unguarded(c, k) ==
    /\ pc[c] = "idle"
    /\ key' = [key EXCEPT ![c] = k]
    /\ Hold(c, breakers[k])
    /\ UNCHANGED breakers

\* Get returns nil for a key without a breaker, and creates none: its caller has
\* nothing to go on with.
Get(c, k) ==
    /\ pc[c] = "idle"
    /\ key' = [key EXCEPT ![c] = k]
    /\ \/ breakers[k] # Nil /\ Hold(c, breakers[k])
       \/ breakers[k] = Nil /\ UNCHANGED <<pc, held, outdated>>
    /\ UNCHANGED breakers

Outdate(cs) == outdated' = [c \in Callers |-> outdated[c] \/ c \in cs]

\* Remove and Clear leave the breakers to those who hold them.
Remove(k) ==
    /\ breakers[k] # Nil
    /\ breakers' = [breakers EXCEPT ![k] = Nil]
    /\ Outdate(Holders({k}))
    /\ UNCHANGED <<pc, key, held>>

Clear ==
    /\ \E k \in Keys : breakers[k] # Nil
    /\ breakers' = [k \in Keys |-> Nil]
    /\ Outdate(Holders(Keys))
    /\ UNCHANGED <<pc, key, held>>

\* The caller records its result and forgets the breaker.
Release(c) ==
    /\ pc[c] = "holding"
    /\ pc' = [pc EXCEPT ![c] = "idle"]
    /\ held' = [held EXCEPT ![c] = Nil]
    /\ outdated' = [outdated EXCEPT ![c] = FALSE]
    /\ UNCHANGED <<breakers, key>>

Next ==
    \/ \E c \in Callers, k \in Keys : GetOrCreate(c, k)
    \/ \E c \in Callers : create(c)
    \/ \E c \in Callers, k \in Keys : Get(c, k)
    \/ \E k \in Keys : Remove(k)
    \/ Clear
    \/ \E c \in Callers : Release(c)

Spec == Init /\ [][Next]_vars

-------------------------------------------------------------------------------
(* Properties. *)

\* Every variable stays in its range, and whoever goes on to use a breaker has one.
TypeOK ==
    /\ breakers \in [Keys -> Addresses \cup {Nil}]
    /\ pc \in [Callers -> {"idle", "missed", "holding"}]
    /\ key \in [Callers -> Keys]
    /\ held \in [Callers -> Addresses \cup {Nil}]
    /\ \A c \in Callers : pc[c] = "holding" <=> held[c] # Nil
    /\ outdated \in [Callers -> BOOLEAN]

\* Whoever got a breaker has the one every later caller of that key gets, until
\* the key is removed: no race of two creators leaves one of them counting
\* failures on a breaker of its own.
HeldIsRegistered ==
    \A c \in Callers :
        held[c] # Nil /\ ~ outdated[c] => breakers[key[c]] = held[c]

===============================================================================
