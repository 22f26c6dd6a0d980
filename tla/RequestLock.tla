------------------------------ MODULE RequestLock ------------------------------
(***************************************************************************)
(* The mutex of one Request, and the goroutines that use the request: the  *)
(* pipeline that sends it, middleware, and code that kept a reference.     *)
(* What a method does under the lock is left out; what is modelled is the  *)
(* order in which it takes and releases req.mu, and sync.RWMutex itself.   *)
(*                                                                         *)
(* The RWMutex is not reentrant.  Its writers queue on an inner mutex w;   *)
(* the one that owns w keeps new readers out while it waits for the        *)
(* readers it found to leave, and its Unlock lets in every reader that     *)
(* arrived meanwhile before another writer has a turn.                     *)
(***************************************************************************)
EXTENDS Naturals, Sequences, FiniteSets

CONSTANTS
    Goroutines,
    Operations,    \* the operations the goroutines use, of those below
    Nobody

ASSUME NobodyAssumption == Nobody \notin Goroutines

-------------------------------------------------------------------------------
(* The lock operations of each method, in order. *)

SetParam_Refreshing == <<"Lock", "Lock", "Unlock", "Unlock">>

\* SetParam refreshes the URL with refreshUrlUnsafe, which expects the lock held.
\* SetHeader, SetHeaders, SetPathParam, OnCompleted and ClearAuth lock in the same way.
SetParam == <<"Lock", "Unlock">>

FullUrl_UnlockedTwice == <<"RLock", "RUnlock", "RUnlock">>

\* FullUrl and every other getter, and the copy of the channels dispatch makes.
FullUrl == <<"RLock", "RUnlock">>

toHTTPRequest_TransformLocked == <<"Lock", "RLock", "RUnlock", "Unlock">>

\* The transform, which reads the request's data, runs before the lock is taken.
toHTTPRequest == <<"RLock", "RUnlock", "Lock", "Unlock">>

\* Scheme, Host and Path, one after the other.
normalizeURL == <<"RLock", "RUnlock", "RLock", "RUnlock", "RLock", "RUnlock">>

\* The cached key under the read lock; then, under the write lock, the key again and,
\* when it is still missing, Scheme and Host.
getOrSetCircuitBreakerKey ==
    <<"RLock", "RUnlock", "Lock", "RLock", "RUnlock", "RLock", "RUnlock", "Unlock">>

Program(o) ==
    CASE o = "SetParam"      -> SetParam
      [] o = "FullUrl"       -> FullUrl
      [] o = "toHTTPRequest" -> toHTTPRequest
      [] o = "normalizeURL"  -> normalizeURL
      [] o = "getOrSetCircuitBreakerKey" -> getOrSetCircuitBreakerKey

\* What a request does that goes through no circuit breaker.
WithoutBreaker == {"SetParam", "FullUrl", "toHTTPRequest", "normalizeURL"}

-------------------------------------------------------------------------------

VARIABLES
    op,         \* what each goroutine is doing, "none" between two operations
    step,       \* the lock operation it is at
    reader,     \* each reader: "no", "parked" behind a writer, or "granted" the lock by it
    readers,    \* how often each goroutine holds the read lock
    w,          \* the writer that waits for the readers or holds the lock
    writing,    \* w holds the lock
    cbKeyCached

vars == <<op, step, reader, readers, w, writing, cbKeyCached>>

Init ==
    /\ op = [g \in Goroutines |-> "none"]
    /\ step = [g \in Goroutines |-> 1]
    /\ reader = [g \in Goroutines |-> "no"]
    /\ readers = [g \in Goroutines |-> 0]
    /\ w = Nobody
    /\ writing = FALSE
    /\ cbKeyCached = FALSE

At(g, lockOp) ==
    /\ op[g] # "none"
    /\ Program(op[g])[step[g]] = lockOp

\* Where a goroutine is after its current step.  With a cached key
\* getOrSetCircuitBreakerKey returns after the first look, or releases the write
\* lock at once after the second.
Following(g) ==
    IF op[g] = "getOrSetCircuitBreakerKey" /\ cbKeyCached /\ step[g] \in {2, 3}
    THEN IF step[g] = 2 THEN 9 ELSE 8
    ELSE step[g] + 1

Advance(g) ==
    IF Following(g) > Len(Program(op[g]))
    THEN op' = [op EXCEPT ![g] = "none"] /\ step' = [step EXCEPT ![g] = 1]
    ELSE step' = [step EXCEPT ![g] = Following(g)] /\ UNCHANGED op

Begin(g) ==
    /\ op[g] = "none"
    /\ \E o \in Operations : op' = [op EXCEPT ![g] = o]
    /\ UNCHANGED <<step, reader, readers, w, writing, cbKeyCached>>

\* A reader gets the lock at once unless a writer owns w; then it is parked until
\* the Unlock of that writer hands it the lock.
RLock(g) ==
    /\ At(g, "RLock")
    /\ reader[g] = "no"
    /\ \/ /\ w = Nobody
          /\ readers' = [readers EXCEPT ![g] = @ + 1]
          /\ Advance(g)
          /\ UNCHANGED reader
       \/ /\ w # Nobody
          /\ reader' = [reader EXCEPT ![g] = "parked"]
          /\ UNCHANGED <<op, step, readers>>
    /\ UNCHANGED <<w, writing, cbKeyCached>>

RLockGranted(g) ==
    /\ reader[g] = "granted"
    /\ reader' = [reader EXCEPT ![g] = "no"]
    /\ Advance(g)
    /\ UNCHANGED <<readers, w, writing, cbKeyCached>>

RUnlock(g) ==
    /\ At(g, "RUnlock")
    /\ readers' = [readers EXCEPT ![g] = @ - 1]
    /\ Advance(g)
    /\ UNCHANGED <<reader, w, writing, cbKeyCached>>

\* A writer first gets w ...
Lock(g) ==
    /\ At(g, "Lock")
    /\ w = Nobody
    /\ w' = g
    /\ UNCHANGED <<op, step, reader, readers, writing, cbKeyCached>>

\* ... and then the lock, when the readers it found have left.
LockDrained(g) ==
    /\ At(g, "Lock")
    /\ w = g
    /\ ~ writing
    /\ \A h \in Goroutines : readers[h] = 0
    /\ writing' = TRUE
    /\ Advance(g)
    /\ UNCHANGED <<reader, readers, w, cbKeyCached>>

\* The key is stored before the lock that protects it is released.
Unlock(g) ==
    /\ At(g, "Unlock")
    /\ w' = Nobody
    /\ writing' = FALSE
    /\ reader' = [h \in Goroutines |-> IF reader[h] = "parked" THEN "granted" ELSE reader[h]]
    /\ readers' = [h \in Goroutines |->
                        IF reader[h] = "parked" THEN readers[h] + 1 ELSE readers[h]]
    /\ cbKeyCached' = (cbKeyCached \/ op[g] = "getOrSetCircuitBreakerKey")
    /\ Advance(g)

Step(g) == RLock(g) \/ RLockGranted(g) \/ RUnlock(g) \/ LockDrained(g) \/ Unlock(g)

Next == \E g \in Goroutines : Begin(g) \/ Step(g) \/ Lock(g)

Spec == Init /\ [][Next]_vars

\* Goroutines run, and w, a sync.Mutex, starves nobody.  Nobody has to begin an
\* operation.
FairSpec ==
    /\ Spec
    /\ \A g \in Goroutines : WF_vars(Step(g)) /\ SF_vars(Lock(g))

-------------------------------------------------------------------------------
(* Properties. *)

\* Every variable stays in its range: nobody unlocks what it has not locked.
TypeOK ==
    /\ op \in [Goroutines -> Operations \cup {"none"}]
    /\ step \in [Goroutines -> 1 .. 8]
    /\ reader \in [Goroutines -> {"no", "parked", "granted"}]
    /\ readers \in [Goroutines -> 0 .. 1]
    /\ w \in Goroutines \cup {Nobody}
    /\ writing \in BOOLEAN
    /\ cbKeyCached \in BOOLEAN

\* No goroutine asks for the lock of a request while it holds that lock itself.
NeverReentered ==
    \A g \in Goroutines :
        At(g, "Lock") \/ At(g, "RLock") =>
            ~ (w = g /\ writing) /\ (readers[g] > 0 => reader[g] = "granted")

\* g has its next step before it, and does not wait for another goroutine.
CanMove(g) ==
    \/ At(g, "RUnlock") \/ At(g, "Unlock")
    \/ reader[g] = "granted"
    \/ At(g, "RLock") /\ reader[g] = "no" /\ w = Nobody
    \/ At(g, "Lock") /\ w = Nobody
    \/ At(g, "Lock") /\ w = g /\ ~ writing /\ \A h \in Goroutines : readers[h] = 0

\* Goroutines that wait for the lock of a request never all wait for each other: one of
\* those in an operation can go on, whether or not any other begins one.
NeverStuck ==
    (\E g \in Goroutines : op[g] # "none") => \E g \in Goroutines : CanMove(g)

\* Every operation on a request returns, however many goroutines use it.
OperationsReturn ==
    \A g \in Goroutines : op[g] # "none" ~> op[g] = "none"

\* A request that goes through a circuit breaker gets its key: the test "concurrent
\* requests with circuit breaker" expects at least one of them to succeed.
KeyIsComputed ==
    \A g \in Goroutines :
        op[g] = "getOrSetCircuitBreakerKey" ~> op[g] = "none"

===============================================================================
