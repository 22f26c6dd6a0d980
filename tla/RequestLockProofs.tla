--------------------------- MODULE RequestLockProofs ---------------------------
(***************************************************************************)
(* The mutex of a request that goes through no circuit breaker, for any    *)
(* number of goroutines.                                                   *)
(***************************************************************************)
EXTENDS RequestLock, TLAPS

-------------------------------------------------------------------------------
(* The methods. *)

\* Which release goes with which acquisition.
Release(lockOp) == IF lockOp = "Lock" THEN "Unlock" ELSE "RUnlock"

\* Each of these methods takes and releases the lock by turns: at its odd steps it
\* takes the lock, and the next step, which it always has, is the matching release.
LEMMA ProgramsAlternate ==
    ASSUME NEW o \in WithoutBreaker
    PROVE  /\ Len(Program(o)) \in {2, 4, 6}
           /\ \A i \in {1, 3, 5} : i <= Len(Program(o)) =>
                /\ i + 1 <= Len(Program(o))
                /\ Program(o)[i] \in {"Lock", "RLock"}
                /\ Program(o)[i + 1] = Release(Program(o)[i])
<1>. USE DEF Release
<1>1. CASE o = "SetParam"
  BY <1>1 DEF Program, SetParam
<1>2. CASE o = "FullUrl"
  BY <1>2 DEF Program, FullUrl
<1>3. CASE o = "toHTTPRequest"
  BY <1>3 DEF Program, toHTTPRequest
<1>4. CASE o = "normalizeURL"
  BY <1>4 DEF Program, normalizeURL
<1>. QED
  BY <1>1, <1>2, <1>3, <1>4 DEF WithoutBreaker

LEMMA OnlyLockOperations ==
    ASSUME NEW o \in WithoutBreaker, NEW i \in 1 .. Len(Program(o))
    PROVE  Program(o)[i] \in {"Lock", "RLock", "Unlock", "RUnlock"}
<1>1. Len(Program(o)) \in {2, 4, 6}
  BY ProgramsAlternate
<1>2. i \in {1, 3, 5} \/ (i - 1 \in {1, 3, 5} /\ (i - 1) + 1 = i)
  <2>. DEFINE n == Len(Program(o))
  <2>1. n \in {2, 4, 6} /\ i \in 1 .. n
    BY <1>1
  <2>. HIDE DEF n
  <2>. QED
    BY <2>1
<1>3. i <= Len(Program(o)) /\ i - 1 <= Len(Program(o))
  BY <1>1, <1>2
<1>. QED
  BY <1>1, <1>2, <1>3, ProgramsAlternate DEF Release

-------------------------------------------------------------------------------
(* The inductive invariant. *)

\* A goroutine is between two operations, or at a step of the one it is doing.
Placed(g) ==
    \/ op[g] = "none" /\ step[g] = 1
    \/ op[g] \in WithoutBreaker /\ step[g] \in 1 .. Len(Program(op[g]))

\* Where a goroutine is tells what it holds: who is about to release the lock is who
\* has it, and a reader that was granted the lock while it waited has it already.
HoldsWhatItReleases(g) ==
    /\ At(g, "Unlock") <=> w = g /\ writing
    /\ readers[g] = IF At(g, "RUnlock") \/ reader[g] = "granted" THEN 1 ELSE 0
    /\ reader[g] # "no" => At(g, "RLock")

\* A writer that holds the lock holds it alone.
MutualExclusion ==
    writing => w # Nobody /\ \A g \in Goroutines : readers[g] = 0

IInv ==
    /\ TypeOK
    /\ \A g \in Goroutines : Placed(g) /\ HoldsWhatItReleases(g)
    /\ MutualExclusion
    /\ w # Nobody => At(w, "Lock") \/ At(w, "Unlock")

\* The step of a goroutine that is not doing g's operation.
Elsewhere(g) ==
    \A h \in Goroutines \ {g} : op'[h] = op[h] /\ step'[h] = step[h]

\* The steps of a program are odd or even, and after an even one comes an odd one.
LEMMA Parity ==
    ASSUME NEW n \in {2, 4, 6}, NEW s \in 1 .. n
    PROVE  \/ s \in {1, 3, 5} /\ s <= n /\ s + 1 \in 1 .. n
           \/ /\ s \in {2, 4, 6}
              /\ s - 1 \in {1, 3, 5} /\ s - 1 <= n /\ (s - 1) + 1 = s
              /\ s = n \/ (s + 1 \in {3, 5} /\ s + 1 \in 1 .. n /\ s + 1 <= n)
OBVIOUS

\* Where the program of a goroutine asks for the lock or gives it back.
LEMMA Positions ==
    ASSUME NEW g \in Goroutines, Placed(g), op[g] # "none"
    PROVE  /\ Len(Program(op[g])) \in {2, 4, 6}
           /\ step[g] \in 1 .. Len(Program(op[g]))
           /\ At(g, "Lock") \/ At(g, "RLock") =>
                /\ step[g] + 1 \in 1 .. Len(Program(op[g]))
                /\ Program(op[g])[step[g] + 1] = Release(Program(op[g])[step[g]])
           /\ At(g, "Unlock") \/ At(g, "RUnlock") =>
                \/ step[g] = Len(Program(op[g]))
                \/ /\ step[g] + 1 \in 1 .. Len(Program(op[g]))
                   /\ Program(op[g])[step[g] + 1] \in {"Lock", "RLock"}
<1>1. op[g] \in WithoutBreaker /\ step[g] \in 1 .. Len(Program(op[g]))
  BY DEF Placed
<1>2. Len(Program(op[g])) \in {2, 4, 6}
  BY <1>1, ProgramsAlternate
<1>3. CASE /\ step[g] \in {1, 3, 5} /\ step[g] <= Len(Program(op[g]))
           /\ step[g] + 1 \in 1 .. Len(Program(op[g]))
  BY <1>1, <1>2, <1>3, ProgramsAlternate DEF At, Release
<1>4. CASE /\ step[g] \in {2, 4, 6}
           /\ step[g] - 1 \in {1, 3, 5} /\ step[g] - 1 <= Len(Program(op[g]))
           /\ (step[g] - 1) + 1 = step[g]
           /\ \/ step[g] = Len(Program(op[g]))
              \/ /\ step[g] + 1 \in {3, 5} /\ step[g] + 1 <= Len(Program(op[g]))
                 /\ step[g] + 1 \in 1 .. Len(Program(op[g]))
  <2>1. Program(op[g])[step[g]] \in {"Unlock", "RUnlock"}
    BY <1>1, <1>4, ProgramsAlternate DEF Release
  <2>. QED
    BY <1>1, <1>2, <1>4, <2>1, ProgramsAlternate DEF At
<1>. QED
  BY <1>1, <1>2, <1>3, <1>4, Parity

\* After it got the lock, a goroutine is at the release of it.
LEMMA AfterAcquire ==
    ASSUME TypeOK, NEW g \in Goroutines, Placed(g), NEW l \in {"Lock", "RLock"},
           At(g, l), Advance(g)
    PROVE  /\ op' \in [Goroutines -> Operations \cup {"none"}]
           /\ step' \in [Goroutines -> 1 .. 8]
           /\ Placed(g)' /\ At(g, Release(l))' /\ Elsewhere(g)
<1>1. op[g] # "none" /\ Program(op[g])[step[g]] = l /\ op[g] \in WithoutBreaker
  BY DEF At, Placed
<1>2. step[g] + 1 \in 1 .. Len(Program(op[g])) /\ Len(Program(op[g])) \in {2, 4, 6}
  BY <1>1, Positions
<1>3. Program(op[g])[step[g] + 1] = Release(l)
  BY <1>1, Positions
<1>4. Following(g) = step[g] + 1
  BY <1>1 DEF Following, WithoutBreaker
<1>5. op' = op /\ step' = [step EXCEPT ![g] = step[g] + 1]
  BY <1>2, <1>4 DEF Advance
<1>6. step' \in [Goroutines -> 1 .. 8] /\ step'[g] = step[g] + 1
  <2>1. \A n \in {2, 4, 6} : \A s \in 1 .. n : s \in 1 .. 8
    OBVIOUS
  <2>2. step[g] + 1 \in 1 .. 8
    BY <1>2, <2>1, Zenon
  <2>. QED
    BY <1>5, <2>2 DEF TypeOK
<1>. QED
  BY <1>1, <1>2, <1>3, <1>5, <1>6 DEF TypeOK, Placed, At, Elsewhere

\* After it gave the lock back, a goroutine is not at a release.
LEMMA AfterRelease ==
    ASSUME TypeOK, NEW g \in Goroutines, Placed(g), NEW l \in {"Unlock", "RUnlock"},
           At(g, l), Advance(g)
    PROVE  /\ op' \in [Goroutines -> Operations \cup {"none"}]
           /\ step' \in [Goroutines -> 1 .. 8]
           /\ Placed(g)' /\ ~ At(g, "Unlock")' /\ ~ At(g, "RUnlock")' /\ Elsewhere(g)
<1>1. op[g] # "none" /\ Program(op[g])[step[g]] = l /\ op[g] \in WithoutBreaker
  BY DEF At, Placed
<1>2. Following(g) = step[g] + 1 /\ Len(Program(op[g])) \in {2, 4, 6}
      /\ step[g] \in 1 .. Len(Program(op[g]))
  BY <1>1, Positions DEF Following, WithoutBreaker
<1>3. CASE step[g] = Len(Program(op[g]))
  <2>1. /\ op' = [op EXCEPT ![g] = "none"]
        /\ step' = [step EXCEPT ![g] = 1]
    BY <1>2, <1>3 DEF Advance
  <2>. QED
    BY <2>1 DEF TypeOK, Placed, At, Elsewhere
<1>4. CASE step[g] # Len(Program(op[g]))
  <2>1. /\ step[g] + 1 \in 1 .. Len(Program(op[g]))
        /\ Program(op[g])[step[g] + 1] \in {"Lock", "RLock"}
    BY <1>1, <1>2, <1>4, Positions DEF At
  <2>2. op' = op /\ step' = [step EXCEPT ![g] = step[g] + 1]
    BY <1>2, <2>1 DEF Advance
  <2>3. step' \in [Goroutines -> 1 .. 8] /\ step'[g] = step[g] + 1
    <3>1. \A n \in {2, 4, 6} : \A s \in 1 .. n : s \in 1 .. 8
      OBVIOUS
    <3>2. step[g] + 1 \in 1 .. 8
      BY <1>2, <2>1, <3>1, Zenon
    <3>. QED
      BY <2>2, <3>2 DEF TypeOK
  <2>. QED
    BY <1>1, <2>1, <2>2, <2>3 DEF TypeOK, Placed, At, Elsewhere
<1>. QED
  BY <1>3, <1>4

\* A goroutine is at one lock operation at most.
LEMMA AtOne ==
    ASSUME NEW g, NEW k, NEW l, At(g, k), At(g, l)
    PROVE  k = l
BY DEF At

\* A step of one goroutine leaves the others where they are.
LEMMA OthersStay ==
    ASSUME NEW g \in Goroutines, Elsewhere(g), NEW h \in Goroutines \ {g}
    PROVE  /\ Placed(h) => Placed(h)'
           /\ \A l : At(h, l)' <=> At(h, l)
BY DEF Elsewhere, Placed, At

LEMMA InitIInv == Init => IInv
<1>. SUFFICES ASSUME Init PROVE IInv
  OBVIOUS
<1>1. TypeOK /\ MutualExclusion
  <2>1. writing \in BOOLEAN /\ cbKeyCached \in BOOLEAN /\ ~ writing
    BY Zenon DEF Init
  <2>2. /\ op \in [Goroutines -> Operations \cup {"none"}]
        /\ step \in [Goroutines -> 1 .. 8]
        /\ reader \in [Goroutines -> {"no", "parked", "granted"}]
        /\ readers \in [Goroutines -> 0 .. 1]
        /\ w \in Goroutines \cup {Nobody}
    BY DEF Init
  <2>. QED
    BY <2>1, <2>2 DEF TypeOK, MutualExclusion
<1>2. ASSUME NEW g \in Goroutines PROVE Placed(g) /\ HoldsWhatItReleases(g)
  BY DEF Init, Placed, HoldsWhatItReleases, At
<1>. QED
  BY <1>1, <1>2 DEF Init, IInv

\* A goroutine begins an operation by asking for the lock, not by releasing it.
LEMMA BeginIInv ==
    ASSUME Operations \subseteq WithoutBreaker, IInv, NEW g \in Goroutines, Begin(g)
    PROVE  IInv'
<1>. USE DEF IInv
<1>1. PICK o \in Operations : op' = [op EXCEPT ![g] = o]
  BY DEF Begin
<1>2. /\ op' \in [Goroutines -> Operations \cup {"none"}] /\ op'[g] = o /\ op[g] = "none"
      /\ o \in WithoutBreaker /\ step'[g] = 1
      /\ UNCHANGED <<step, reader, readers, w, writing, cbKeyCached>>
  BY <1>1 DEF Begin, TypeOK, Placed, WithoutBreaker
<1>3. Elsewhere(g)
  BY <1>1, <1>2 DEF Elsewhere, TypeOK
<1>4. Len(Program(o)) \in {2, 4, 6} /\ Program(o)[1] \in {"Lock", "RLock"}
  BY <1>2, ProgramsAlternate
<1>5. Placed(g)' /\ ~ At(g, "Unlock")' /\ ~ At(g, "RUnlock")'
  BY <1>2, <1>4 DEF Placed, At
<1>6. \A l : ~ At(g, l)
  BY <1>2 DEF At
<1>7. HoldsWhatItReleases(g)'
  BY <1>2, <1>5, <1>6 DEF HoldsWhatItReleases
<1>8. ASSUME NEW h \in Goroutines \ {g} PROVE Placed(h)' /\ HoldsWhatItReleases(h)'
  BY <1>2, <1>3, OthersStay DEF HoldsWhatItReleases
<1>9. w' # Nobody => At(w, "Lock")' \/ At(w, "Unlock")'
  BY <1>2, <1>3, <1>6, OthersStay DEF TypeOK
<1>10. TypeOK' /\ MutualExclusion'
  BY <1>2 DEF TypeOK, MutualExclusion
<1>. QED
  BY <1>2, <1>5, <1>7, <1>8, <1>9, <1>10

\* A reader gets the lock, or waits for a writer.
LEMMA RLockIInv ==
    ASSUME IInv, NEW g \in Goroutines, RLock(g)
    PROVE  IInv'
<1>. USE DEF IInv
<1>1. /\ At(g, "RLock") /\ ~ At(g, "Lock") /\ ~ At(g, "Unlock") /\ ~ At(g, "RUnlock")
      /\ reader[g] = "no" /\ readers[g] = 0
      /\ UNCHANGED <<w, writing, cbKeyCached>>
  BY AtOne DEF RLock, HoldsWhatItReleases
<1>2. CASE w = Nobody /\ readers' = [readers EXCEPT ![g] = @ + 1] /\ Advance(g)
           /\ UNCHANGED reader
  <2>1. /\ op' \in [Goroutines -> Operations \cup {"none"}]
        /\ step' \in [Goroutines -> 1 .. 8]
        /\ Placed(g)' /\ At(g, "RUnlock")' /\ Elsewhere(g)
    BY <1>1, <1>2, AfterAcquire DEF Release
  <2>2. readers' \in [Goroutines -> 0 .. 1] /\ readers'[g] = 1
        /\ \A h \in Goroutines \ {g} : readers'[h] = readers[h]
    BY <1>1, <1>2 DEF TypeOK
  <2>3. HoldsWhatItReleases(g)'
    <3>1. ~ At(g, "Unlock")'
      BY <2>1 DEF At
    <3>. QED
      BY <1>1, <1>2, <2>1, <2>2, <3>1, NobodyAssumption DEF HoldsWhatItReleases
  <2>4. ASSUME NEW h \in Goroutines \ {g} PROVE Placed(h)' /\ HoldsWhatItReleases(h)'
    BY <1>1, <1>2, <2>1, <2>2, OthersStay DEF HoldsWhatItReleases
  <2>5. TypeOK' /\ MutualExclusion'
    BY <1>1, <1>2, <2>1, <2>2 DEF TypeOK, MutualExclusion
  <2>. QED
    BY <1>1, <1>2, <2>1, <2>3, <2>4, <2>5
<1>3. CASE w # Nobody /\ reader' = [reader EXCEPT ![g] = "parked"]
           /\ UNCHANGED <<op, step, readers>>
  <2>1. \A h \in Goroutines : \A l : Placed(h)' /\ (At(h, l)' <=> At(h, l))
    BY <1>3 DEF Placed, At
  <2>2. ASSUME NEW h \in Goroutines PROVE HoldsWhatItReleases(h)'
    BY <1>1, <1>3, <2>1 DEF HoldsWhatItReleases, TypeOK
  <2>3. TypeOK' /\ MutualExclusion'
    BY <1>1, <1>3 DEF TypeOK, MutualExclusion
  <2>. QED
    BY <1>1, <1>3, <2>1, <2>2, <2>3 DEF TypeOK
<1>. QED
  BY <1>2, <1>3 DEF RLock

\* A reader that waited goes on: the lock is its own since the writer's Unlock.
LEMMA RLockGrantedIInv ==
    ASSUME IInv, NEW g \in Goroutines, RLockGranted(g)
    PROVE  IInv'
<1>. USE DEF IInv
<1>1. /\ At(g, "RLock") /\ ~ At(g, "Lock") /\ ~ At(g, "Unlock")
      /\ readers[g] = 1 /\ Advance(g)
      /\ reader' = [reader EXCEPT ![g] = "no"]
      /\ UNCHANGED <<readers, w, writing, cbKeyCached>>
  BY AtOne DEF RLockGranted, HoldsWhatItReleases
<1>2. /\ op' \in [Goroutines -> Operations \cup {"none"}]
      /\ step' \in [Goroutines -> 1 .. 8]
      /\ Placed(g)' /\ At(g, "RUnlock")' /\ Elsewhere(g)
  BY <1>1, AfterAcquire DEF Release
<1>3. HoldsWhatItReleases(g)'
  <2>1. ~ At(g, "Unlock")'
    BY <1>2 DEF At
  <2>. QED
    BY <1>1, <1>2, <2>1 DEF HoldsWhatItReleases, TypeOK
<1>4. ASSUME NEW h \in Goroutines \ {g} PROVE Placed(h)' /\ HoldsWhatItReleases(h)'
  BY <1>1, <1>2, OthersStay DEF HoldsWhatItReleases, TypeOK
<1>5. w' # Nobody => At(w, "Lock")' \/ At(w, "Unlock")'
  BY <1>1, <1>2, OthersStay DEF TypeOK
<1>6. TypeOK' /\ MutualExclusion'
  BY <1>1, <1>2 DEF TypeOK, MutualExclusion
<1>. QED
  BY <1>2, <1>3, <1>4, <1>5, <1>6

LEMMA RUnlockIInv ==
    ASSUME IInv, NEW g \in Goroutines, RUnlock(g)
    PROVE  IInv'
<1>. USE DEF IInv
<1>1. /\ At(g, "RUnlock") /\ ~ At(g, "Lock") /\ ~ At(g, "Unlock") /\ ~ At(g, "RLock")
      /\ reader[g] = "no" /\ readers[g] = 1 /\ ~ writing /\ Advance(g)
      /\ readers' = [readers EXCEPT ![g] = @ - 1]
      /\ UNCHANGED <<reader, w, writing, cbKeyCached>>
  BY AtOne DEF RUnlock, HoldsWhatItReleases, TypeOK, MutualExclusion
<1>2. /\ op' \in [Goroutines -> Operations \cup {"none"}]
      /\ step' \in [Goroutines -> 1 .. 8]
      /\ Placed(g)' /\ ~ At(g, "Unlock")' /\ ~ At(g, "RUnlock")' /\ Elsewhere(g)
  BY <1>1, AfterRelease
<1>3. readers' \in [Goroutines -> 0 .. 1] /\ readers'[g] = 0
      /\ \A h \in Goroutines \ {g} : readers'[h] = readers[h]
  BY <1>1 DEF TypeOK
<1>4. HoldsWhatItReleases(g)'
  BY <1>1, <1>2, <1>3 DEF HoldsWhatItReleases
<1>5. ASSUME NEW h \in Goroutines \ {g} PROVE Placed(h)' /\ HoldsWhatItReleases(h)'
  BY <1>1, <1>2, <1>3, OthersStay DEF HoldsWhatItReleases
<1>6. w' # Nobody => At(w, "Lock")' \/ At(w, "Unlock")'
  BY <1>1, <1>2, OthersStay DEF TypeOK
<1>7. TypeOK' /\ MutualExclusion'
  BY <1>1, <1>2, <1>3 DEF TypeOK, MutualExclusion
<1>. QED
  BY <1>2, <1>4, <1>5, <1>6, <1>7

\* A writer owns w: it has not the lock yet.
LEMMA LockIInv ==
    ASSUME IInv, NEW g \in Goroutines, Lock(g)
    PROVE  IInv'
<1>. USE DEF IInv
<1>1. /\ At(g, "Lock") /\ ~ writing /\ w' = g
      /\ UNCHANGED <<op, step, reader, readers, writing, cbKeyCached>>
  BY DEF Lock, MutualExclusion
<1>2. \A h \in Goroutines : \A l : Placed(h)' /\ (At(h, l)' <=> At(h, l))
  BY <1>1 DEF Placed, At
<1>3. ASSUME NEW h \in Goroutines PROVE HoldsWhatItReleases(h)'
  BY <1>1, <1>2 DEF HoldsWhatItReleases
<1>4. TypeOK' /\ MutualExclusion'
  BY <1>1 DEF TypeOK, MutualExclusion
<1>. QED
  BY <1>1, <1>2, <1>3, <1>4

\* The writer gets the lock when the last reader has left.
LEMMA LockDrainedIInv ==
    ASSUME IInv, NEW g \in Goroutines, LockDrained(g)
    PROVE  IInv'
<1>. USE DEF IInv
<1>1. /\ At(g, "Lock") /\ w = g /\ writing' = TRUE /\ reader[g] = "no"
      /\ \A h \in Goroutines : readers[h] = 0
      /\ Advance(g)
      /\ UNCHANGED <<reader, readers, w, cbKeyCached>>
  BY AtOne DEF LockDrained, HoldsWhatItReleases
<1>2. /\ op' \in [Goroutines -> Operations \cup {"none"}]
      /\ step' \in [Goroutines -> 1 .. 8]
      /\ Placed(g)' /\ At(g, "Unlock")' /\ Elsewhere(g)
  BY <1>1, AfterAcquire DEF Release
<1>3. HoldsWhatItReleases(g)'
  <2>1. ~ At(g, "RUnlock")'
    BY <1>2 DEF At
  <2>. QED
    BY <1>1, <1>2, <2>1 DEF HoldsWhatItReleases
<1>4. ASSUME NEW h \in Goroutines \ {g} PROVE Placed(h)' /\ HoldsWhatItReleases(h)'
  BY <1>1, <1>2, OthersStay DEF HoldsWhatItReleases
<1>5. TypeOK' /\ MutualExclusion'
  BY <1>1, <1>2, NobodyAssumption DEF TypeOK, MutualExclusion
<1>. QED
  BY <1>1, <1>2, <1>3, <1>4, <1>5

\* Unlock hands the lock to every reader that waits, and to no writer.
LEMMA UnlockIInv ==
    ASSUME IInv, NEW g \in Goroutines, Unlock(g)
    PROVE  IInv'
<1>. USE DEF IInv
<1>1. /\ At(g, "Unlock") /\ ~ At(g, "RUnlock") /\ ~ At(g, "RLock")
      /\ reader[g] = "no" /\ w = g /\ writing /\ Advance(g)
      /\ w' = Nobody /\ writing' = FALSE /\ cbKeyCached' \in BOOLEAN
      /\ \A h \in Goroutines : readers[h] = 0
  BY AtOne DEF Unlock, HoldsWhatItReleases, MutualExclusion, TypeOK
<1>2. /\ op' \in [Goroutines -> Operations \cup {"none"}]
      /\ step' \in [Goroutines -> 1 .. 8]
      /\ Placed(g)' /\ ~ At(g, "Unlock")' /\ ~ At(g, "RUnlock")' /\ Elsewhere(g)
  BY <1>1, AfterRelease
<1>3. \A h \in Goroutines :
        /\ reader'[h] = IF reader[h] = "parked" THEN "granted" ELSE reader[h]
        /\ readers'[h] = IF reader[h] = "parked" THEN 1 ELSE 0
  BY <1>1 DEF Unlock
<1>4. /\ reader' \in [Goroutines -> {"no", "parked", "granted"}]
      /\ readers' \in [Goroutines -> 0 .. 1]
  BY <1>1 DEF Unlock, TypeOK
<1>5. HoldsWhatItReleases(g)'
  BY <1>1, <1>2, <1>3, NobodyAssumption DEF HoldsWhatItReleases
<1>6. ASSUME NEW h \in Goroutines \ {g} PROVE Placed(h)' /\ HoldsWhatItReleases(h)'
  <2>1. Placed(h)' /\ \A l : At(h, l)' <=> At(h, l)
    BY <1>2, OthersStay
  <2>2. ~ At(h, "Unlock") /\ ~ At(h, "RUnlock")
        /\ reader[h] # "granted" /\ (reader[h] # "no" => At(h, "RLock"))
    BY <1>1 DEF HoldsWhatItReleases
  <2>. QED
    BY <1>1, <1>3, <2>1, <2>2, NobodyAssumption DEF HoldsWhatItReleases
<1>7. TypeOK' /\ MutualExclusion'
  BY <1>1, <1>2, <1>4 DEF TypeOK, MutualExclusion
<1>. QED
  BY <1>1, <1>2, <1>5, <1>6, <1>7

LEMMA NextIInv ==
    ASSUME Operations \subseteq WithoutBreaker
    PROVE  IInv /\ [Next]_vars => IInv'
<1>. SUFFICES ASSUME IInv, [Next]_vars PROVE IInv'
  OBVIOUS
<1>1. ASSUME NEW g \in Goroutines, Begin(g) PROVE IInv'
  BY <1>1, BeginIInv
<1>2. ASSUME NEW g \in Goroutines, Step(g) PROVE IInv'
  BY <1>2, RLockIInv, RLockGrantedIInv, RUnlockIInv, LockDrainedIInv, UnlockIInv DEF Step
<1>3. ASSUME NEW g \in Goroutines, Lock(g) PROVE IInv'
  BY <1>3, LockIInv
<1>4. CASE UNCHANGED vars
  BY <1>4
  DEF vars, IInv, TypeOK, Placed, HoldsWhatItReleases, At, MutualExclusion
<1>. QED
  BY <1>1, <1>2, <1>3, <1>4 DEF Next

LEMMA Invariance ==
    ASSUME Operations \subseteq WithoutBreaker
    PROVE  Spec => []IInv
BY InitIInv, NextIInv, PTL DEF Spec

-------------------------------------------------------------------------------

\* Nobody releases what it does not hold: the number of read locks of a goroutine
\* stays zero or one.
THEOREM LockTypeCorrect ==
    ASSUME Operations \subseteq WithoutBreaker
    PROVE  Spec => []TypeOK
<1>1. IInv => TypeOK
  BY DEF IInv
<1>. QED
  BY <1>1, Invariance, PTL

\* While a writer holds the lock of a request nobody else does, the readers it let
\* pass before and those that queue behind it included.
THEOREM WritersAreAlone ==
    ASSUME Operations \subseteq WithoutBreaker
    PROVE  Spec => []MutualExclusion
<1>1. IInv => MutualExclusion
  BY DEF IInv
<1>. QED
  BY <1>1, Invariance, PTL

\* Without a circuit breaker no goroutine asks for the lock of a request that it
\* holds, however many goroutines use the request.  With one it does: see the
\* operation getOrSetCircuitBreakerKey.
THEOREM NoneReenters ==
    ASSUME Operations \subseteq WithoutBreaker
    PROVE  Spec => []NeverReentered
<1>1. ASSUME IInv, NEW g \in Goroutines, At(g, "Lock") \/ At(g, "RLock")
      PROVE  ~ (w = g /\ writing) /\ (readers[g] > 0 => reader[g] = "granted")
  <2>1. ~ At(g, "Unlock") /\ ~ At(g, "RUnlock")
    BY <1>1 DEF At
  <2>. QED
    BY <1>1, <2>1 DEF IInv, HoldsWhatItReleases
<1>2. IInv => NeverReentered
  BY <1>1 DEF NeverReentered
<1>. QED
  BY <1>2, Invariance, PTL

-------------------------------------------------------------------------------
(* Who waits, and for whom. *)

\* A reader is parked behind a writer, whose Unlock lets it in.
ParkedBehindWriter ==
    \A g \in Goroutines : reader[g] = "parked" => w # Nobody

LEMMA StepParked == IInv /\ ParkedBehindWriter /\ [Next]_vars => ParkedBehindWriter'
<1>. SUFFICES ASSUME IInv, ParkedBehindWriter, [Next]_vars PROVE ParkedBehindWriter'
  OBVIOUS
<1>. USE DEF IInv, TypeOK, ParkedBehindWriter
<1>1. ASSUME NEW g \in Goroutines, RLock(g) PROVE ParkedBehindWriter'
  BY <1>1 DEF RLock
<1>2. ASSUME NEW g \in Goroutines, RLockGranted(g) PROVE ParkedBehindWriter'
  BY <1>2 DEF RLockGranted
<1>3. ASSUME NEW g \in Goroutines, Lock(g) PROVE ParkedBehindWriter'
  BY <1>3, NobodyAssumption DEF Lock
<1>4. ASSUME NEW g \in Goroutines, Unlock(g) PROVE ParkedBehindWriter'
  BY <1>4 DEF Unlock
<1>5. CASE UNCHANGED <<reader, w>>
  BY <1>5
<1>. QED
  BY <1>1, <1>2, <1>3, <1>4, <1>5 DEF Next, Step, Begin, RUnlock, LockDrained, vars

\* While nobody owns w, no goroutine in an operation waits for anything.
LEMMA NoWriterNoWait ==
    ASSUME IInv, ParkedBehindWriter, w = Nobody, NEW g \in Goroutines, op[g] # "none"
    PROVE  CanMove(g)
<1>1. At(g, "Lock") \/ At(g, "RLock") \/ At(g, "Unlock") \/ At(g, "RUnlock")
  <2>1. Placed(g)
    BY DEF IInv
  <2>2. op[g] \in WithoutBreaker /\ step[g] \in 1 .. Len(Program(op[g]))
    BY <2>1 DEF Placed
  <2>3. Program(op[g])[step[g]] \in {"Lock", "RLock", "Unlock", "RUnlock"}
    BY <2>2, OnlyLockOperations
  <2>. QED
    BY <2>3 DEF At
<1>2. reader[g] \in {"no", "granted"}
  BY DEF IInv, TypeOK, ParkedBehindWriter
<1>. QED
  BY <1>1, <1>2 DEF CanMove

\* A writer can go on, or waits for a reader that can.
LEMMA WriterOrReaderMoves ==
    ASSUME IInv, w # Nobody
    PROVE  \E g \in Goroutines : CanMove(g)
<1>1. w \in Goroutines /\ (At(w, "Lock") \/ At(w, "Unlock"))
  BY DEF IInv, TypeOK
<1>2. CASE At(w, "Unlock")
  BY <1>1, <1>2 DEF CanMove
<1>3. CASE At(w, "Lock")
  <2>1. ~ writing
    BY <1>1, <1>3 DEF IInv, HoldsWhatItReleases, At
  <2>2. CASE \A h \in Goroutines : readers[h] = 0
    BY <1>1, <1>3, <2>1, <2>2 DEF CanMove
  <2>3. ASSUME NEW h \in Goroutines, readers[h] # 0 PROVE CanMove(h)
    BY <2>3 DEF IInv, HoldsWhatItReleases, CanMove
  <2>. QED
    BY <2>2, <2>3
<1>. QED
  BY <1>1, <1>2, <1>3

\* However many goroutines use a request that goes through no circuit breaker, they are
\* never deadlocked on its lock.
THEOREM LockNeverStuck ==
    ASSUME Operations \subseteq WithoutBreaker
    PROVE  Spec => []NeverStuck
<1>1. Init => ParkedBehindWriter
  BY DEF Init, ParkedBehindWriter
<1>2. IInv /\ ParkedBehindWriter => NeverStuck
  BY NoWriterNoWait, WriterOrReaderMoves DEF NeverStuck
<1>. QED
  BY <1>1, <1>2, StepParked, Invariance, PTL DEF Spec

===============================================================================
