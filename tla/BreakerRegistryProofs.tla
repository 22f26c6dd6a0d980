------------------------- MODULE BreakerRegistryProofs -------------------------
(***************************************************************************)
(* For any callers, keys and addresses, the manager hands out one breaker  *)
(* per key.                                                                *)
(***************************************************************************)
EXTENDS BreakerRegistry, TLAPS

IInv == TypeOK /\ HeldIsRegistered

LEMMA InitIInv == Init => IInv
BY NilAssumption DEF Init, IInv, TypeOK, HeldIsRegistered

\* The two lookups of GetOrCreate, and Get: whatever the caller now holds, the
\* map holds under its key; the entries of the other keys are as they were.
LEMMA LookupIInv ==
    ASSUME IInv, NEW c \in Callers,
           (\E k \in Keys : GetOrCreate(c, k) \/ Get(c, k)) \/ create(c)
    PROVE  IInv'
<1>. USE NilAssumption DEF IInv
<1>1. ASSUME NEW k \in Keys, GetOrCreate(c, k) PROVE IInv'
  <2>1. held[c] = Nil
    BY <1>1 DEF GetOrCreate, TypeOK
  <2>2. CASE breakers[k] # Nil
    <3>1. TypeOK'
      BY <1>1, <2>2 DEF GetOrCreate, Hold, TypeOK
    <3>2. HeldIsRegistered'
      BY <1>1, <2>2 DEF GetOrCreate, Hold, TypeOK, HeldIsRegistered
    <3>. QED
      BY <3>1, <3>2
  <2>3. CASE breakers[k] = Nil
    <3>1. TypeOK'
      BY <1>1, <2>1, <2>3 DEF GetOrCreate, TypeOK
    <3>2. HeldIsRegistered'
      BY <1>1, <2>1, <2>3 DEF GetOrCreate, TypeOK, HeldIsRegistered
    <3>. QED
      BY <3>1, <3>2
  <2>. QED
    BY <2>2, <2>3
<1>2. ASSUME NEW k \in Keys, Get(c, k) PROVE IInv'
  <2>1. held[c] = Nil
    BY <1>2 DEF Get, TypeOK
  <2>2. TypeOK'
    BY <1>2, <2>1 DEF Get, Hold, TypeOK
  <2>3. HeldIsRegistered'
    BY <1>2, <2>1 DEF Get, Hold, TypeOK, HeldIsRegistered
  <2>. QED
    BY <2>2, <2>3
<1>3. ASSUME create(c), breakers[key[c]] # Nil PROVE IInv'
  <2>1. TypeOK'
    BY <1>3 DEF create, Create, Hold, TypeOK
  <2>2. HeldIsRegistered'
    BY <1>3 DEF create, Create, Hold, TypeOK, HeldIsRegistered
  <2>. QED
    BY <2>1, <2>2
<1>4. ASSUME create(c), breakers[key[c]] = Nil PROVE IInv'
  <2>1. PICK b \in Addresses :
            /\ breakers' = [breakers EXCEPT ![key[c]] = b]
            /\ Hold(c, b)
            /\ UNCHANGED key
    BY <1>4 DEF create, Create, Fresh
  <2>2. TypeOK'
    BY <2>1 DEF Hold, TypeOK
  \* Nobody can hold an up-to-date breaker of a key that has none.
  <2>3. \A d \in Callers : key[d] = key[c] => held[d] = Nil \/ outdated[d]
    BY <1>4 DEF HeldIsRegistered
  <2>4. HeldIsRegistered'
    BY <2>1, <2>3 DEF Hold, TypeOK, HeldIsRegistered
  <2>. QED
    BY <2>2, <2>4
<1>. QED
  BY <1>1, <1>2, <1>3, <1>4

\* Remove and Clear outdate every holder of a key they take out of the map.
LEMMA RemovalIInv ==
    ASSUME IInv, Clear \/ \E k \in Keys : Remove(k)
    PROVE  IInv'
<1>. USE NilAssumption DEF IInv, Outdate, Holders
<1>1. ASSUME NEW k \in Keys, Remove(k) PROVE IInv'
  <2>1. TypeOK'
    BY <1>1 DEF Remove, TypeOK
  <2>2. HeldIsRegistered'
    BY <1>1 DEF Remove, TypeOK, HeldIsRegistered
  <2>. QED
    BY <2>1, <2>2
<1>2. ASSUME Clear PROVE IInv'
  <2>1. TypeOK'
    BY <1>2 DEF Clear, TypeOK
  <2>2. \A c \in Callers : held'[c] # Nil => outdated'[c]
    BY <1>2 DEF Clear, TypeOK
  <2>3. HeldIsRegistered'
    BY <2>2 DEF HeldIsRegistered
  <2>. QED
    BY <2>1, <2>3
<1>. QED
  BY <1>1, <1>2

LEMMA NextIInv == IInv /\ [Next]_vars => IInv'
<1>. SUFFICES ASSUME IInv, [Next]_vars PROVE IInv'
  OBVIOUS
<1>1. ASSUME NEW c \in Callers,
             (\E k \in Keys : GetOrCreate(c, k) \/ Get(c, k)) \/ create(c)
      PROVE  IInv'
  BY <1>1, LookupIInv
<1>2. CASE Clear \/ \E k \in Keys : Remove(k)
  BY <1>2, RemovalIInv
<1>3. ASSUME NEW c \in Callers, Release(c) PROVE IInv'
  BY <1>3, NilAssumption DEF Release, IInv, TypeOK, HeldIsRegistered
<1>4. CASE UNCHANGED vars
  BY <1>4 DEF vars, IInv, TypeOK, HeldIsRegistered
<1>. QED
  BY <1>1, <1>2, <1>3, <1>4 DEF Next

\* Until its key is removed, the breaker a caller got is the one every later
\* caller of the key gets, for any number of callers racing to create it.
THEOREM OneBreakerPerKey == Spec => []HeldIsRegistered
<1>1. IInv => HeldIsRegistered
  BY DEF IInv
<1>. QED
  BY <1>1, InitIInv, NextIInv, PTL DEF Spec

\* Whoever goes on to use a breaker has one, with any number of callers in the two
\* lookups at once.
THEOREM RegistryTypeCorrect == Spec => []TypeOK
<1>1. IInv => TypeOK
  BY DEF IInv
<1>. QED
  BY <1>1, InitIInv, NextIInv, PTL DEF Spec

===============================================================================
