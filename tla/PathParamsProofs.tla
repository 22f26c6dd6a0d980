---------------------------- MODULE PathParamsProofs ----------------------------
(***************************************************************************)
(* What structToQueryParams and replacePathParams compute, for any fields, *)
(* templates and maps.  Both are recursions over data.  The induction they *)
(* need is a fact about sets of numbers, InductiveSet: of a recursion one  *)
(* proves, for the numbers n in turn, what it has made of n elements.      *)
(***************************************************************************)
EXTENDS PathParams, FiniteSetTheorems, SequenceTheorems, TLAPS

\* A set of numbers that has 0 and, with a number, the next one, has them all: the
\* numbers that it lacks up to any m would be as many without m as with it.
LEMMA InductiveSet ==
    ASSUME NEW S, 0 \in S, \A n \in Nat : n \in S => n + 1 \in S
    PROVE  Nat \subseteq S
<1>. SUFFICES ASSUME NEW m \in Nat, m \notin S PROVE FALSE
  OBVIOUS
<1>. DEFINE T == {i \in 0 .. m : i \notin S}
            U == T \ {m}
            pred == [i \in T |-> i - 1]
<1>1. IsFiniteSet(0 .. m)
  BY FS_Interval
<1>2. IsFiniteSet(T) /\ m \in T
  BY <1>1, FS_Subset
<1>3. IsFiniteSet(U) /\ Cardinality(U) < Cardinality(T)
  <2>1. Cardinality(U) = Cardinality(T) - 1 /\ IsFiniteSet(U)
    BY <1>2, FS_RemoveElement
  <2>2. Cardinality(T) \in Nat
    BY <1>2, FS_CardinalityType
  <2>. QED
    BY <2>1, <2>2
<1>4. ASSUME NEW i \in T PROVE i - 1 \in U
  <2>1. i # 0
    BY <1>4
  <2>2. i - 1 \in Nat /\ (i - 1) + 1 = i /\ i - 1 # m /\ i - 1 \in 0 .. m
    BY <1>4, <2>1
  <2>3. i - 1 \notin S
    BY <1>4, <2>2
  <2>. QED
    BY <2>2, <2>3
<1>5. pred \in [T -> U]
  BY <1>4
<1>6. PICK x \in T, y \in T : x # y /\ pred[x] = pred[y]
  <2>. HIDE DEF pred, T, U
  <2>. QED
    BY <1>2, <1>3, <1>5, FS_PigeonHole
<1>. QED
  BY <1>6

\* Max, which a fold takes its elements with, is the last of any positions.
LEMMA LastOfPositions ==
    ASSUME NEW n \in Nat, NEW t \in SUBSET (1 .. n), t # {}
    PROVE  Max(t) \in t /\ \A j \in t : j <= Max(t)
<1>. DEFINE HasLast(u) == \E x \in u : \A y \in u : x >= y
            S == {k \in Nat : \A u \in SUBSET (1 .. k) : u # {} => HasLast(u)}
<1>1. 0 \in S
  <2>1. 1 .. 0 = {}
    OBVIOUS
  <2>. QED
    BY <2>1
<1>2. ASSUME NEW k \in Nat, k \in S PROVE k + 1 \in S
  <2>1. SUFFICES ASSUME NEW u \in SUBSET (1 .. k + 1), u # {} PROVE HasLast(u)
    BY <1>2
  <2>2. CASE k + 1 \in u
    BY <2>2
  <2>3. CASE k + 1 \notin u
    <3>1. u \in SUBSET (1 .. k)
      BY <2>1, <2>3
    <3>. QED
      BY <1>2, <2>1, <3>1
  <2>. QED
    BY <2>2, <2>3
<1>3. Nat \subseteq S
  <2>. HIDE DEF S
  <2>. QED
    BY <1>1, <1>2, InductiveSet
<1>4. HasLast(t)
  BY <1>3
<1>5. Max(t) \in t /\ \A y \in t : Max(t) >= y
  BY <1>4, Zenon DEF Max
<1>6. \A y \in t : y \in Int
  OBVIOUS
<1>. QED
  BY <1>5, <1>6

\* The positions t are those of u and, after them, m.
IsLast(m, u, t) == m \in Int /\ t = u \cup {m} /\ \A i \in u : i \in Int /\ i < m

\* Any positions are their last one and the rest.
LEMMA LastAndRest ==
    ASSUME NEW n \in Nat, NEW t \in SUBSET (1 .. n), t # {}
    PROVE  t \ {Max(t)} \in SUBSET (1 .. n) /\ IsLast(Max(t), t \ {Max(t)}, t)
<1>. DEFINE m == Max(t)
<1>1. m \in t /\ \A j \in t : j <= m
  BY LastOfPositions
<1>. HIDE DEF m
<1>2. m \in Int /\ t = (t \ {m}) \cup {m}
  BY <1>1
<1>3. ASSUME NEW i \in t \ {m} PROVE i \in Int /\ i < m
  <2>1. i \in Int /\ m \in Int /\ i <= m /\ i # m
    BY <1>1
  <2>. QED
    BY <2>1
<1>4. IsLast(m, t \ {m}, t)
  BY <1>2, <1>3 DEF IsLast
<1>. QED
  BY <1>4 DEF m

\* The first positions are positions.
LEMMA FirstPositions ==
    ASSUME NEW n \in Nat, NEW k \in Nat, k <= n
    PROVE  1 .. k \in SUBSET (1 .. n)
OBVIOUS

\* Of the positions 1 .. k + 1 the last is k + 1, and the rest is 1 .. k.
LEMMA LastOfInterval ==
    ASSUME NEW k \in Nat
    PROVE  /\ 1 .. k + 1 # {} /\ Max(1 .. k + 1) = k + 1
           /\ (1 .. k + 1) \ {k + 1} = 1 .. k
           /\ IsLast(k + 1, 1 .. k, 1 .. k + 1)
<1>1. 1 .. k + 1 # {} /\ k + 1 \in 1 .. k + 1
  OBVIOUS
<1>2. Max(1 .. k + 1) \in 1 .. k + 1 /\ k + 1 <= Max(1 .. k + 1)
  BY <1>1, LastOfPositions, k + 1 \in Nat
<1>3. Max(1 .. k + 1) = k + 1
  <2>. DEFINE x == Max(1 .. k + 1)
  <2>. HIDE DEF x
  <2>1. x \in 1 .. k + 1 /\ k + 1 <= x
    BY <1>2 DEF x
  <2>2. x = k + 1
    BY <2>1
  <2>. QED
    BY <2>2 DEF x
<1>. QED
  BY <1>1, <1>3 DEF IsLast

-------------------------------------------------------------------------------
(* structToQueryParams. *)

\* A field that has no conversion refuses the struct.
refuses(f) == ~ isDropped(f) /\ isUnsupported(f)

\* Of the positions in t, those a loop over them reaches, and those it converts.
reached(fields, t) == {i \in t : \A j \in t : j <= i => ~ refuses(fields[j])}
kept(fields, t) == {i \in reached(fields, t) : ~ isDropped(fields[i])}

\* The last of them that has a name.
lastOf(fields, t, n) == Max({i \in kept(fields, t) : fields[i].name = n})

\* The field at m, after those in u, is not converted.
lost(fields, u, m) ==
    (\E i \in u : refuses(fields[i])) \/ refuses(fields[m]) \/ isDropped(fields[m])

\* What is converted of the positions in t.
Converted(fields, t) ==
    [params |-> [n \in {fields[i].name : i \in kept(fields, t)} |->
                    fields[lastOf(fields, t, n)].value],
     err |-> \E i \in t : refuses(fields[i])]

\* The loop of structToQueryParams.
AddField(acc, f) ==
    IF acc.err \/ isDropped(f) THEN acc
    ELSE IF isUnsupported(f) THEN [acc EXCEPT !.err = TRUE]
    ELSE [acc EXCEPT !.params = [n \in DOMAIN acc.params \cup {f.name} |->
                                    IF n = f.name THEN f.value ELSE acc.params[n]]]

\* The field at the last position m of t: it is converted unless one before it, or it,
\* refuses the struct, or it is dropped.
LEMMA OneMoreKept ==
    ASSUME NEW fields, NEW t, NEW u, NEW m, IsLast(m, u, t)
    PROVE  kept(fields, t) = IF lost(fields, u, m) THEN kept(fields, u) ELSE kept(fields, u) \cup {m}
<1>. USE DEF IsLast
<1>1. (\E i \in t : refuses(fields[i])) <=>
         (\E i \in u : refuses(fields[i])) \/ refuses(fields[m])
  OBVIOUS
<1>2. \A i \in u : i \in reached(fields, t) <=> i \in reached(fields, u)
  BY DEF reached
<1>3. \A j \in t : j <= m
  OBVIOUS
<1>4. m \in reached(fields, t) <=> ~ \E i \in t : refuses(fields[i])
  BY <1>3 DEF reached
<1>5. kept(fields, t) =
         IF (\E i \in t : refuses(fields[i])) \/ isDropped(fields[m])
         THEN kept(fields, u) ELSE kept(fields, u) \cup {m}
  BY <1>2, <1>4 DEF kept, reached
<1>. QED
  BY <1>1, <1>5 DEF lost

\* One more field converts as the loop converts it.
LEMMA OneMoreField ==
    ASSUME NEW fields, NEW t, NEW u, NEW m, IsLast(m, u, t)
    PROVE  Converted(fields, t) = AddField(Converted(fields, u), fields[m])
<1>. DEFINE f == fields[m]
            C == Converted(fields, u)
            bad(s) == \E i \in s : refuses(fields[i])
<1>0. kept(fields, t) = IF lost(fields, u, m) THEN kept(fields, u) ELSE kept(fields, u) \cup {m}
  BY OneMoreKept
<1>. USE DEF IsLast
<1>1. bad(t) <=> bad(u) \/ refuses(f)
  OBVIOUS
<1>2. C.err = bad(u) /\ C = [params |-> C.params, err |-> C.err]
  BY DEF Converted
<1>3. CASE bad(u) \/ isDropped(f) \/ isUnsupported(f)
  <2>1. kept(fields, t) = kept(fields, u)
    <3>1. bad(u) \/ refuses(f) \/ isDropped(f)
      BY <1>3 DEF refuses
    <3>. QED
      BY <1>0, <3>1 DEF lost
  <2>2. Converted(fields, t) = [params |-> C.params, err |-> bad(t)]
    BY <2>1 DEF Converted, lastOf
  <2>3. CASE bad(u)
    <3>1. bad(t) /\ bad(t) = C.err
      BY <1>1, <1>2, <2>3
    <3>. QED
      BY <1>2, <2>2, <2>3, <3>1 DEF AddField
  <2>4. CASE ~ bad(u) /\ isDropped(f)
    <3>1. bad(t) = C.err
      BY <1>1, <1>2, <2>4 DEF refuses
    <3>. QED
      BY <1>2, <2>2, <2>4, <3>1 DEF AddField
  <2>5. CASE ~ bad(u) /\ ~ isDropped(f) /\ isUnsupported(f)
    <3>1. bad(t) = TRUE /\ ~ C.err
      BY <1>1, <1>2, <2>5 DEF refuses
    <3>2. AddField(C, f) = [C EXCEPT !.err = TRUE]
      BY <2>5, <3>1 DEF AddField
    <3>. QED
      BY <1>2, <2>2, <3>1, <3>2
  <2>. QED
    BY <1>3, <2>3, <2>4, <2>5
<1>4. CASE ~ (bad(u) \/ isDropped(f) \/ isUnsupported(f))
  <2>1. kept(fields, t) = kept(fields, u) \cup {m}
    BY <1>0, <1>4 DEF refuses, lost
  <2>2. bad(t) = FALSE /\ C.err = FALSE
    BY <1>1, <1>2, <1>4 DEF refuses
  <2>3. AddField(C, f) = [C EXCEPT !.params = [k \in DOMAIN C.params \cup {f.name} |->
                                    IF k = f.name THEN f.value ELSE C.params[k]]]
    BY <1>4, <2>2 DEF AddField
  <2>4. \A i \in kept(fields, u) : i \in Int /\ i < m
    BY DEF kept, reached
  <2>5. lastOf(fields, t, f.name) = m
    <3>. DEFINE same == {i \in kept(fields, t) : fields[i].name = f.name}
    <3>1. m \in same /\ \A i \in same : i \in Int /\ m >= i
      BY <2>1, <2>4
    <3>2. Max(same) \in same /\ \A i \in same : Max(same) >= i
      BY <3>1, Zenon DEF Max
    <3>3. Max(same) = m
      <4>. DEFINE x == Max(same)
      <4>1. x \in Int /\ m >= x /\ x >= m
        BY <3>1, <3>2
      <4>. HIDE DEF x
      <4>2. x = m
        BY <4>1
      <4>. QED
        BY <4>2 DEF x
    <3>. QED
      BY <3>3 DEF lastOf
  <2>6. ASSUME NEW k, k # f.name PROVE lastOf(fields, t, k) = lastOf(fields, u, k)
    <3>1. {i \in kept(fields, t) : fields[i].name = k} = {i \in kept(fields, u) : fields[i].name = k}
      BY <2>1, <2>6
    <3>. QED
      BY <3>1 DEF lastOf
  <2>7. {fields[i].name : i \in kept(fields, t)} = {fields[i].name : i \in kept(fields, u)} \cup {f.name}
    BY <2>1
  <2>8. Converted(fields, t).params =
           [k \in DOMAIN C.params \cup {f.name} |-> IF k = f.name THEN f.value ELSE C.params[k]]
    <3>1. DOMAIN C.params = {fields[i].name : i \in kept(fields, u)}
      BY DEF Converted
    <3>2. \A k \in DOMAIN C.params : C.params[k] = fields[lastOf(fields, u, k)].value
      BY DEF Converted
    <3>. QED
      BY <2>5, <2>6, <2>7, <3>1, <3>2 DEF Converted
  <2>9. Converted(fields, t) = [params |-> Converted(fields, t).params, err |-> FALSE]
    BY <2>2 DEF Converted
  <2>. QED
    BY <1>2, <2>2, <2>3, <2>8, <2>9
<1>. QED
  BY <1>3, <1>4

\* Of no fields nothing is converted.
LEMMA NothingConverted ==
    ASSUME NEW fields
    PROVE  Converted(fields, {}) = [params |-> <<>>, err |-> FALSE]
<1>1. kept(fields, {}) = {}
  BY DEF kept, reached
<1>2. [k \in {} |-> fields[lastOf(fields, {}, k)].value] = <<>>
  OBVIOUS
<1>3. {fields[i].name : i \in {}} = {}
  OBVIOUS
<1>. QED
  BY <1>1, <1>2, <1>3 DEF Converted

\* The recursion of structToQueryParams, over the sets of positions, and its solution.
structLoop(fields, n, g) ==
    [t \in SUBSET (1 .. n) |-> IF t = {} THEN [params |-> <<>>, err |-> FALSE]
                               ELSE AddField(g[t \ {Max(t)}], fields[Max(t)])]

\* What is converted of each set of positions solves the recursion.
LEMMA ConvertedSolves ==
    ASSUME NEW n \in Nat, NEW fields
    PROVE  LET g == [t \in SUBSET (1 .. n) |-> Converted(fields, t)]
           IN  g = structLoop(fields, n, g)
<1>1. Converted(fields, {}) = [params |-> <<>>, err |-> FALSE]
  BY NothingConverted
<1>2. ASSUME NEW t \in SUBSET (1 .. n), t # {}
      PROVE  /\ t \ {Max(t)} \in SUBSET (1 .. n)
             /\ Converted(fields, t) = AddField(Converted(fields, t \ {Max(t)}), fields[Max(t)])
  BY <1>2, LastAndRest, OneMoreField
<1>. QED
  BY <1>1, <1>2 DEF structLoop

\* What structToQueryParams returns, for any fields: the last field of a name counts,
\* and one that has no conversion refuses the struct.
THEOREM StructConverted ==
    ASSUME NEW fields, NEW n \in Nat, DOMAIN fields = 1 .. n
    PROVE  structToQueryParams(fields) = Converted(fields, 1 .. n)
<1>. DEFINE loop == CHOOSE g : g = structLoop(fields, n, g)
            S == {k \in Nat : k <= n => loop[1 .. k] = Converted(fields, 1 .. k)}
<1>1. structToQueryParams(fields) = loop[1 .. n]
  BY Zenon DEF structToQueryParams, structLoop, AddField, FoldLeft, MapThenFoldSet
<1>2. loop = structLoop(fields, n, loop)
  BY ConvertedSolves, Zenon
<1>3. 0 \in S
  <2>. HIDE DEF loop
  <2>1. 1 .. 0 = {} /\ {} \in SUBSET (1 .. n)
    OBVIOUS
  <2>2. loop[{}] = [params |-> <<>>, err |-> FALSE]
    BY <1>2, <2>1 DEF structLoop
  <2>3. Converted(fields, {}) = [params |-> <<>>, err |-> FALSE]
    BY NothingConverted
  <2>. QED
    BY <2>1, <2>2, <2>3
<1>4. ASSUME NEW k \in Nat, k \in S PROVE k + 1 \in S
  <2>. HIDE DEF loop
  <2>1. SUFFICES ASSUME k + 1 <= n PROVE loop[1 .. k + 1] = Converted(fields, 1 .. k + 1)
    OBVIOUS
  <2>2. /\ 1 .. k + 1 \in SUBSET (1 .. n) /\ 1 .. k + 1 # {} /\ Max(1 .. k + 1) = k + 1
        /\ (1 .. k + 1) \ {k + 1} = 1 .. k
    BY <2>1, k + 1 \in Nat, FirstPositions, LastOfInterval
  <2>3. loop[1 .. k + 1] = AddField(loop[1 .. k], fields[k + 1])
    BY <1>2, <2>2 DEF structLoop
  <2>4. loop[1 .. k] = Converted(fields, 1 .. k)
    BY <1>4, <2>1
  <2>5. Converted(fields, 1 .. k + 1) = AddField(Converted(fields, 1 .. k), fields[k + 1])
    <3>1. IsLast(k + 1, 1 .. k, 1 .. k + 1)
      BY LastOfInterval
    <3>. QED
      BY <3>1, OneMoreField
  <2>. QED
    BY <2>3, <2>4, <2>5
<1>5. n \in S
  <2>. HIDE DEF S
  <2>. QED
    BY <1>3, <1>4, InductiveSet
<1>. QED
  BY <1>1, <1>5

-------------------------------------------------------------------------------
(* Texts that are put together from the end. *)

\* What a text is made of.  The literals are strings too, but no prover knows it.
Token == STRING \cup {"/", ":", "{", "}", "%2F", "%7B", "%7D"}

\* ConcatAssociative, of texts.
LEMMA Associative ==
    ASSUME NEW x \in Seq(Token), NEW y \in Seq(Token), NEW z \in Seq(Token)
    PROVE  x \o (y \o z) = (x \o y) \o z
OBVIOUS

\* Each position i adds head[i] to what there is at next[i], which is further on.
IsForward(n, next) == n \in Nat /\ \A i \in 1 .. n : next[i] \in i + 1 .. n + 1

SolvesFromEnd(f, n, head, next) ==
    /\ f[n + 1] = <<>>
    /\ \A i \in 1 .. n : f[i] = head[i] \o f[next[i]]

IsFromEnd(f, n, head, next) ==
    f \in [1 .. n + 1 -> Seq(Token)] /\ SolvesFromEnd(f, n, head, next)

\* The last k positions of such a text.
IsEndOf(f, n, head, next, k) ==
    /\ f \in [n + 1 - k .. n + 1 -> Seq(Token)]
    /\ f[n + 1] = <<>>
    /\ \A i \in n + 1 - k .. n : f[i] = head[i] \o f[next[i]]

\* There is such a text.
LEMMA FromEndExists ==
    ASSUME NEW n, NEW next, IsForward(n, next), NEW head \in [1 .. n -> Seq(Token)]
    PROVE  \E f : IsFromEnd(f, n, head, next)
<1>. USE DEF IsForward
<1>. DEFINE S == {k \in Nat : k <= n => \E f : IsEndOf(f, n, head, next, k)}
<1>1. 0 \in S
  <2>. DEFINE f == [i \in n + 1 - 0 .. n + 1 |-> <<>>]
  <2>1. f \in [n + 1 - 0 .. n + 1 -> Seq(Token)] /\ f[n + 1] = <<>> /\ n + 1 - 0 .. n = {}
    OBVIOUS
  <2>2. IsEndOf(f, n, head, next, 0)
    <3>. HIDE DEF f
    <3>. QED
      BY <2>1 DEF IsEndOf
  <2>. QED
    BY <2>2
<1>2. ASSUME NEW k \in Nat, k \in S PROVE k + 1 \in S
  <2>1. SUFFICES ASSUME k + 1 <= n PROVE \E f : IsEndOf(f, n, head, next, k + 1)
    OBVIOUS
  <2>2. PICK f : IsEndOf(f, n, head, next, k)
    BY <1>2, <2>1
  <2>. DEFINE m == n - k
              g == [i \in m .. n + 1 |-> IF i = m THEN head[m] \o f[next[m]] ELSE f[i]]
  <2>3. /\ m \in 1 .. n /\ n + 1 - (k + 1) = m /\ n + 1 - k = m + 1
        /\ next[m] \in m + 1 .. n + 1
    BY <2>1
  <2>. HIDE DEF m
  <2>4. /\ f \in [m + 1 .. n + 1 -> Seq(Token)] /\ f[n + 1] = <<>>
        /\ \A i \in m + 1 .. n : f[i] = head[i] \o f[next[i]]
    BY <2>2, <2>3 DEF IsEndOf
  <2>5. head[m] \o f[next[m]] \in Seq(Token)
    BY <2>3, <2>4, ConcatProperties
  <2>6. g \in [m .. n + 1 -> Seq(Token)]
    <3>1. ASSUME NEW i \in m .. n + 1 PROVE g[i] \in Seq(Token)
      <4>1. CASE i = m
        BY <2>5, <4>1
      <4>2. CASE i # m
        <5>1. i \in m + 1 .. n + 1
          BY <2>3, <4>2
        <5>. QED
          BY <2>4, <4>2, <5>1
      <4>. QED
        BY <4>1, <4>2
    <3>. QED
      BY <3>1
  <2>7. g[n + 1] = <<>>
    BY <2>3, <2>4
  <2>8. ASSUME NEW i \in m .. n PROVE g[i] = head[i] \o g[next[i]]
    <3>1. /\ next[i] \in m + 1 .. n + 1 /\ next[i] \in m .. n + 1 /\ next[i] # m
          /\ i \in m .. n + 1 /\ (i = m \/ i \in m + 1 .. n)
      BY <2>3
    <3>2. g[next[i]] = f[next[i]]
      BY <3>1
    <3>3. g[i] = IF i = m THEN head[m] \o f[next[m]] ELSE f[i]
      BY <3>1
    <3>. HIDE DEF g
    <3>. QED
      BY <2>4, <3>1, <3>2, <3>3
  <2>. HIDE DEF g
  <2>9. IsEndOf(g, n, head, next, k + 1)
    BY <2>3, <2>6, <2>7, <2>8 DEF IsEndOf
  <2>. QED
    BY <2>9
<1>3. n \in S
  <2>. HIDE DEF S
  <2>. QED
    BY <1>1, <1>2, InductiveSet
<1>4. PICK f : IsEndOf(f, n, head, next, n)
  BY <1>3
<1>5. n + 1 - n = 1
  OBVIOUS
<1>6. IsFromEnd(f, n, head, next)
  BY <1>4, <1>5 DEF IsFromEnd, SolvesFromEnd, IsEndOf
<1>. QED
  BY <1>6

\* There is only one.
LEMMA FromEndUnique ==
    ASSUME NEW n, NEW next, IsForward(n, next), NEW head,
           NEW f, SolvesFromEnd(f, n, head, next), NEW g, SolvesFromEnd(g, n, head, next),
           NEW i \in 1 .. n + 1
    PROVE  f[i] = g[i]
<1>. USE DEF IsForward
<1>. DEFINE S == {k \in Nat : \A j \in 1 .. n + 1 : j >= n + 1 - k => f[j] = g[j]}
<1>1. 0 \in S
  <2>1. ASSUME NEW j \in 1 .. n + 1, j >= n + 1 - 0 PROVE f[j] = g[j]
    <3>1. j = n + 1
      BY <2>1
    <3>. QED
      BY <3>1 DEF SolvesFromEnd
  <2>. QED
    BY <2>1
<1>2. ASSUME NEW k \in Nat, k \in S PROVE k + 1 \in S
  <2>1. ASSUME NEW j \in 1 .. n + 1, j >= n + 1 - (k + 1) PROVE f[j] = g[j]
    <3>1. CASE j >= n + 1 - k
      BY <1>2, <3>1
    <3>2. CASE ~ (j >= n + 1 - k)
      <4>1. j \in 1 .. n /\ next[j] \in 1 .. n + 1 /\ next[j] >= n + 1 - k
        BY <2>1, <3>2
      <4>2. f[next[j]] = g[next[j]]
        BY <1>2, <4>1
      <4>. QED
        BY <4>1, <4>2 DEF SolvesFromEnd
    <3>. QED
      BY <3>1, <3>2
  <2>. QED
    BY <2>1
<1>3. n \in S
  <2>. HIDE DEF S
  <2>. QED
    BY <1>1, <1>2, InductiveSet
<1>. QED
  BY <1>3

-------------------------------------------------------------------------------
(* ReplaceEvery. *)

startsAt(s, old, i) ==
    /\ i + Len(old) - 1 <= Len(s)
    /\ \A j \in 1 .. Len(old) : s[i + j - 1] = old[j]

\* An occurrence, token by token, is one as the code compares it.
LEMMA StartsAtIsSubSeq ==
    ASSUME NEW s \in Seq(Token), NEW old \in Seq(Token), NEW i \in 1 .. Len(s)
    PROVE  startsAt(s, old, i) <=>
               i + Len(old) - 1 <= Len(s) /\ SubSeq(s, i, i + Len(old) - 1) = old
<1>. DEFINE n == Len(s)
            m == Len(old)
            part == SubSeq(s, i, i + m - 1)
<1>1. n \in Nat /\ m \in Nat /\ \A j \in 1 .. n : s[j] \in Token
  BY LenProperties, ElementOfSeq
<1>. HIDE DEF n, m
<1>2. i \in 1 .. n
  BY DEF n
<1>3. CASE i + m - 1 <= n
  <2>1. \A j \in i .. i + m - 1 : s[j] \in Token
    BY <1>1, <1>2, <1>3
  <2>2. i \in Int /\ i + m - 1 \in Int
    BY <1>1, <1>2
  <2>. DEFINE k == i + m - 1
  <2>3. /\ part \in Seq(Token)
        /\ Len(part) = IF i <= k THEN k - i + 1 ELSE 0
        /\ \A j \in 1 .. k - i + 1 : part[j] = s[i + j - 1]
    <3>. HIDE DEF k
    <3>1. \A j \in i .. k : s[j] \in Token
      BY <2>1 DEF k
    <3>2. k \in Int
      BY <2>2 DEF k
    <3>. QED
      BY <2>2, <3>1, <3>2, SubSeqProperties DEF k
  <2>4. k - i + 1 = m /\ (i <= k \/ m = 0)
    BY <1>1, <1>2
  <2>5. Len(part) = m /\ \A j \in 1 .. m : part[j] = s[i + j - 1]
    BY <1>1, <2>3, <2>4
  <2>6. part = old <=> \A j \in 1 .. m : part[j] = old[j]
    BY <2>3, <2>5, SeqEqual DEF m
  <2>. QED
    BY <1>3, <2>5, <2>6 DEF startsAt, n, m
<1>4. CASE ~ (i + m - 1 <= n)
  BY <1>4 DEF startsAt, n, m
<1>. QED
  BY <1>3, <1>4

\* One pass of ReplaceEvery over s, as a text put together from its end.
scanHead(s, old, new) == [i \in 1 .. Len(s) |-> IF startsAt(s, old, i) THEN new ELSE <<s[i]>>]
scanNext(s, old) == [i \in 1 .. Len(s) |-> IF startsAt(s, old, i) THEN i + Len(old) ELSE i + 1]
IsScan(f, s, old, new) == IsFromEnd(f, Len(s), scanHead(s, old, new), scanNext(s, old))

\* Such a pass is put together from its end.
LEMMA ScanIsFromEnd ==
    ASSUME NEW s \in Seq(Token), NEW old \in Seq(Token), Len(old) >= 1, NEW new \in Seq(Token)
    PROVE  /\ scanHead(s, old, new) \in [1 .. Len(s) -> Seq(Token)]
           /\ IsForward(Len(s), scanNext(s, old))
<1>. DEFINE n == Len(s)
            m == Len(old)
<1>1. n \in Nat /\ m \in Nat /\ m >= 1 /\ \A j \in 1 .. n : s[j] \in Token
  BY LenProperties, ElementOfSeq
<1>. HIDE DEF n, m
<1>2. \A i \in 1 .. n : <<s[i]>> \in Seq(Token)
  BY <1>1
<1>3. scanHead(s, old, new) \in [1 .. n -> Seq(Token)]
  BY <1>2 DEF scanHead, n
<1>4. ASSUME NEW i \in 1 .. n PROVE scanNext(s, old)[i] \in i + 1 .. n + 1
  <2>1. scanNext(s, old)[i] = IF startsAt(s, old, i) THEN i + m ELSE i + 1
    BY DEF scanNext, n, m
  <2>2. startsAt(s, old, i) => i + m - 1 <= n
    BY DEF startsAt, n, m
  <2>. QED
    BY <1>1, <2>1, <2>2
<1>. QED
  BY <1>1, <1>3, <1>4 DEF IsForward, n

replaceLoop(s, old, new, f) ==
    [i \in 1 .. Len(s) + 1 |->
        IF i > Len(s) THEN <<>>
        ELSE IF i + Len(old) - 1 <= Len(s) /\ SubSeq(s, i, i + Len(old) - 1) = old
        THEN new \o f[i + Len(old)]
        ELSE <<s[i]>> \o f[i + 1]]

\* What ReplaceEvery returns is the pass from the first token on.
LEMMA ReplaceIsScan ==
    ASSUME NEW s \in Seq(Token), NEW old \in Seq(Token), Len(old) >= 1, NEW new \in Seq(Token)
    PROVE  \E f : IsScan(f, s, old, new) /\ ReplaceEvery(s, old, new) = f[1]
<1>. DEFINE n == Len(s)
            head == scanHead(s, old, new)
            next == scanNext(s, old)
            loop == CHOOSE f : f = replaceLoop(s, old, new, f)
<1>1. n \in Nat /\ head \in [1 .. n -> Seq(Token)] /\ IsForward(n, next)
  BY LenProperties, ScanIsFromEnd
<1>2. PICK f : IsFromEnd(f, n, head, next)
  <2>. HIDE DEF n, head, next
  <2>. QED
    BY <1>1, FromEndExists
<1>3. ASSUME NEW g PROVE replaceLoop(s, old, new, g)[n + 1] = <<>>
  <2>1. n + 1 \in 1 .. n + 1 /\ n + 1 > n
    BY <1>1
  <2>. QED
    BY <2>1 DEF replaceLoop
<1>4. ASSUME NEW g, NEW i \in 1 .. n
      PROVE  replaceLoop(s, old, new, g)[i] = head[i] \o g[next[i]]
  <2>1. i \in 1 .. n + 1 /\ ~ (i > n)
    BY <1>1
  <2>2. replaceLoop(s, old, new, g)[i] = IF startsAt(s, old, i) THEN new \o g[i + Len(old)]
                                                            ELSE <<s[i]>> \o g[i + 1]
    BY <2>1, StartsAtIsSubSeq DEF replaceLoop
  <2>. QED
    BY <2>2 DEF scanHead, scanNext
<1>5. f = replaceLoop(s, old, new, f)
  <2>1. f = [i \in 1 .. n + 1 |-> f[i]]
    BY <1>2 DEF IsFromEnd
  <2>2. replaceLoop(s, old, new, f) = [i \in 1 .. n + 1 |-> replaceLoop(s, old, new, f)[i]]
    BY DEF replaceLoop
  <2>3. ASSUME NEW i \in 1 .. n + 1 PROVE f[i] = replaceLoop(s, old, new, f)[i]
    <3>1. i = n + 1 \/ i \in 1 .. n
      BY <1>1
    <3>. HIDE DEF n, head, next
    <3>. QED
      BY <1>2, <1>3, <1>4, <3>1 DEF IsFromEnd, SolvesFromEnd
  <2>. HIDE DEF n
  <2>. QED
    BY <2>1, <2>2, <2>3
<1>6. loop = replaceLoop(s, old, new, loop)
  BY <1>5, Zenon
<1>7. SolvesFromEnd(loop, n, head, next)
  <2>. HIDE DEF n, head, next, loop
  <2>. QED
    BY <1>3, <1>4, <1>6 DEF SolvesFromEnd
<1>8. loop[1] = f[1]
  <2>1. SolvesFromEnd(f, n, head, next)
    BY <1>2 DEF IsFromEnd
  <2>2. 1 \in 1 .. n + 1
    BY <1>1
  <2>. HIDE DEF n, head, next, loop
  <2>. QED
    BY <1>1, <1>7, <2>1, <2>2, FromEndUnique
<1>9. ReplaceEvery(s, old, new) = loop[1]
  BY Zenon DEF ReplaceEvery, replaceLoop
<1>. QED
  BY <1>2, <1>8, <1>9 DEF IsScan

\* What is replaced is a text again.
LEMMA ReplaceType ==
    ASSUME NEW s \in Seq(Token), NEW old \in Seq(Token), Len(old) >= 1, NEW new \in Seq(Token)
    PROVE  ReplaceEvery(s, old, new) \in Seq(Token)
<1>1. PICK f : IsScan(f, s, old, new) /\ ReplaceEvery(s, old, new) = f[1]
  BY ReplaceIsScan
<1>2. Len(s) \in Nat /\ 1 \in 1 .. Len(s) + 1
  BY LenProperties
<1>. QED
  BY <1>1, <1>2 DEF IsScan, IsFromEnd

\* A pass does in the rest of a text what it does in that alone.
LEMMA ScanOfRest ==
    ASSUME NEW p \in Seq(Token), NEW t \in Seq(Token),
           NEW old \in Seq(Token), Len(old) >= 1, NEW new \in Seq(Token),
           NEW f, IsScan(f, p \o t, old, new)
    PROVE  f[Len(p) + 1] = ReplaceEvery(t, old, new)
<1>. DEFINE s == p \o t
            k == Len(p)
            n == Len(t)
            g == [i \in 1 .. n + 1 |-> f[i + k]]
<1>1. /\ k \in Nat /\ n \in Nat /\ s \in Seq(Token) /\ Len(s) = k + n
      /\ \A i \in 1 .. n : s[i + k] = t[i]
  BY LenProperties, ConcatProperties
<1>2. ASSUME NEW i \in 1 .. n
      PROVE  /\ i + k \in 1 .. Len(s)
             /\ startsAt(s, old, i + k) <=> startsAt(t, old, i)
  <2>. DEFINE m == Len(old)
  <2>. HIDE DEF s, k, n, m
  <2>1. m \in Nat /\ m >= 1
    BY LenProperties DEF m
  <2>2. (i + k) + m - 1 <= k + n <=> i + m - 1 <= n
    BY <1>1, <2>1
  <2>3. ASSUME i + m - 1 <= n, NEW j \in 1 .. m PROVE s[(i + k) + j - 1] = t[i + j - 1]
    <3>1. i + j - 1 \in 1 .. n /\ (i + k) + j - 1 = (i + j - 1) + k
      BY <1>1, <2>1, <2>3
    <3>. QED
      BY <1>1, <3>1
  <2>4. i + k \in 1 .. Len(s)
    BY <1>1
  <2>. QED
    BY <1>1, <2>2, <2>3, <2>4 DEF startsAt, m, n
<1>3. g[n + 1] = <<>>
  <2>1. n + 1 \in 1 .. n + 1 /\ (n + 1) + k = Len(s) + 1
    BY <1>1
  <2>2. f[Len(s) + 1] = <<>>
    BY DEF IsScan, IsFromEnd, SolvesFromEnd
  <2>. HIDE DEF n, k, s
  <2>. QED
    BY <2>1, <2>2
<1>4. ASSUME NEW i \in 1 .. n
      PROVE  g[i] = scanHead(t, old, new)[i] \o g[scanNext(t, old)[i]]
  <2>1. i \in 1 .. n + 1 /\ i + k \in 1 .. Len(s) /\ (startsAt(s, old, i + k) <=> startsAt(t, old, i))
    BY <1>1, <1>2
  <2>2. f[i + k] = scanHead(s, old, new)[i + k] \o f[scanNext(s, old)[i + k]]
    BY <2>1 DEF IsScan, IsFromEnd, SolvesFromEnd
  <2>3. scanHead(s, old, new)[i + k] = scanHead(t, old, new)[i]
    BY <1>1, <2>1 DEF scanHead
  <2>4. scanNext(s, old)[i + k] = scanNext(t, old)[i] + k
    <3>1. (i + k) + Len(old) = (i + Len(old)) + k /\ (i + k) + 1 = (i + 1) + k
      BY <1>1, LenProperties
    <3>2. scanNext(s, old)[i + k] = IF startsAt(t, old, i) THEN (i + k) + Len(old) ELSE (i + k) + 1
      BY <2>1 DEF scanNext
    <3>3. scanNext(t, old)[i] = IF startsAt(t, old, i) THEN i + Len(old) ELSE i + 1
      BY DEF scanNext
    <3>. HIDE DEF n, k, s
    <3>. QED
      BY <3>1, <3>2, <3>3
  <2>5. scanNext(t, old)[i] \in 1 .. n + 1
    BY <1>1, ScanIsFromEnd DEF IsForward
  <2>. HIDE DEF n, k, s
  <2>. QED
    BY <2>1, <2>2, <2>3, <2>4, <2>5
<1>5. PICK h : IsScan(h, t, old, new) /\ ReplaceEvery(t, old, new) = h[1]
  BY ReplaceIsScan
<1>6. g[1] = h[1]
  <2>1. SolvesFromEnd(g, n, scanHead(t, old, new), scanNext(t, old))
    <3>. HIDE DEF g, n
    <3>. QED
      BY <1>3, <1>4 DEF SolvesFromEnd
  <2>2. SolvesFromEnd(h, n, scanHead(t, old, new), scanNext(t, old))
    BY <1>5 DEF IsScan, IsFromEnd
  <2>3. 1 \in 1 .. n + 1
    BY <1>1
  <2>4. IsForward(n, scanNext(t, old))
    BY ScanIsFromEnd
  <2>. HIDE DEF g, n
  <2>. QED
    BY <2>1, <2>2, <2>3, <2>4, FromEndUnique
<1>7. 1 \in 1 .. n + 1 /\ 1 + k = k + 1
  BY <1>1
<1>. HIDE DEF n, k
<1>8. g[1] = f[k + 1]
  BY <1>7
<1>. QED
  BY <1>5, <1>6, <1>8 DEF k

\* An occurrence is replaced, and the rest as if it were alone.
LEMMA ReplaceFirst ==
    ASSUME NEW t \in Seq(Token),
           NEW old \in Seq(Token), Len(old) >= 1, NEW new \in Seq(Token)
    PROVE  ReplaceEvery(old \o t, old, new) = new \o ReplaceEvery(t, old, new)
<1>. DEFINE s == old \o t
            m == Len(old)
<1>1. /\ m \in Nat /\ m >= 1 /\ Len(t) \in Nat /\ s \in Seq(Token) /\ Len(s) = m + Len(t)
      /\ \A j \in 1 .. m : s[j] = old[j]
  BY LenProperties, ConcatProperties
<1>2. PICK f : IsScan(f, s, old, new) /\ ReplaceEvery(s, old, new) = f[1]
  BY <1>1, ReplaceIsScan
<1>3. f[m + 1] = ReplaceEvery(t, old, new)
  BY <1>2, ScanOfRest
<1>. HIDE DEF s
<1>4. startsAt(s, old, 1)
  <2>1. \A j \in 1 .. m : 1 + j - 1 = j
    BY <1>1
  <2>. QED
    BY <1>1, <2>1 DEF startsAt
<1>5. 1 \in 1 .. Len(s)
  BY <1>1
<1>6. f[1] = scanHead(s, old, new)[1] \o f[scanNext(s, old)[1]]
  BY <1>2, <1>5 DEF IsScan, IsFromEnd, SolvesFromEnd
<1>7. scanHead(s, old, new)[1] = new /\ scanNext(s, old)[1] = 1 + m
  BY <1>4, <1>5 DEF scanHead, scanNext
<1>8. 1 + m = m + 1
  BY <1>1
<1>. QED
  BY <1>2, <1>3, <1>6, <1>7, <1>8 DEF s

\* What no occurrence starts in is kept, and the rest replaced as if it were alone.
LEMMA ReplaceSkips ==
    ASSUME NEW p \in Seq(Token), NEW t \in Seq(Token),
           NEW old \in Seq(Token), Len(old) >= 1, NEW new \in Seq(Token),
           \A i \in 1 .. Len(p) : ~ startsAt(p \o t, old, i)
    PROVE  ReplaceEvery(p \o t, old, new) = p \o ReplaceEvery(t, old, new)
<1>. DEFINE s == p \o t
            n == Len(p)
<1>1. /\ n \in Nat /\ Len(t) \in Nat /\ s \in Seq(Token) /\ Len(s) = n + Len(t)
      /\ \A j \in 1 .. n : s[j] = p[j] /\ p[j] \in Token
  BY LenProperties, ConcatProperties, ElementOfSeq
<1>2. PICK f : IsScan(f, s, old, new) /\ ReplaceEvery(s, old, new) = f[1]
  BY <1>1, ReplaceIsScan
<1>3. f[n + 1] = ReplaceEvery(t, old, new)
  BY <1>2, ScanOfRest
<1>4. f \in [1 .. Len(s) + 1 -> Seq(Token)]
  BY <1>2 DEF IsScan, IsFromEnd
<1>5. ASSUME NEW i \in 1 .. n PROVE f[i] = <<p[i]>> \o f[i + 1]
  <2>1. i \in 1 .. Len(s) /\ ~ startsAt(s, old, i) /\ s[i] = p[i]
    BY <1>1
  <2>2. f[i] = scanHead(s, old, new)[i] \o f[scanNext(s, old)[i]]
    BY <1>2, <2>1 DEF IsScan, IsFromEnd, SolvesFromEnd
  <2>3. scanHead(s, old, new)[i] = <<p[i]>> /\ scanNext(s, old)[i] = i + 1
    BY <2>1 DEF scanHead, scanNext
  <2>. QED
    BY <2>2, <2>3
<1>. DEFINE Kept(k) == f[1] = SubSeq(p, 1, k) \o f[k + 1]
            S == {k \in Nat : k <= n => Kept(k)}
<1>. HIDE DEF s
<1>6. 0 \in S
  <2>1. SubSeq(p, 1, 0) = <<>>
    BY SubSeqEmpty, 0 < 1
  <2>2. f[1] \in Seq(Token)
    <3>1. 1 \in 1 .. Len(s) + 1
      BY <1>1
    <3>. QED
      BY <1>4, <3>1
  <2>3. f[1] = <<>> \o f[1] /\ 0 + 1 = 1
    BY <2>2, ConcatEmptySeq
  <2>. QED
    BY <2>1, <2>3
<1>7. ASSUME NEW k \in Nat, k \in S PROVE k + 1 \in S
  <2>. HIDE DEF n, Kept
  <2>1. SUFFICES ASSUME k + 1 <= n PROVE Kept(k + 1)
    OBVIOUS
  <2>2. f[1] = SubSeq(p, 1, k) \o (<<p[k + 1]>> \o f[(k + 1) + 1])
    <3>1. k + 1 \in 1 .. n /\ k <= n
      BY <1>1, <2>1
    <3>2. Kept(k) /\ f[k + 1] = <<p[k + 1]>> \o f[(k + 1) + 1]
      BY <1>5, <1>7, <3>1
    <3>. QED
      BY <3>2 DEF Kept
  <2>3. /\ SubSeq(p, 1, k) \in Seq(Token) /\ <<p[k + 1]>> \in Seq(Token)
        /\ f[(k + 1) + 1] \in Seq(Token)
    <3>1. \A j \in 1 .. k : p[j] \in Token
      BY <1>1, <2>1
    <3>2. SubSeq(p, 1, k) \in Seq(Token)
      BY <3>1, SubSeqProperties
    <3>3. p[k + 1] \in Token /\ (k + 1) + 1 \in 1 .. Len(s) + 1
      BY <1>1, <2>1
    <3>4. <<p[k + 1]>> \in Seq(Token)
      BY <3>3
    <3>5. f[(k + 1) + 1] \in Seq(Token)
      BY <1>4, <3>3
    <3>. QED
      BY <3>2, <3>4, <3>5
  <2>4. SubSeq(p, 1, k + 1) = SubSeq(p, 1, k) \o <<p[k + 1]>>
    <3>1. 1 \in 1 .. n /\ k + 1 \in 1 .. n /\ (k + 1) - 1 = k
      BY <1>1, <2>1
    <3>. QED
      BY <3>1, SubSeqRecursiveSecond DEF n
  <2>5. SubSeq(p, 1, k) \o (<<p[k + 1]>> \o f[(k + 1) + 1])
            = (SubSeq(p, 1, k) \o <<p[k + 1]>>) \o f[(k + 1) + 1]
    <3>1. PICK x \in Seq(Token) : x = SubSeq(p, 1, k)
      BY <2>3
    <3>2. PICK y \in Seq(Token) : y = <<p[k + 1]>>
      BY <2>3
    <3>3. PICK z \in Seq(Token) : z = f[(k + 1) + 1]
      BY <2>3
    <3>4. x \o (y \o z) = (x \o y) \o z
      BY ONLY Associative, SMTT(30)
    <3>. QED
      BY <3>1, <3>2, <3>3, <3>4
  <2>. QED
    BY <2>2, <2>4, <2>5 DEF Kept
<1>8. n \in S
  <2>. HIDE DEF S
  <2>. QED
    BY <1>1, <1>6, <1>7, InductiveSet
<1>9. SubSeq(p, 1, n) = p
  BY SubSeqFull
<1>. HIDE DEF n
<1>10. f[1] = p \o f[n + 1]
  <2>. HIDE DEF Kept
  <2>1. n <= n => Kept(n)
    BY <1>8
  <2>2. n <= n
    BY <1>1
  <2>. QED
    BY <1>9, <2>1, <2>2 DEF Kept
<1>. QED
  BY <1>2, <1>3, <1>10 DEF s

\* In no text there is nothing to replace.
LEMMA ReplaceNothing ==
    ASSUME NEW old \in Seq(Token), Len(old) >= 1, NEW new \in Seq(Token)
    PROVE  ReplaceEvery(<<>>, old, new) = <<>>
<1>1. <<>> \in Seq(Token) /\ Len(<<>>) = 0
  OBVIOUS
<1>2. PICK f : IsScan(f, <<>>, old, new) /\ ReplaceEvery(<<>>, old, new) = f[1]
  BY <1>1, ReplaceIsScan
<1>3. f[0 + 1] = <<>>
  BY <1>1, <1>2 DEF IsScan, IsFromEnd, SolvesFromEnd
<1>. QED
  BY <1>2, <1>3

-------------------------------------------------------------------------------
(* FlattenSeq. *)

\* The texts from each of the texts a[1 .. n] on.
IsTails(t, n, a) == IsFromEnd(t, n, a, [i \in 1 .. n |-> i + 1])

\* The recursion of FlattenSeq.
flattenLoop(n, a, g) == [i \in 1 .. n |-> IF i = 1 THEN a[i] ELSE g[i - 1] \o a[i]]

\* The first k of its values.
IsFlatten(g, a, k) ==
    /\ g \in [1 .. k -> Seq(Token)]
    /\ \A i \in 1 .. k : g[i] = IF i = 1 THEN a[i] ELSE g[i - 1] \o a[i]

\* It has a solution.
LEMMA FlattenSolves ==
    ASSUME NEW n \in Nat, NEW a \in [1 .. n -> Seq(Token)]
    PROVE  \E g : g = flattenLoop(n, a, g)
<1>. DEFINE S == {k \in Nat : k <= n => \E g : IsFlatten(g, a, k)}
<1>1. 0 \in S
  <2>. DEFINE g == [i \in 1 .. 0 |-> <<>>]
  <2>1. IsFlatten(g, a, 0)
    BY DEF IsFlatten
  <2>. QED
    BY <2>1
<1>2. ASSUME NEW k \in Nat, k \in S PROVE k + 1 \in S
  <2>1. SUFFICES ASSUME k + 1 <= n PROVE \E g : IsFlatten(g, a, k + 1)
    OBVIOUS
  <2>2. PICK f : IsFlatten(f, a, k)
    BY <1>2, <2>1
  <2>. DEFINE last == IF k + 1 = 1 THEN a[k + 1] ELSE f[k] \o a[k + 1]
              g == [i \in 1 .. k + 1 |-> IF i = k + 1 THEN last ELSE f[i]]
  <2>3. last \in Seq(Token)
    <3>1. a[k + 1] \in Seq(Token)
      BY <2>1
    <3>2. CASE k = 0
      BY <3>1, <3>2
    <3>3. CASE k # 0
      <4>1. f[k] \in Seq(Token)
        BY <2>2, <3>3 DEF IsFlatten
      <4>. QED
        BY <3>1, <3>3, <4>1, ConcatProperties
    <3>. QED
      BY <3>2, <3>3
  <2>4. /\ f \in [1 .. k -> Seq(Token)]
        /\ \A i \in 1 .. k : f[i] = IF i = 1 THEN a[i] ELSE f[i - 1] \o a[i]
    BY <2>2 DEF IsFlatten
  <2>5. ASSUME NEW i \in 1 .. k + 1
        PROVE  g[i] \in Seq(Token) /\ g[i] = IF i = 1 THEN a[i] ELSE g[i - 1] \o a[i]
    <3>1. CASE i = k + 1
      <4>1. g[i] = last
        BY <3>1
      <4>2. i # 1 => i - 1 = k /\ g[k] = f[k]
        BY <3>1
      <4>. HIDE DEF g
      <4>. QED
        BY <2>3, <3>1, <4>1, <4>2
    <3>2. CASE i # k + 1
      <4>1. i \in 1 .. k
        BY <3>2
      <4>2. g[i] = f[i] /\ (i # 1 => g[i - 1] = f[i - 1])
        BY <4>1
      <4>. HIDE DEF g
      <4>. QED
        BY <2>4, <4>1, <4>2
    <3>. QED
      BY <3>1, <3>2
  <2>6. g = [i \in 1 .. k + 1 |-> g[i]]
    OBVIOUS
  <2>. HIDE DEF g
  <2>7. g \in [1 .. k + 1 -> Seq(Token)]
    BY <2>5, <2>6
  <2>. QED
    BY <2>5, <2>7 DEF IsFlatten
<1>3. n \in S
  <2>. HIDE DEF S
  <2>. QED
    BY <1>1, <1>2, InductiveSet
<1>4. PICK g : IsFlatten(g, a, n)
  BY <1>3
<1>5. g = [i \in 1 .. n |-> g[i]]
  BY <1>4 DEF IsFlatten
<1>6. g = flattenLoop(n, a, g)
  BY <1>4, <1>5 DEF IsFlatten, flattenLoop
<1>. QED
  BY <1>6

\* Texts one after the other are the texts from the first on.
LEMMA FlattenIsTails ==
    ASSUME NEW n \in Nat, NEW a \in [1 .. n -> Seq(Token)], NEW t, IsTails(t, n, a)
    PROVE  FlattenSeq(a) = t[1]
<1>. DEFINE loop == CHOOSE g : g = flattenLoop(n, a, g)
<1>1. a \in Seq(Seq(Token)) /\ Len(a) = n
  OBVIOUS
<1>2. /\ t \in [1 .. n + 1 -> Seq(Token)] /\ t[n + 1] = <<>>
      /\ \A i \in 1 .. n : t[i] = a[i] \o t[i + 1]
  BY DEF IsTails, IsFromEnd, SolvesFromEnd
<1>3. CASE n = 0
  <2>1. t[1] = <<>>
    BY <1>2, <1>3
  <2>2. a = <<>>
    BY <1>3
  <2>3. FlattenSeq(a) = a
    BY <1>1, <1>3, Zenon DEF FlattenSeq
  <2>. QED
    BY <2>1, <2>2, <2>3
<1>4. CASE n # 0
  <2>1. FlattenSeq(a) = loop[n]
    BY <1>1, <1>4, Zenon DEF FlattenSeq, flattenLoop
  <2>2. loop = flattenLoop(n, a, loop)
    BY FlattenSolves, Zenon
  <2>. HIDE DEF loop
  <2>3. \A i \in 1 .. n : loop[i] = IF i = 1 THEN a[i] ELSE loop[i - 1] \o a[i]
    BY <2>2 DEF flattenLoop
  <2>. DEFINE Holds(k) == loop[k] \in Seq(Token) /\ loop[k] \o t[k + 1] = t[1]
              S == {k \in Nat : k + 1 <= n => Holds(k + 1)}
  <2>4. 0 \in S
    <3>1. 1 \in 1 .. n /\ 0 + 1 = 1
      BY <1>4
    <3>2. loop[1] = a[1] /\ a[1] \in Seq(Token) /\ t[1] = a[1] \o t[1 + 1]
      BY <1>2, <2>3, <3>1
    <3>3. Holds(1)
      BY <3>2
    <3>. HIDE DEF Holds
    <3>. QED
      BY <3>1, <3>3
  <2>5. ASSUME NEW k \in Nat, k \in S PROVE k + 1 \in S
    <3>. DEFINE m == k + 1
    <3>1. m \in Nat /\ m >= 1
      OBVIOUS
    <3>2. m <= n => Holds(m)
      BY <2>5
    <3>. HIDE DEF m, Holds
    <3>3. SUFFICES ASSUME m + 1 <= n PROVE Holds(m + 1)
      BY <3>1 DEF m
    <3>4. m + 1 \in 1 .. n /\ m + 1 # 1 /\ (m + 1) - 1 = m /\ (m + 1) + 1 \in 1 .. n + 1
      BY <3>1, <3>3
    <3>5. Holds(m)
      BY <3>1, <3>2, <3>3
    <3>6. PICK x \in Seq(Token) : x = loop[m]
      BY <3>5 DEF Holds
    <3>7. PICK y \in Seq(Token) : y = a[m + 1]
      BY <3>4
    <3>8. PICK z \in Seq(Token) : z = t[(m + 1) + 1]
      BY <1>2, <3>4
    <3>9. x \o (y \o z) = (x \o y) \o z
      BY ONLY Associative, SMTT(30)
    <3>10. loop[m + 1] = x \o y /\ t[m + 1] = y \o z
      BY <1>2, <2>3, <3>4, <3>6, <3>7, <3>8
    <3>11. x \o y \in Seq(Token)
      BY ConcatProperties
    <3>12. x \o (y \o z) = t[1]
      BY <3>5, <3>6, <3>10 DEF Holds
    <3>. QED
      BY <3>8, <3>9, <3>10, <3>11, <3>12 DEF Holds
  <2>6. PICK k \in Nat : k + 1 = n
    BY <1>4, n - 1 \in Nat, (n - 1) + 1 = n
  <2>7. k \in S
    <3>. HIDE DEF S
    <3>. QED
      BY <2>4, <2>5, InductiveSet
  <2>8. Holds(n)
    <3>. HIDE DEF Holds
    <3>. QED
      BY <2>6, <2>7
  <2>9. loop[n] \o <<>> = loop[n]
    BY <2>8, ConcatEmptySeq
  <2>. QED
    BY <1>2, <2>1, <2>8, <2>9
<1>. QED
  BY <1>3, <1>4

-------------------------------------------------------------------------------
(* A pass of ReplaceEvery over the segments of a path. *)

\* What can follow a segment: nothing, or the next one.
Rests == {rest \in Seq(Token) : rest = <<>> \/ rest[1] = "/"}

IsSegment(x) == x \in Seq(Token) /\ Len(x) >= 1 /\ x[1] = "/"

\* The pass makes y of the segment x, whatever follows it.
Becomes(x, old, new, y) ==
    /\ IsSegment(x) /\ y \in Seq(Token)
    /\ \A rest \in Rests : ReplaceEvery(x \o rest, old, new) = y \o ReplaceEvery(rest, old, new)

AllBecome(n, a, old, new, b) ==
    /\ n \in Nat /\ DOMAIN a = 1 .. n /\ DOMAIN b = 1 .. n
    /\ a = [i \in DOMAIN a |-> a[i]] /\ b = [i \in DOMAIN b |-> b[i]]
    /\ \A i \in 1 .. n : Becomes(a[i], old, new, b[i])

\* A pass over segments is a pass over each.
LEMMA ReplaceSegments ==
    ASSUME NEW old \in Seq(Token), Len(old) >= 1, NEW new \in Seq(Token),
           NEW n, NEW a, NEW b, AllBecome(n, a, old, new, b)
    PROVE  ReplaceEvery(FlattenSeq(a), old, new) = FlattenSeq(b)
<1>. DEFINE after == [i \in 1 .. n |-> i + 1]
<1>1. /\ n \in Nat /\ a \in [1 .. n -> Seq(Token)] /\ b \in [1 .. n -> Seq(Token)]
      /\ IsForward(n, after)
  BY DEF AllBecome, Becomes, IsSegment, IsForward
<1>2. PICK t : IsTails(t, n, a)
  BY <1>1, FromEndExists DEF IsTails
<1>3. PICK u : IsTails(u, n, b)
  BY <1>1, FromEndExists DEF IsTails
<1>. HIDE DEF after
<1>4. /\ t \in [1 .. n + 1 -> Seq(Token)] /\ t[n + 1] = <<>>
      /\ \A i \in 1 .. n : t[i] = a[i] \o t[i + 1]
  BY <1>2 DEF IsTails, IsFromEnd, SolvesFromEnd
<1>5. /\ u[n + 1] = <<>>
      /\ \A i \in 1 .. n : u[i] = b[i] \o u[i + 1]
  BY <1>3 DEF IsTails, IsFromEnd, SolvesFromEnd
<1>. DEFINE Holds(i) == t[i] \in Rests /\ ReplaceEvery(t[i], old, new) = u[i]
            S == {k \in Nat : k <= n => Holds(n + 1 - k)}
<1>6. 0 \in S
  <2>1. Holds(n + 1)
    BY <1>4, <1>5, ReplaceNothing DEF Rests
  <2>2. n + 1 - 0 = n + 1
    BY <1>1
  <2>. HIDE DEF Holds
  <2>. QED
    BY <2>1, <2>2
<1>7. ASSUME NEW k \in Nat, k \in S PROVE k + 1 \in S
  <2>. HIDE DEF Holds
  <2>1. SUFFICES ASSUME k + 1 <= n PROVE Holds(n + 1 - (k + 1))
    OBVIOUS
  <2>. DEFINE m == n + 1 - (k + 1)
  <2>2. m \in 1 .. n /\ m + 1 = n + 1 - k
    BY <1>1, <2>1
  <2>3. Holds(m + 1)
    BY <1>1, <1>7, <2>1, <2>2
  <2>. HIDE DEF m
  <2>4. IsSegment(a[m]) /\ Becomes(a[m], old, new, b[m])
    BY <2>2 DEF AllBecome, Becomes
  <2>5. t[m] = a[m] \o t[m + 1] /\ t[m + 1] \in Rests /\ u[m] = b[m] \o u[m + 1]
    BY <1>4, <1>5, <2>2, <2>3 DEF Holds
  <2>6. ReplaceEvery(t[m], old, new) = u[m]
    BY <2>3, <2>4, <2>5 DEF Becomes, Holds
  <2>7. t[m] \in Rests
    <3>1. PICK x \in Seq(Token), y \in Seq(Token) : x = a[m] /\ y = t[m + 1]
      BY <2>4, <2>5 DEF IsSegment, Rests
    <3>2. x[1] = "/" /\ Len(x) \in Nat /\ Len(x) >= 1 /\ Len(y) \in Nat
      BY <2>4, <3>1, LenProperties DEF IsSegment
    <3>3. x \o y \in Seq(Token) /\ (x \o y)[1] = x[1]
      BY <3>2, ConcatProperties
    <3>. QED
      BY <2>5, <3>1, <3>2, <3>3 DEF Rests
  <2>8. Holds(m)
    BY <2>6, <2>7 DEF Holds
  <2>. QED
    BY <2>8 DEF m
<1>8. n \in S
  <2>. HIDE DEF S
  <2>. QED
    BY <1>1, <1>6, <1>7, InductiveSet
<1>9. Holds(1)
  <2>. HIDE DEF Holds
  <2>1. n <= n /\ n + 1 - n = 1
    BY <1>1
  <2>. QED
    BY <1>8, <2>1
<1>. QED
  BY <1>1, <1>2, <1>3, <1>9, FlattenIsTails

\* A segment in which no occurrence starts is kept.
LEMMA SegmentSkipped ==
    ASSUME NEW old \in Seq(Token), Len(old) >= 1, NEW new \in Seq(Token),
           NEW x, IsSegment(x),
           \A rest \in Rests : \A i \in 1 .. Len(x) : ~ startsAt(x \o rest, old, i)
    PROVE  Becomes(x, old, new, x)
<1>1. ASSUME NEW rest \in Rests
      PROVE  ReplaceEvery(x \o rest, old, new) = x \o ReplaceEvery(rest, old, new)
  <2>1. x \in Seq(Token) /\ rest \in Seq(Token)
    BY DEF IsSegment, Rests
  <2>. QED
    BY <2>1, ReplaceSkips
<1>. QED
  BY <1>1 DEF Becomes, IsSegment

\* So is one that lacks the token that every occurrence starts with.
LEMMA SegmentKept ==
    ASSUME NEW old \in Seq(Token), Len(old) >= 1, NEW new \in Seq(Token),
           NEW x, IsSegment(x), \A i \in 1 .. Len(x) : x[i] # old[1]
    PROVE  Becomes(x, old, new, x)
<1>1. ASSUME NEW rest \in Rests, NEW i \in 1 .. Len(x) PROVE ~ startsAt(x \o rest, old, i)
  <2>1. (x \o rest)[i] = x[i]
    BY LenProperties, ConcatProperties DEF IsSegment, Rests
  <2>2. 1 \in 1 .. Len(old) /\ i + 1 - 1 = i
    BY LenProperties
  <2>. QED
    BY <2>1, <2>2 DEF startsAt
<1>. QED
  BY <1>1, SegmentSkipped

\* A placeholder of the key is replaced.
LEMMA SegmentReplaced ==
    ASSUME NEW old \in Seq(Token), Len(old) >= 1, NEW new \in Seq(Token), old[1] # "/"
    PROVE  Becomes(<<"/">> \o old, old, new, <<"/">> \o new)
<1>. DEFINE slash == <<"/">>
<1>1. slash \in Seq(Token) /\ Len(slash) = 1 /\ slash[1] = "/"
  <2>1. "/" \in Token
    BY DEF Token
  <2>2. \A c \in Token : <<c>> \in Seq(Token) /\ Len(<<c>>) = 1 /\ <<c>>[1] = c
    OBVIOUS
  <2>. QED
    BY <2>1, <2>2
<1>. HIDE DEF slash
<1>2. IsSegment(slash \o old) /\ slash \o new \in Seq(Token)
  BY <1>1, ConcatProperties, LenProperties DEF IsSegment
<1>3. ASSUME NEW rest \in Rests
      PROVE  ReplaceEvery((slash \o old) \o rest, old, new)
                 = (slash \o new) \o ReplaceEvery(rest, old, new)
  <2>1. rest \in Seq(Token) /\ old \o rest \in Seq(Token)
    BY ConcatProperties DEF Rests
  <2>2. (slash \o old) \o rest = slash \o (old \o rest)
    BY <1>1, <2>1, ConcatAssociative
  <2>3. \A i \in 1 .. Len(slash) : ~ startsAt(slash \o (old \o rest), old, i)
    <3>1. (slash \o (old \o rest))[1] = "/"
      BY <1>1, <2>1, ConcatProperties, LenProperties
    <3>2. 1 \in 1 .. Len(old) /\ 1 + 1 - 1 = 1
      BY LenProperties
    <3>3. ~ startsAt(slash \o (old \o rest), old, 1)
      BY <3>1, <3>2 DEF startsAt
    <3>. QED
      BY <1>1, <3>3
  <2>4. ReplaceEvery(slash \o (old \o rest), old, new) = slash \o ReplaceEvery(old \o rest, old, new)
    <3>1. PICK y \in Seq(Token) : y = old \o rest
      BY <2>1
    <3>2. \A i \in 1 .. Len(slash) : ~ startsAt(slash \o y, old, i)
      BY <2>3, <3>1
    <3>3. ReplaceEvery(slash \o y, old, new) = slash \o ReplaceEvery(y, old, new)
      <4>1. slash \in Seq(Token)
        BY <1>1
      <4>. QED
        BY ONLY <3>2, <4>1, old \in Seq(Token), Len(old) >= 1, new \in Seq(Token), ReplaceSkips
    <3>. QED
      BY <3>1, <3>3
  <2>5. ReplaceEvery(old \o rest, old, new) = new \o ReplaceEvery(rest, old, new)
    BY <2>1, ReplaceFirst
  <2>6. ReplaceEvery(rest, old, new) \in Seq(Token)
    BY <2>1, ReplaceType
  <2>7. slash \o (new \o ReplaceEvery(rest, old, new)) = (slash \o new) \o ReplaceEvery(rest, old, new)
    <3>1. PICK z \in Seq(Token) : z = ReplaceEvery(rest, old, new)
      BY <2>6
    <3>2. slash \o (new \o z) = (slash \o new) \o z
      BY <1>1, Associative
    <3>. QED
      BY <3>1, <3>2
  <2>. QED
    BY <2>2, <2>4, <2>5, <2>7
<1>. QED
  BY <1>2, <1>3 DEF Becomes, slash

-------------------------------------------------------------------------------
(* Placeholders. *)

\* What names and keys are made of.
Words == Token \ {"/", ":", "{", "}"}

brace(key) == <<"{">> \o key \o <<"}">>
colon(key) == <<":">> \o key
slashed(x) == <<"/">> \o x

\* A name is a text.
LEMMA WordsAreTexts ==
    ASSUME NEW name \in Seq(Words)
    PROVE  /\ name \in Seq(Token) /\ Len(name) \in Nat
           /\ \A i \in 1 .. Len(name) : name[i] \in Words
<1>1. Words \subseteq Token
  BY DEF Words
<1>. QED
  BY <1>1, ElementOfSeq, LenProperties

\* Each token of a segment.
LEMMA SlashedTokens ==
    ASSUME NEW x \in Seq(Token)
    PROVE  /\ slashed(x) \in Seq(Token) /\ Len(slashed(x)) = Len(x) + 1 /\ IsSegment(slashed(x))
           /\ slashed(x)[1] = "/" /\ \A i \in 1 .. Len(x) : slashed(x)[i + 1] = x[i]
<1>1. "/" \in Token /\ Len(x) \in Nat
  BY LenProperties DEF Token
<1>2. \A c \in Token : /\ <<c>> \o x \in Seq(Token) /\ Len(<<c>> \o x) = Len(x) + 1
                       /\ (<<c>> \o x)[1] = c
                       /\ \A i \in 1 .. Len(x) : (<<c>> \o x)[i + 1] = x[i]
  OBVIOUS
<1>. QED
  BY <1>1, <1>2 DEF slashed, IsSegment

\* Each token of a placeholder with a colon.
LEMMA ColonTokens ==
    ASSUME NEW x \in Seq(Token)
    PROVE  /\ colon(x) \in Seq(Token) /\ Len(colon(x)) = Len(x) + 1
           /\ colon(x)[1] = ":" /\ \A i \in 1 .. Len(x) : colon(x)[i + 1] = x[i]
<1>1. ":" \in Token /\ Len(x) \in Nat
  BY LenProperties DEF Token
<1>2. \A c \in Token : /\ <<c>> \o x \in Seq(Token) /\ Len(<<c>> \o x) = Len(x) + 1
                       /\ (<<c>> \o x)[1] = c
                       /\ \A i \in 1 .. Len(x) : (<<c>> \o x)[i + 1] = x[i]
  OBVIOUS
<1>. QED
  BY <1>1, <1>2 DEF colon

\* Each token of a placeholder with braces.
LEMMA BraceTokens ==
    ASSUME NEW x \in Seq(Token)
    PROVE  /\ brace(x) \in Seq(Token) /\ Len(brace(x)) = Len(x) + 2
           /\ brace(x)[1] = "{" /\ brace(x)[Len(x) + 2] = "}"
           /\ \A i \in 1 .. Len(x) : brace(x)[i + 1] = x[i]
<1>1. "{" \in Token /\ "}" \in Token /\ Len(x) \in Nat
  BY LenProperties DEF Token
<1>2. \A c, d \in Token :
         /\ (<<c>> \o x) \o <<d>> \in Seq(Token) /\ Len((<<c>> \o x) \o <<d>>) = Len(x) + 2
         /\ ((<<c>> \o x) \o <<d>>)[1] = c /\ ((<<c>> \o x) \o <<d>>)[Len(x) + 2] = d
         /\ \A i \in 1 .. Len(x) : ((<<c>> \o x) \o <<d>>)[i + 1] = x[i]
  OBVIOUS
<1>. QED
  BY <1>1, <1>2 DEF brace

\* The placeholders of a template, which have their slash with them.
LEMMA SlashedPlaceholders ==
    ASSUME NEW x \in Seq(Token)
    PROVE  <<"/", ":">> \o x = slashed(colon(x)) /\ <<"/", "{">> \o x \o <<"}">> = slashed(brace(x))
<1>1. "/" \in Token /\ ":" \in Token /\ "{" \in Token /\ "}" \in Token
  BY DEF Token
<1>2. ASSUME NEW c \in Token, NEW d \in Token PROVE <<c, d>> \o x = <<c>> \o (<<d>> \o x)
  <2>0. <<c>> \in Seq(Token) /\ <<d>> \in Seq(Token) /\ <<c, d>> = <<c>> \o <<d>>
    <3>1. /\ <<c, d>> \in Seq(Token) /\ Len(<<c, d>>) = 2
          /\ <<c, d>>[1] = c /\ <<c, d>>[2] = d
      OBVIOUS
    <3>2. /\ <<c>> \in Seq(Token) /\ <<d>> \in Seq(Token)
          /\ <<c>> \o <<d>> \in Seq(Token) /\ Len(<<c>> \o <<d>>) = 2
          /\ (<<c>> \o <<d>>)[1] = c /\ (<<c>> \o <<d>>)[2] = d
      OBVIOUS
    <3>3. \A i \in 1 .. 2 : i = 1 \/ i = 2
      OBVIOUS
    <3>. QED
      BY <3>1, <3>2, <3>3, SeqEqual
  <2>1. PICK y \in Seq(Token), z \in Seq(Token) : y = <<c>> /\ z = <<d>> /\ <<c, d>> = y \o z
    BY <2>0, Zenon
  <2>2. y \o (z \o x) = (y \o z) \o x
    BY ONLY Associative, SMTT(30)
  <2>. QED
    BY <2>1, <2>2
<1>3. ASSUME NEW c \in Token, NEW d \in Token, NEW e \in Token
      PROVE  (<<c, d>> \o x) \o <<e>> = <<c>> \o ((<<d>> \o x) \o <<e>>)
  <2>1. PICK y \in Seq(Token), z \in Seq(Token), u \in Seq(Token) :
           y = <<c>> /\ z = <<d>> \o x /\ u = <<e>>
    <3>1. <<c>> \in Seq(Token) /\ <<d>> \o x \in Seq(Token) /\ <<e>> \in Seq(Token)
      OBVIOUS
    <3>. QED
      BY <3>1, Zenon
  <2>2. y \o (z \o u) = (y \o z) \o u
    BY ONLY Associative, SMTT(30)
  <2>. QED
    BY <1>2, <2>1, <2>2
<1>. QED
  BY <1>1, <1>2, <1>3 DEF slashed, colon, brace

\* A placeholder with braces is not that of another key.
LEMMA OtherBrace ==
    ASSUME NEW name \in Seq(Words), NEW key \in Seq(Words), key # name, NEW new \in Seq(Token)
    PROVE  Becomes(slashed(brace(name)), brace(key), new, slashed(brace(name)))
<1>. DEFINE x == slashed(brace(name))
            old == brace(key)
            n == Len(name)
            m == Len(key)
<1>1. /\ n \in Nat /\ \A i \in 1 .. n : name[i] \in Words
      /\ m \in Nat /\ \A i \in 1 .. m : key[i] \in Words
      /\ name \in Seq(Token) /\ key \in Seq(Token)
  BY WordsAreTexts
<1>2. /\ brace(name) \in Seq(Token) /\ Len(brace(name)) = n + 2
      /\ brace(name)[1] = "{" /\ brace(name)[n + 2] = "}"
      /\ \A i \in 1 .. n : brace(name)[i + 1] = name[i]
  BY <1>1, BraceTokens
<1>3. /\ old \in Seq(Token) /\ Len(old) = m + 2
      /\ old[1] = "{" /\ old[m + 2] = "}" /\ \A i \in 1 .. m : old[i + 1] = key[i]
  BY <1>1, BraceTokens
<1>4. /\ IsSegment(x) /\ x \in Seq(Token) /\ Len(x) = n + 3
      /\ x[1] = "/" /\ \A i \in 1 .. n + 2 : x[i + 1] = brace(name)[i]
  <2>1. /\ IsSegment(x) /\ x \in Seq(Token) /\ Len(x) = Len(brace(name)) + 1
        /\ x[1] = "/" /\ \A i \in 1 .. Len(brace(name)) : x[i + 1] = brace(name)[i]
    BY <1>2, SlashedTokens
  <2>2. (n + 2) + 1 = n + 3
    BY <1>1
  <2>. HIDE DEF x
  <2>. QED
    BY <1>2, <2>1, <2>2
<1>. HIDE DEF x, old, n, m
<1>5. x[2] = "{" /\ x[n + 3] = "}" /\ \A i \in 1 .. n : x[i + 2] = name[i]
  <2>1. 1 \in 1 .. n + 2 /\ n + 2 \in 1 .. n + 2 /\ 1 + 1 = 2 /\ (n + 2) + 1 = n + 3
    BY <1>1
  <2>2. \A i \in 1 .. n : i + 1 \in 1 .. n + 2 /\ (i + 1) + 1 = i + 2
    BY <1>1
  <2>3. \A i \in 1 .. n : x[i + 2] = brace(name)[i + 1]
    BY <1>4, <2>2
  <2>. QED
    BY <1>2, <1>4, <2>1, <2>3
<1>6. ASSUME NEW rest \in Rests, NEW i \in 1 .. Len(x) PROVE ~ startsAt(x \o rest, old, i)
  <2>. DEFINE y == x \o rest
  <2>1. \A j \in 1 .. n + 3 : y[j] = x[j]
    <3>1. rest \in Seq(Token) /\ Len(rest) \in Nat
      BY LenProperties DEF Rests
    <3>. QED
      BY <1>1, <1>4, <3>1, ConcatProperties
  <2>. HIDE DEF y
  <2>2. SUFFICES ASSUME startsAt(y, old, i) PROVE FALSE
    BY DEF y
  <2>3. \A j \in 1 .. m + 2 : y[i + j - 1] = old[j]
    BY <1>3, <2>2 DEF startsAt
  <2>4. i \in 1 .. n + 3 /\ i + 1 - 1 = i
    BY <1>1, <1>4
  <2>5. x[i] = "{"
    <3>1. 1 \in 1 .. m + 2
      BY <1>1
    <3>. QED
      BY <1>3, <2>1, <2>3, <2>4, <3>1
  <2>6. i = 2
    <3>1. i = 1 \/ i = 2 \/ i = n + 3 \/ (i - 2 \in 1 .. n /\ (i - 2) + 2 = i)
      BY <1>1, <2>4
    <3>. QED
      BY <1>1, <1>4, <1>5, <2>5, <3>1 DEF Words
  <2>7. \A j \in 1 .. m + 2 : y[j + 1] = old[j]
    <3>1. \A j \in 1 .. m + 2 : 2 + j - 1 = j + 1
      BY <1>1
    <3>. QED
      BY <2>3, <2>6, <3>1
  <2>8. CASE m < n
    <3>1. m + 2 \in 1 .. m + 2 /\ (m + 2) + 1 = (m + 1) + 2 /\ m + 1 \in 1 .. n
          /\ (m + 1) + 2 \in 1 .. n + 3
      BY <1>1, <2>8
    <3>2. name[m + 1] = "}"
      BY <1>3, <1>5, <2>1, <2>7, <3>1
    <3>. QED
      BY <1>1, <3>1, <3>2 DEF Words
  <2>9. CASE n < m
    <3>1. n + 2 \in 1 .. m + 2 /\ (n + 2) + 1 = n + 3 /\ n + 1 \in 1 .. m
          /\ n + 3 \in 1 .. n + 3 /\ (n + 1) + 1 = n + 2
      BY <1>1, <2>9
    <3>2. old[n + 2] = key[n + 1] /\ old[n + 2] = "}"
      BY <1>3, <1>5, <2>1, <2>7, <3>1
    <3>. QED
      BY <1>1, <3>1, <3>2 DEF Words
  <2>10. CASE n = m
    <3>1. ASSUME NEW j \in 1 .. m PROVE key[j] = name[j]
      <4>1. j + 1 \in 1 .. m + 2 /\ (j + 1) + 1 = j + 2 /\ j + 2 \in 1 .. n + 3 /\ j \in 1 .. n
        BY <1>1, <2>10
      <4>. QED
        BY <1>3, <1>5, <2>1, <2>7, <4>1
    <3>. QED
      BY <1>1, <2>10, <3>1, key # name, SeqEqual DEF n, m
  <2>. QED
    BY <1>1, <2>8, <2>9, <2>10
<1>7. Len(old) >= 1
  <2>1. m + 2 >= 1
    BY <1>1
  <2>. QED
    BY <1>3, <2>1
<1>. QED
  BY <1>3, <1>4, <1>6, <1>7, SegmentSkipped DEF x, old

\* A placeholder with a colon is not that of a key that its name does not start with.
LEMMA OtherColon ==
    ASSUME NEW name \in Seq(Words), NEW key \in Seq(Words), ~ IsPrefix(key, name),
           NEW new \in Seq(Token)
    PROVE  Becomes(slashed(colon(name)), colon(key), new, slashed(colon(name)))
<1>. DEFINE x == slashed(colon(name))
            old == colon(key)
            n == Len(name)
            m == Len(key)
<1>1. /\ n \in Nat /\ \A i \in 1 .. n : name[i] \in Words
      /\ m \in Nat /\ \A i \in 1 .. m : key[i] \in Words
      /\ name \in Seq(Token) /\ key \in Seq(Token)
  BY WordsAreTexts
<1>2. /\ colon(name) \in Seq(Token) /\ Len(colon(name)) = n + 1
      /\ colon(name)[1] = ":"
      /\ \A i \in 1 .. n : colon(name)[i + 1] = name[i]
  BY <1>1, ColonTokens
<1>3. /\ old \in Seq(Token) /\ Len(old) = m + 1
      /\ old[1] = ":" /\ \A i \in 1 .. m : old[i + 1] = key[i]
  BY <1>1, ColonTokens
<1>4. /\ IsSegment(x) /\ x \in Seq(Token) /\ Len(x) = n + 2
      /\ x[1] = "/" /\ \A i \in 1 .. n + 1 : x[i + 1] = colon(name)[i]
  <2>1. /\ IsSegment(x) /\ x \in Seq(Token) /\ Len(x) = Len(colon(name)) + 1
        /\ x[1] = "/" /\ \A i \in 1 .. Len(colon(name)) : x[i + 1] = colon(name)[i]
    BY <1>2, SlashedTokens
  <2>2. (n + 1) + 1 = n + 2
    BY <1>1
  <2>. HIDE DEF x
  <2>. QED
    BY <1>2, <2>1, <2>2
<1>. HIDE DEF x, old, n, m
<1>5. x[2] = ":" /\ \A i \in 1 .. n : x[i + 2] = name[i]
  <2>1. 1 \in 1 .. n + 1 /\ 1 + 1 = 2
    BY <1>1
  <2>2. \A i \in 1 .. n : i + 1 \in 1 .. n + 1 /\ (i + 1) + 1 = i + 2
    BY <1>1
  <2>3. \A i \in 1 .. n : x[i + 2] = colon(name)[i + 1]
    BY <1>4, <2>2
  <2>. QED
    BY <1>2, <1>4, <2>1, <2>3
<1>6. ASSUME NEW rest \in Rests, NEW i \in 1 .. Len(x) PROVE ~ startsAt(x \o rest, old, i)
  <2>. DEFINE y == x \o rest
  <2>1. /\ \A j \in 1 .. n + 2 : y[j] = x[j]
        /\ Len(y) = n + 2 + Len(rest) /\ Len(rest) \in Nat
        /\ Len(rest) >= 1 => y[n + 3] = "/"
    <3>1. rest \in Seq(Token) /\ Len(rest) \in Nat /\ (Len(rest) >= 1 => rest[1] = "/")
      BY LenProperties DEF Rests
    <3>2. (n + 3) - (n + 2) = 1 /\ ~ (n + 3 <= n + 2)
      BY <1>1
    <3>3. Len(rest) >= 1 => n + 3 \in 1 .. (n + 2) + Len(rest)
      BY <1>1, <3>1
    <3>4. /\ Len(y) = (n + 2) + Len(rest)
          /\ \A j \in 1 .. (n + 2) + Len(rest) :
                y[j] = IF j <= n + 2 THEN x[j] ELSE rest[j - (n + 2)]
      <4>1. /\ Len(y) = Len(x) + Len(rest)
            /\ \A j \in 1 .. Len(x) + Len(rest) :
                  y[j] = IF j <= Len(x) THEN x[j] ELSE rest[j - Len(x)]
        BY <1>4, <3>1, ConcatProperties
      <4>. QED
        BY <1>4, <4>1
    <3>5. \A j \in 1 .. n + 2 : j \in 1 .. (n + 2) + Len(rest) /\ j <= n + 2
      BY <1>1, <3>1
    <3>. HIDE DEF y
    <3>6. Len(rest) >= 1 => y[n + 3] = rest[1]
      BY <3>2, <3>3, <3>4
    <3>7. \A j \in 1 .. n + 2 : y[j] = x[j]
      BY <3>4, <3>5
    <3>. QED
      BY <3>1, <3>4, <3>6, <3>7
  <2>. HIDE DEF y
  <2>2. SUFFICES ASSUME startsAt(y, old, i) PROVE FALSE
    BY DEF y
  <2>3. i + (m + 1) - 1 <= Len(y) /\ \A j \in 1 .. m + 1 : y[i + j - 1] = old[j]
    BY <1>3, <2>2 DEF startsAt
  <2>4. i \in 1 .. n + 2 /\ i + 1 - 1 = i
    BY <1>1, <1>4
  <2>5. x[i] = ":"
    <3>1. 1 \in 1 .. m + 1
      BY <1>1
    <3>. QED
      BY <1>3, <2>1, <2>3, <2>4, <3>1
  <2>6. i = 2
    <3>1. i = 1 \/ i = 2 \/ (i - 2 \in 1 .. n /\ (i - 2) + 2 = i)
      BY <1>1, <2>4
    <3>. QED
      BY <1>1, <1>4, <1>5, <2>5, <3>1 DEF Words
  <2>7. \A j \in 1 .. m : y[j + 2] = key[j]
    <3>1. \A j \in 1 .. m : j + 1 \in 1 .. m + 1 /\ 2 + (j + 1) - 1 = j + 2
      BY <1>1
    <3>. QED
      BY <1>3, <2>3, <2>6, <3>1
  <2>8. CASE n < m
    <3>1. n + 1 \in 1 .. m /\ (n + 1) + 2 = n + 3
      BY <1>1, <2>8
    <3>2. Len(rest) >= 1
      BY <1>1, <2>1, <2>3, <2>6, <2>8
    <3>3. key[n + 1] = "/"
      BY <2>1, <2>7, <3>1, <3>2
    <3>. QED
      BY <1>1, <3>1, <3>3 DEF Words
  <2>9. CASE m <= n
    <3>1. \A j \in 1 .. m : j \in 1 .. n /\ j + 2 \in 1 .. n + 2
      BY <1>1, <2>9
    <3>2. \A j \in 1 .. m : key[j] = name[j]
      BY <1>5, <2>1, <2>7, <3>1
    <3>3. SubSeq(key, 1, m) = SubSeq(name, 1, m)
      <4>1. \A j \in 1 .. m : key[j] \in Token /\ name[j] \in Token
        BY <1>1, <3>1 DEF Words
      <4>2. /\ SubSeq(key, 1, m) \in Seq(Token) /\ Len(SubSeq(key, 1, m)) = m
            /\ \A j \in 1 .. m : SubSeq(key, 1, m)[j] = key[j]
        BY <1>1, <4>1, SubSeqProperties
      <4>3. /\ SubSeq(name, 1, m) \in Seq(Token) /\ Len(SubSeq(name, 1, m)) = m
            /\ \A j \in 1 .. m : SubSeq(name, 1, m)[j] = name[j]
        BY <1>1, <4>1, SubSeqProperties
      <4>. QED
        BY <3>2, <4>2, <4>3, SeqEqual
    <3>. QED
      BY <2>9, <3>3 DEF IsPrefix, n, m
  <2>. QED
    BY <1>1, <2>8, <2>9
<1>7. Len(old) >= 1
  <2>1. m + 1 >= 1
    BY <1>1
  <2>. QED
    BY <1>3, <2>1
<1>. QED
  BY <1>3, <1>4, <1>6, <1>7, SegmentSkipped DEF x, old

-------------------------------------------------------------------------------
(* The segments of a template. *)

\* The parameters of a path: keys are words, and no value has a colon.
ArePathParams(pp) ==
    \A key \in DOMAIN pp :
        /\ key \in Seq(Words) /\ pp[key] \in Seq(Token)
        /\ \A i \in 1 .. Len(pp[key]) : pp[key][i] # ":"

\* A part of a template that no key but its own can be found in.
IsPart(p, pp) ==
    /\ p.kind \in {"text", "brace", "colon"} /\ p.name \in Seq(Words)
    /\ p.kind = "colon" => \A key \in DOMAIN pp : IsPrefix(key, p.name) => key = p.name

\* A part as TemplateUrl has it, and as it is once the braces of the keys in B and the
\* colons of the keys in C have been replaced.
templateText(p) ==
    CASE p.kind = "text"  -> <<"/">> \o p.name
      [] p.kind = "brace" -> <<"/", "{">> \o p.name \o <<"}">>
      [] p.kind = "colon" -> <<"/", ":">> \o p.name

isReplaced(p, B, C) == (p.kind = "brace" /\ p.name \in B) \/ (p.kind = "colon" /\ p.name \in C)

partText(p, pp, B, C) ==
    IF isReplaced(p, B, C) THEN slashed(PathEscape(pp[p.name])) ELSE templateText(p)

\* An escaped value has no brace, and no colon unless the value has.
LEMMA EscapedTokens ==
    ASSUME NEW pp, ArePathParams(pp), NEW key \in DOMAIN pp
    PROVE  /\ PathEscape(pp[key]) \in Seq(Token)
           /\ \A i \in 1 .. Len(PathEscape(pp[key])) : PathEscape(pp[key])[i] \notin {"{", ":"}
<1>. DEFINE value == pp[key]
            n == Len(pp[key])
            esc(x) == CASE x = "{" -> "%7B" [] x = "}" -> "%7D" [] x = "/" -> "%2F" [] OTHER -> x
<1>1. value \in Seq(Token) /\ n \in Nat /\ DOMAIN value = 1 .. n
      /\ \A i \in 1 .. n : value[i] \in Token /\ value[i] # ":"
  BY LenProperties, ElementOfSeq DEF ArePathParams
<1>. HIDE DEF n, value
<1>2. ASSUME NEW x \in Token, x # ":" PROVE esc(x) \in Token /\ esc(x) \notin {"{", ":"}
  BY <1>2 DEF Token
<1>3. PathEscape(value) = [i \in 1 .. n |-> esc(value[i])]
  BY <1>1 DEF PathEscape
<1>. HIDE DEF esc
<1>4. \A i \in 1 .. n : esc(value[i]) \in Token /\ esc(value[i]) \notin {"{", ":"}
  BY <1>1, <1>2
<1>5. PathEscape(value) \in Seq(Token) /\ Len(PathEscape(value)) = n
  <2>1. PathEscape(value) \in [1 .. n -> Token]
    BY <1>3, <1>4
  <2>2. n \in Nat /\ \A f \in [1 .. n -> Token] : f \in Seq(Token) /\ Len(f) = n
    BY <1>1
  <2>. QED
    BY <2>1, <2>2
<1>. QED
  BY <1>3, <1>4, <1>5 DEF value

\* A segment stays as it is in a pass over something that starts with a token it lacks.
LEMMA SlashedKept ==
    ASSUME NEW old \in Seq(Token), Len(old) >= 1, NEW new \in Seq(Token), old[1] # "/",
           NEW x \in Seq(Token), \A i \in 1 .. Len(x) : x[i] # old[1]
    PROVE  Becomes(slashed(x), old, new, slashed(x))
<1>1. /\ IsSegment(slashed(x)) /\ Len(slashed(x)) = Len(x) + 1 /\ Len(x) \in Nat
      /\ slashed(x)[1] = "/" /\ \A i \in 1 .. Len(x) : slashed(x)[i + 1] = x[i]
  BY SlashedTokens, LenProperties
<1>2. ASSUME NEW i \in 1 .. Len(x) + 1 PROVE slashed(x)[i] # old[1]
  <2>1. i = 1 \/ (i - 1 \in 1 .. Len(x) /\ (i - 1) + 1 = i)
    BY <1>1
  <2>. QED
    BY <1>1, <2>1
<1>. QED
  BY <1>1, <1>2, SegmentKept

\* A name has neither a brace nor a colon; its placeholder has one kind only.
LEMMA PlaceholderLacks ==
    ASSUME NEW name \in Seq(Words)
    PROVE  /\ \A i \in 1 .. Len(name) : name[i] \notin {"{", ":"}
           /\ \A i \in 1 .. Len(colon(name)) : colon(name)[i] # "{"
           /\ \A i \in 1 .. Len(brace(name)) : brace(name)[i] # ":"
<1>. DEFINE n == Len(name)
<1>1. name \in Seq(Token) /\ n \in Nat /\ \A i \in 1 .. n : name[i] \notin {"{", ":"}
  BY WordsAreTexts DEF Words
<1>2. Len(colon(name)) = n + 1 /\ colon(name)[1] = ":" /\ \A i \in 1 .. n : colon(name)[i + 1] = name[i]
  BY <1>1, ColonTokens
<1>3. /\ Len(brace(name)) = n + 2 /\ brace(name)[1] = "{" /\ brace(name)[n + 2] = "}"
      /\ \A i \in 1 .. n : brace(name)[i + 1] = name[i]
  BY <1>1, BraceTokens
<1>0. n \in Nat
  BY <1>1
<1>. HIDE DEF n
<1>4. ASSUME NEW i \in 1 .. n + 1 PROVE colon(name)[i] # "{"
  <2>1. i = 1 \/ (i - 1 \in 1 .. n /\ (i - 1) + 1 = i)
    BY <1>0
  <2>. QED
    BY <1>1, <1>2, <2>1
<1>5. ASSUME NEW i \in 1 .. n + 2 PROVE brace(name)[i] # ":"
  <2>1. i = 1 \/ i = n + 2 \/ (i - 1 \in 1 .. n /\ (i - 1) + 1 = i)
    BY <1>0
  <2>. QED
    BY <1>1, <1>3, <2>1
<1>. QED
  BY <1>1, <1>2, <1>3, <1>4, <1>5 DEF n

\* The three kinds of part.
LEMMA TemplateTexts ==
    ASSUME NEW pp, NEW p, IsPart(p, pp)
    PROVE  \/ p.kind = "text" /\ templateText(p) = slashed(p.name)
           \/ p.kind = "brace" /\ templateText(p) = slashed(brace(p.name))
           \/ p.kind = "colon" /\ templateText(p) = slashed(colon(p.name))
<1>1. p.name \in Seq(Token) /\ p.kind \in {"text", "brace", "colon"}
  BY WordsAreTexts DEF IsPart
<1>2. /\ <<"/", ":">> \o p.name = slashed(colon(p.name))
      /\ <<"/", "{">> \o p.name \o <<"}">> = slashed(brace(p.name))
      /\ <<"/">> \o p.name = slashed(p.name)
  BY <1>1, SlashedPlaceholders DEF slashed
<1>3. CASE p.kind = "text"
  BY <1>2, <1>3 DEF templateText
<1>4. CASE p.kind = "brace"
  BY <1>2, <1>4 DEF templateText
<1>5. CASE p.kind = "colon"
  BY <1>2, <1>5 DEF templateText
<1>. QED
  BY <1>1, <1>3, <1>4, <1>5

\* What the first pass of a key, which replaces the braces, makes of a part.
LEMMA PartBracePass ==
    ASSUME NEW pp, ArePathParams(pp), NEW p, IsPart(p, pp),
           NEW B \in SUBSET DOMAIN pp, NEW C \in SUBSET DOMAIN pp, NEW key \in DOMAIN pp
    PROVE  Becomes(partText(p, pp, B, C), brace(key), PathEscape(pp[key]),
                   partText(p, pp, B \cup {key}, C))
<1>. DEFINE old == brace(key)
            new == PathEscape(pp[key])
<1>1. key \in Seq(Words) /\ key \in Seq(Token) /\ Len(key) \in Nat /\ new \in Seq(Token)
  BY WordsAreTexts, EscapedTokens DEF ArePathParams
<1>2. old \in Seq(Token) /\ Len(old) >= 1 /\ old[1] = "{"
  <2>1. old \in Seq(Token) /\ Len(old) = Len(key) + 2 /\ old[1] = "{"
    BY <1>1, BraceTokens
  <2>2. Len(key) + 2 >= 1
    BY <1>1
  <2>. QED
    BY <2>1, <2>2
<1>3. p.name \in Seq(Words) /\ p.name \in Seq(Token)
  BY WordsAreTexts DEF IsPart
<1>4. brace(p.name) \in Seq(Token) /\ colon(p.name) \in Seq(Token)
  BY <1>3, BraceTokens, ColonTokens
<1>5. CASE isReplaced(p, B, C)
  <2>1. p.name \in DOMAIN pp
    BY <1>5 DEF isReplaced
  <2>2. /\ PathEscape(pp[p.name]) \in Seq(Token)
        /\ \A i \in 1 .. Len(PathEscape(pp[p.name])) : PathEscape(pp[p.name])[i] # "{"
    BY <2>1, EscapedTokens
  <2>3. partText(p, pp, B, C) = slashed(PathEscape(pp[p.name]))
        /\ partText(p, pp, B \cup {key}, C) = slashed(PathEscape(pp[p.name]))
    BY <1>5 DEF partText, isReplaced
  <2>. HIDE DEF old, new
  <2>4. Becomes(slashed(PathEscape(pp[p.name])), old, new, slashed(PathEscape(pp[p.name])))
    BY <1>1, <1>2, <2>2, SlashedKept
  <2>. QED
    BY <2>3, <2>4 DEF old, new
<1>6. CASE ~ isReplaced(p, B, C) /\ p.kind = "brace" /\ p.name = key
  <2>1. /\ partText(p, pp, B, C) = slashed(brace(key))
        /\ partText(p, pp, B \cup {key}, C) = slashed(PathEscape(pp[key]))
    BY <1>6, TemplateTexts DEF partText, isReplaced
  <2>. HIDE DEF old, new
  <2>2. Becomes(<<"/">> \o old, old, new, <<"/">> \o new)
    BY <1>1, <1>2, SegmentReplaced
  <2>. QED
    BY <2>1, <2>2 DEF old, new, slashed
<1>7. CASE ~ isReplaced(p, B, C) /\ ~ (p.kind = "brace" /\ p.name = key)
  <2>1. /\ partText(p, pp, B, C) = templateText(p)
        /\ partText(p, pp, B \cup {key}, C) = templateText(p)
    BY <1>7 DEF partText, isReplaced
  <2>2. /\ \A i \in 1 .. Len(p.name) : p.name[i] # "{"
        /\ \A i \in 1 .. Len(colon(p.name)) : colon(p.name)[i] # "{"
    BY <1>3, PlaceholderLacks
  <2>. HIDE DEF old, new
  <2>3. /\ Becomes(slashed(p.name), old, new, slashed(p.name))
        /\ Becomes(slashed(colon(p.name)), old, new, slashed(colon(p.name)))
    BY <1>1, <1>2, <1>3, <1>4, <2>2, SlashedKept
  <2>4. p.kind = "brace" => Becomes(slashed(brace(p.name)), old, new, slashed(brace(p.name)))
    BY <1>1, <1>3, <1>7, OtherBrace DEF old
  <2>5. Becomes(templateText(p), old, new, templateText(p))
    BY <2>3, <2>4, TemplateTexts
  <2>. QED
    BY <2>1, <2>5 DEF old, new
<1>. QED
  BY <1>5, <1>6, <1>7

\* The second pass, which replaces the colons.
LEMMA PartColonPass ==
    ASSUME NEW pp, ArePathParams(pp), NEW p, IsPart(p, pp),
           NEW B \in SUBSET DOMAIN pp, NEW C \in SUBSET DOMAIN pp, NEW key \in DOMAIN pp
    PROVE  Becomes(partText(p, pp, B, C), colon(key), PathEscape(pp[key]),
                   partText(p, pp, B, C \cup {key}))
<1>. DEFINE old == colon(key)
            new == PathEscape(pp[key])
<1>1. key \in Seq(Words) /\ key \in Seq(Token) /\ Len(key) \in Nat /\ new \in Seq(Token)
  BY WordsAreTexts, EscapedTokens DEF ArePathParams
<1>2. old \in Seq(Token) /\ Len(old) >= 1 /\ old[1] = ":"
  BY <1>1, ColonTokens
<1>3. p.name \in Seq(Words) /\ p.name \in Seq(Token)
  BY WordsAreTexts DEF IsPart
<1>4. brace(p.name) \in Seq(Token) /\ colon(p.name) \in Seq(Token)
  BY <1>3, BraceTokens, ColonTokens
<1>5. CASE isReplaced(p, B, C)
  <2>1. p.name \in DOMAIN pp
    BY <1>5 DEF isReplaced
  <2>2. /\ PathEscape(pp[p.name]) \in Seq(Token)
        /\ \A i \in 1 .. Len(PathEscape(pp[p.name])) : PathEscape(pp[p.name])[i] # ":"
    BY <2>1, EscapedTokens
  <2>3. partText(p, pp, B, C) = slashed(PathEscape(pp[p.name]))
        /\ partText(p, pp, B, C \cup {key}) = slashed(PathEscape(pp[p.name]))
    BY <1>5 DEF partText, isReplaced
  <2>. HIDE DEF old, new
  <2>4. Becomes(slashed(PathEscape(pp[p.name])), old, new, slashed(PathEscape(pp[p.name])))
    BY <1>1, <1>2, <2>2, SlashedKept
  <2>. QED
    BY <2>3, <2>4 DEF old, new
<1>6. CASE ~ isReplaced(p, B, C) /\ p.kind = "colon" /\ p.name = key
  <2>1. /\ partText(p, pp, B, C) = slashed(colon(key))
        /\ partText(p, pp, B, C \cup {key}) = slashed(PathEscape(pp[key]))
    BY <1>6, TemplateTexts DEF partText, isReplaced
  <2>. HIDE DEF old, new
  <2>2. Becomes(<<"/">> \o old, old, new, <<"/">> \o new)
    BY <1>1, <1>2, SegmentReplaced
  <2>. QED
    BY <2>1, <2>2 DEF old, new, slashed
<1>7. CASE ~ isReplaced(p, B, C) /\ ~ (p.kind = "colon" /\ p.name = key)
  <2>1. /\ partText(p, pp, B, C) = templateText(p)
        /\ partText(p, pp, B, C \cup {key}) = templateText(p)
    BY <1>7 DEF partText, isReplaced
  <2>2. /\ \A i \in 1 .. Len(p.name) : p.name[i] # ":"
        /\ \A i \in 1 .. Len(brace(p.name)) : brace(p.name)[i] # ":"
    BY <1>3, PlaceholderLacks
  <2>. HIDE DEF old, new
  <2>3. /\ Becomes(slashed(p.name), old, new, slashed(p.name))
        /\ Becomes(slashed(brace(p.name)), old, new, slashed(brace(p.name)))
    BY <1>1, <1>2, <1>3, <1>4, <2>2, SlashedKept
  <2>4. p.kind = "colon" => Becomes(slashed(colon(p.name)), old, new, slashed(colon(p.name)))
    <3>1. p.kind = "colon" => ~ IsPrefix(key, p.name)
      BY <1>7 DEF IsPart
    <3>. QED
      BY <1>1, <1>3, <3>1, OtherColon DEF old
  <2>5. Becomes(templateText(p), old, new, templateText(p))
    BY <2>3, <2>4, TemplateTexts
  <2>. QED
    BY <2>1, <2>5 DEF old, new
<1>. QED
  BY <1>5, <1>6, <1>7

-------------------------------------------------------------------------------
(* replacePathParams. *)

\* A range visits every key of a finite map.
LEMMA VisitsAll ==
    ASSUME NEW D, IsFiniteSet(D), NEW order \in SetToSeqs(D)
    PROVE  /\ Cardinality(D) \in Nat
           /\ DOMAIN order = 1 .. Cardinality(D)
           /\ \A i \in 1 .. Cardinality(D) : order[i] \in D
           /\ \A k \in D : \E i \in 1 .. Cardinality(D) : order[i] = k
<1>. DEFINE n == Cardinality(D)
<1>1. n \in Nat
  BY FS_CardinalityType
<1>2. order \in [1 .. n -> D] /\ \A i, j \in 1 .. n : i # j => order[i] # order[j]
  BY Zenon DEF SetToSeqs
<1>3. ASSUME NEW k \in D, \A i \in 1 .. n : order[i] # k PROVE FALSE
  <2>. DEFINE rest == D \ {k}
  <2>1. IsFiniteSet(rest) /\ Cardinality(rest) = n - 1
    BY FS_RemoveElement
  <2>2. IsFiniteSet(1 .. n) /\ Cardinality(1 .. n) = n
    BY <1>1, FS_Interval, 1 \in Int
  <2>3. order \in [1 .. n -> rest]
    BY <1>2, <1>3
  <2>. HIDE DEF rest, n
  <2>4. Cardinality(rest) < Cardinality(1 .. n)
    BY <1>1, <2>1, <2>2
  <2>5. \E i, j \in 1 .. n : i # j /\ order[i] = order[j]
    BY <2>1, <2>2, <2>3, <2>4, FS_PigeonHole
  <2>. QED
    BY <1>2, <2>5
<1>. QED
  BY <1>1, <1>2, <1>3

\* A template in which only the key of a placeholder can be found.
IsTemplate(template, pp) ==
    /\ \E n \in Nat : DOMAIN template = 1 .. n
    /\ ArePathParams(pp) /\ \A i \in DOMAIN template : IsPart(template[i], pp)

\* The path once the braces of the keys in B and the colons of those in C are replaced.
pathText(template, pp, B, C) ==
    FlattenSeq([i \in DOMAIN template |-> partText(template[i], pp, B, C)])

\* The loop of replacePathParams.
replaceKey(s, pp, key) ==
    ReplaceEvery(ReplaceEvery(s, <<"{">> \o key \o <<"}">>, PathEscape(pp[key])),
                 <<":">> \o key, PathEscape(pp[key]))

\* One more key.
LEMMA KeyReplaced ==
    ASSUME NEW template, NEW pp, IsTemplate(template, pp),
           NEW T \in SUBSET DOMAIN pp, NEW key \in DOMAIN pp
    PROVE  replaceKey(pathText(template, pp, T, T), pp, key)
               = pathText(template, pp, T \cup {key}, T \cup {key})
<1>. DEFINE K == T \cup {key}
            a == [i \in DOMAIN template |-> partText(template[i], pp, T, T)]
            b == [i \in DOMAIN template |-> partText(template[i], pp, K, T)]
            c == [i \in DOMAIN template |-> partText(template[i], pp, K, K)]
            new == PathEscape(pp[key])
<1>1. PICK n \in Nat : DOMAIN template = 1 .. n
  BY DEF IsTemplate
<1>2. ArePathParams(pp) /\ \A i \in 1 .. n : IsPart(template[i], pp)
  BY <1>1 DEF IsTemplate
<1>3. key \in Seq(Words) /\ key \in Seq(Token) /\ Len(key) \in Nat /\ new \in Seq(Token)
  BY <1>2, WordsAreTexts, EscapedTokens DEF ArePathParams
<1>4. /\ brace(key) \in Seq(Token) /\ Len(brace(key)) = Len(key) + 2
      /\ colon(key) \in Seq(Token) /\ Len(colon(key)) = Len(key) + 1
  BY <1>3, BraceTokens, ColonTokens
<1>5. Len(key) + 2 >= 1 /\ Len(key) + 1 >= 1
  BY <1>3
<1>6. K \in SUBSET DOMAIN pp
  OBVIOUS
<1>7. AllBecome(n, a, brace(key), new, b)
  <2>1. ASSUME NEW i \in 1 .. n PROVE Becomes(a[i], brace(key), new, b[i])
    BY <1>1, <1>2, PartBracePass
  <2>. HIDE DEF new
  <2>. QED
    BY <1>1, <2>1 DEF AllBecome
<1>8. AllBecome(n, b, colon(key), new, c)
  <2>. HIDE DEF K
  <2>1. ASSUME NEW i \in 1 .. n
        PROVE  Becomes(partText(template[i], pp, K, T), colon(key), new,
                       partText(template[i], pp, K, T \cup {key}))
    BY <1>2, <1>6, PartColonPass
  <2>2. K = T \cup {key}
    BY DEF K
  <2>3. ASSUME NEW i \in 1 .. n PROVE Becomes(b[i], colon(key), new, c[i])
    <3>1. b[i] = partText(template[i], pp, K, T) /\ c[i] = partText(template[i], pp, K, K)
      BY <1>1
    <3>. HIDE DEF b, c, new
    <3>. QED
      BY <2>1, <2>2, <3>1
  <2>. HIDE DEF new
  <2>. QED
    BY <1>1, <2>3 DEF AllBecome
<1>9. FlattenSeq(a) = pathText(template, pp, T, T) /\ FlattenSeq(c) = pathText(template, pp, K, K)
  BY DEF pathText
<1>. HIDE DEF a, b, c, new
<1>10. ReplaceEvery(FlattenSeq(a), brace(key), new) = FlattenSeq(b)
  BY <1>3, <1>4, <1>5, <1>7, ReplaceSegments
<1>11. ReplaceEvery(FlattenSeq(b), colon(key), new) = FlattenSeq(c)
  BY <1>3, <1>4, <1>5, <1>8, ReplaceSegments
<1>12. replaceKey(FlattenSeq(a), pp, key) = FlattenSeq(c)
  BY <1>10, <1>11 DEF replaceKey, brace, colon, new
<1>. QED
  BY <1>9, <1>12

\* The keys at the positions t of an order.
visited(order, t) == {order[i] : i \in t}

VisitsOnly(order, n, pp) == n \in Nat /\ \A i \in 1 .. n : order[i] \in DOMAIN pp

\* The recursion of replacePathParams, over the sets of positions, and its solution.
keyLoop(url, pp, order, n, g) ==
    [t \in SUBSET (1 .. n) |-> IF t = {} THEN url
                               ELSE replaceKey(g[t \ {Max(t)}], pp, order[Max(t)])]

keySolution(template, pp, order, n) ==
    [t \in SUBSET (1 .. n) |-> pathText(template, pp, visited(order, t), visited(order, t))]

\* Before any key is visited the path is the template.
LEMMA NothingVisited ==
    ASSUME NEW template, NEW pp, NEW order
    PROVE  pathText(template, pp, visited(order, {}), visited(order, {})) = TemplateUrl(template)
<1>1. visited(order, {}) = {}
  BY DEF visited
<1>2. \A p : partText(p, pp, {}, {}) = templateText(p)
  BY DEF partText, isReplaced
<1>. QED
  BY <1>1, <1>2, Zenon DEF pathText, TemplateUrl, templateText

\* What the loop makes of the path with the last key it visits.
LEMMA VisitOne ==
    ASSUME NEW template, NEW pp, IsTemplate(template, pp),
           NEW order, NEW n, VisitsOnly(order, n, pp), NEW t \in SUBSET (1 .. n), t # {}
    PROVE  pathText(template, pp, visited(order, t), visited(order, t)) =
               replaceKey(pathText(template, pp, visited(order, t \ {Max(t)}),
                                   visited(order, t \ {Max(t)})), pp, order[Max(t)])
<1>. DEFINE m == Max(t)
            T == visited(order, t \ {m})
            key == order[m]
<1>1. n \in Nat /\ m \in t
  BY LastOfPositions DEF VisitsOnly
<1>. HIDE DEF m
<1>2. T \in SUBSET DOMAIN pp /\ key \in DOMAIN pp /\ visited(order, t) = T \cup {key}
  BY <1>1 DEF VisitsOnly, visited
<1>. HIDE DEF T, key
<1>3. replaceKey(pathText(template, pp, T, T), pp, key)
          = pathText(template, pp, T \cup {key}, T \cup {key})
  BY <1>2, KeyReplaced
<1>. QED
  BY <1>2, <1>3 DEF T, key, m

\* The path after each set of positions solves the recursion.
LEMMA KeySolves ==
    ASSUME NEW template, NEW pp, IsTemplate(template, pp),
           NEW order, NEW n, VisitsOnly(order, n, pp)
    PROVE  keySolution(template, pp, order, n) =
               keyLoop(TemplateUrl(template), pp, order, n, keySolution(template, pp, order, n))
<1>. DEFINE at(t) == pathText(template, pp, visited(order, t), visited(order, t))
<1>1. at({}) = TemplateUrl(template)
  BY NothingVisited
<1>2. ASSUME NEW t \in SUBSET (1 .. n), t # {}
      PROVE  at(t) = replaceKey(at(t \ {Max(t)}), pp, order[Max(t)])
  BY <1>2, VisitOne
<1>3. \A t \in SUBSET (1 .. n) : t \ {Max(t)} \in SUBSET (1 .. n)
  OBVIOUS
<1>4. keySolution(template, pp, order, n) = [t \in SUBSET (1 .. n) |-> at(t)]
  BY DEF keySolution
<1>. HIDE DEF at
<1>. QED
  BY <1>1, <1>2, <1>3, <1>4 DEF keyLoop

\* What the range over the map has made of the URL when it has visited n keys.
LEMMA PathAfterKeys ==
    ASSUME NEW template, NEW pp, IsTemplate(template, pp),
           NEW order, NEW n, VisitsOnly(order, n, pp), DOMAIN order = 1 .. n
    PROVE  replacePathParams(TemplateUrl(template), pp, order) =
               pathText(template, pp, visited(order, 1 .. n), visited(order, 1 .. n))
<1>. DEFINE url == TemplateUrl(template)
            at(t) == pathText(template, pp, visited(order, t), visited(order, t))
            loop == CHOOSE g : g = keyLoop(url, pp, order, n, g)
            S == {k \in Nat : k <= n => loop[1 .. k] = at(1 .. k)}
<1>0. n \in Nat
  BY DEF VisitsOnly
<1>1. replacePathParams(url, pp, order) = loop[1 .. n]
  <2>. HIDE DEF url
  <2>. QED
    BY Zenon DEF replacePathParams, keyLoop, replaceKey, FoldLeft, MapThenFoldSet
<1>2. loop = keyLoop(url, pp, order, n, loop)
  BY KeySolves, Zenon
<1>3. ASSUME NEW t \in SUBSET (1 .. n), t # {}
      PROVE  at(t) = replaceKey(at(t \ {Max(t)}), pp, order[Max(t)])
  BY ONLY <1>3, VisitOne, IsTemplate(template, pp), VisitsOnly(order, n, pp)
<1>. HIDE DEF loop
<1>4. 0 \in S
  <2>1. 1 .. 0 = {} /\ {} \in SUBSET (1 .. n)
    OBVIOUS
  <2>2. loop[{}] = url
    <3>. HIDE DEF url
    <3>. QED
      BY <1>2, <2>1 DEF keyLoop
  <2>3. at({}) = url
    BY NothingVisited
  <2>. HIDE DEF at, url
  <2>. QED
    BY <2>1, <2>2, <2>3
<1>5. ASSUME NEW k \in Nat, k \in S PROVE k + 1 \in S
  <2>1. SUFFICES ASSUME k + 1 <= n PROVE loop[1 .. k + 1] = at(1 .. k + 1)
    OBVIOUS
  <2>2. /\ 1 .. k + 1 \in SUBSET (1 .. n) /\ 1 .. k + 1 # {} /\ Max(1 .. k + 1) = k + 1
        /\ (1 .. k + 1) \ {k + 1} = 1 .. k
    BY <1>0, <2>1, k + 1 \in Nat, FirstPositions, LastOfInterval
  <2>3. loop[1 .. k + 1] = replaceKey(loop[1 .. k], pp, order[k + 1])
    BY <1>2, <2>2 DEF keyLoop
  <2>4. loop[1 .. k] = at(1 .. k)
    <3>. HIDE DEF at
    <3>. QED
      BY <1>0, <1>5, <2>1
  <2>5. at(1 .. k + 1) = replaceKey(at(1 .. k), pp, order[k + 1])
    <3>1. PICK t \in SUBSET (1 .. n) : t = 1 .. k + 1 /\ t # {}
      BY <2>2
    <3>. HIDE DEF at
    <3>2. at(t) = replaceKey(at(t \ {Max(t)}), pp, order[Max(t)])
      BY <1>3, <3>1
    <3>. QED
      BY <2>2, <3>1, <3>2
  <2>. HIDE DEF at
  <2>. QED
    BY <2>3, <2>4, <2>5
<1>6. n \in S
  <2>. HIDE DEF S
  <2>. QED
    BY <1>0, <1>4, <1>5, InductiveSet
<1>. HIDE DEF at, url
<1>7. n <= n
  BY <1>0
<1>. QED
  BY <1>1, <1>6, <1>7 DEF at, url

\* What replacePathParams returns, for any template and parameters in which only the key
\* of a placeholder can be found: each placeholder that has a value is replaced by it,
\* in whatever order the range over the map visits the keys.
THEOREM PathReplaced ==
    ASSUME NEW template, NEW pp, IsTemplate(template, pp), IsFiniteSet(DOMAIN pp),
           NEW order \in SetToSeqs(DOMAIN pp)
    PROVE  replacePathParams(TemplateUrl(template), pp, order)
               = pathText(template, pp, DOMAIN pp, DOMAIN pp)
<1>. DEFINE n == Cardinality(DOMAIN pp)
<1>1. /\ n \in Nat /\ DOMAIN order = 1 .. n
      /\ \A i \in 1 .. n : order[i] \in DOMAIN pp
      /\ \A key \in DOMAIN pp : \E i \in 1 .. n : order[i] = key
  BY VisitsAll
<1>. HIDE DEF n
<1>2. VisitsOnly(order, n, pp) /\ visited(order, 1 .. n) = DOMAIN pp
  BY <1>1 DEF VisitsOnly, visited
<1>. QED
  BY <1>1, <1>2, PathAfterKeys

=================================================================================
