------------------------------ MODULE RetryProofs ------------------------------
(***************************************************************************)
(* The safety of executeWithRetry for any limit, any results and any       *)
(* RetryCondition; that the composition with the waits is the loop with    *)
(* more to see; and that no wait is longer than its limit.                 *)
(***************************************************************************)
EXTENDS RetryWaits, FiniteSetTheorems, TLAPS

-------------------------------------------------------------------------------
(* The loop. *)

\* While the loop goes on, the attempts made are below the limit; a late attempt is
\* the last one, because only an uncancelled request starts to wait.
IInv ==
    /\ TypeOK
    /\ pc = "ready" /\ maxAttempts >= 0 => attempt = 0 \/ attempt < maxAttempts
    /\ pc = "waiting" =>
        /\ announced = 1
        /\ last \in RetryResults
        /\ maxAttempts >= 0 => attempt < maxAttempts
    /\ pc \in {"inFlight", "decide", "waiting"} => attempt > 0
    /\ pc \in {"ready", "waiting"} => lateSends = 0
    /\ pc \in {"inFlight", "decide"} => lateSends = 0 \/ cancelled
    /\ AttemptsBounded
    /\ OneLateSend
    /\ RetriesAnnounced
    /\ EndsForAReason

LEMMA InitIInv == Init => IInv
BY ChoicesAssumption
   DEF Init, IInv, TypeOK, AttemptsBounded, OneLateSend, RetriesAnnounced, EndsForAReason

LEMMA SendIInv == IInv /\ Send => IInv'
<1>. SUFFICES ASSUME IInv, Send PROVE IInv'
  OBVIOUS
<1>. USE ChoicesAssumption DEF IInv, TypeOK, Send
<1>1. /\ maxAttempts \in Int
      /\ maxAttempts <= AttemptCap
  OBVIOUS
<1>2. /\ attempt' \in 1 .. AttemptCap
      /\ maxAttempts >= 0 => attempt' <= 1 \/ attempt' <= maxAttempts
  BY <1>1 DEF CountAttempt
<1>3. lateSends' \in 0 .. 1 /\ (lateSends' = 0 \/ cancelled')
  OBVIOUS
<1>4. TypeOK'
  BY <1>2, <1>3
<1>. QED
  BY <1>2, <1>3, <1>4
  DEF AttemptsBounded, OneLateSend, RetriesAnnounced, EndsForAReason

LEMMA LoopIInv == IInv /\ Loop => IInv'
<1>. SUFFICES ASSUME IInv, Loop PROVE IInv'
  OBVIOUS
<1>. USE ChoicesAssumption
     DEF IInv, TypeOK, AttemptsBounded, OneLateSend, RetriesAnnounced, EndsForAReason
<1>1. CASE Send
  BY <1>1, SendIInv
<1>2. ASSUME NEW r \in Results, Receive(r) PROVE IInv'
  BY <1>2 DEF Receive
<1>3. CASE GiveUp
  BY <1>3 DEF GiveUp, shouldRetry
<1>4. CASE Abort
  BY <1>4 DEF Abort, shouldRetry
<1>5. CASE Announce
  BY <1>5 DEF Announce, shouldRetry
<1>6. CASE TimerFires
  BY <1>6 DEF TimerFires
<1>7. CASE ContextDone
  BY <1>7 DEF ContextDone
<1>. QED
  BY <1>1, <1>2, <1>3, <1>4, <1>5, <1>6, <1>7 DEF Loop

LEMMA NextIInv == IInv /\ [Next]_vars => IInv'
<1>. SUFFICES ASSUME IInv, [Next]_vars PROVE IInv'
  OBVIOUS
<1>1. CASE Loop
  BY <1>1, LoopIInv
<1>2. CASE Cancel
  BY <1>2
  DEF Cancel, IInv, TypeOK, AttemptsBounded, OneLateSend, RetriesAnnounced, EndsForAReason
<1>3. CASE UNCHANGED vars
  BY <1>3
  DEF vars, IInv, TypeOK, AttemptsBounded, OneLateSend, RetriesAnnounced, EndsForAReason
<1>. QED
  BY <1>1, <1>2, <1>3 DEF Next

LEMMA Invariance == Spec => []IInv
BY InitIInv, NextIInv, PTL DEF Spec

-------------------------------------------------------------------------------

\* Every variable of the loop stays in its range; attempt stays within the largest
\* limit because a loop without one stops counting there.
THEOREM LoopTypeCorrect == Spec => []TypeOK
<1>1. IInv => TypeOK
  BY DEF IInv
<1>. QED
  BY <1>1, Invariance, PTL

\* No request is sent more often than its MaxAttempts allows.
THEOREM AttemptsStayBounded == Spec => []AttemptsBounded
<1>1. IInv => AttemptsBounded
  BY DEF IInv
<1>. QED
  BY <1>1, Invariance, PTL

\* A cancelled request is begun at most once more.
THEOREM AtMostOneLateSend == Spec => []OneLateSend
<1>1. IInv => OneLateSend
  BY DEF IInv
<1>. QED
  BY <1>1, Invariance, PTL

\* OnRetry is called once for each retry, and for none that is not made unless the
\* context ends.
THEOREM EachRetryAnnounced == Spec => []RetriesAnnounced
<1>1. IInv => RetriesAnnounced
  BY DEF IInv
<1>. QED
  BY <1>1, Invariance, PTL

\* The loop neither gives up early nor reports a context that has not ended.
THEOREM NeverEndsEarly == Spec => []EndsForAReason
<1>1. IInv => EndsForAReason
  BY DEF IInv
<1>. QED
  BY <1>1, Invariance, PTL

-------------------------------------------------------------------------------
(* What the operators of Backoff return. *)

USE WidthAssumption

\* A power of two is a positive natural number: it counts the subsets of a set.
LEMMA PowerPositive == ASSUME NEW n \in Nat PROVE 2 ^ n \in Nat \ {0}
<1>1. IsFiniteSet(1 .. n) /\ Cardinality(1 .. n) = n
  BY FS_Interval
<1>2. IsFiniteSet(SUBSET (1 .. n)) /\ Cardinality(SUBSET (1 .. n)) = 2 ^ n
  BY <1>1, FS_SUBSET
<1>3. SUBSET (1 .. n) # {}
  OBVIOUS
<1>. QED
  BY <1>2, <1>3, FS_EmptySet, FS_CardinalityType

\* A larger exponent does not give a smaller power.
LEMMA PowerMonotonic ==
    ASSUME NEW m \in Nat, NEW n \in Nat, m <= n
    PROVE  2 ^ m <= 2 ^ n
<1>1. /\ IsFiniteSet(1 .. m) /\ Cardinality(1 .. m) = m
      /\ IsFiniteSet(1 .. n) /\ Cardinality(1 .. n) = n
  BY FS_Interval
<1>2. /\ Cardinality(SUBSET (1 .. m)) = 2 ^ m
      /\ IsFiniteSet(SUBSET (1 .. n)) /\ Cardinality(SUBSET (1 .. n)) = 2 ^ n
  BY <1>1, FS_SUBSET
<1>3. SUBSET (1 .. m) \subseteq SUBSET (1 .. n)
  OBVIOUS
<1>. QED
  BY <1>2, <1>3, FS_Subset

\* The next power is twice as large: half of the subsets have the new element.
LEMMA PowerDoubles == ASSUME NEW n \in Nat PROVE 2 ^ (n + 1) = 2 * 2 ^ n
<1>. DEFINE without == SUBSET (1 .. n)
            with    == {s \cup {n + 1} : s \in without}
            add     == [s \in without |-> s \cup {n + 1}]
<1>1. /\ IsFiniteSet(1 .. n) /\ Cardinality(1 .. n) = n
      /\ IsFiniteSet(1 .. n + 1) /\ Cardinality(1 .. n + 1) = n + 1
  BY FS_Interval
<1>2. /\ IsFiniteSet(without) /\ Cardinality(without) = 2 ^ n
      /\ Cardinality(SUBSET (1 .. n + 1)) = 2 ^ (n + 1)
  BY <1>1, FS_SUBSET
<1>3. \A s \in without : n + 1 \notin s
  OBVIOUS
<1>4. IsFiniteSet(with) /\ Cardinality(with) = Cardinality(without)
  <2>1. \A s, t \in without : s \cup {n + 1} = t \cup {n + 1} => s = t
    BY <1>3
  <2>2. add \in [without -> with] /\ \A s \in without : add[s] = s \cup {n + 1}
    OBVIOUS
  <2>3. IsInjective(add)
    BY <2>1 DEF IsInjective
  <2>4. \A t \in with : \E s \in without : add[s] = t
    OBVIOUS
  <2>5. add \in Bijection(without, with)
    BY <2>2, <2>3, <2>4, Zenon DEF Bijection, Injection, Surjection
  <2>6. ExistsBijection(without, with)
    BY <2>5, Zenon DEF ExistsBijection
  <2>. QED
    BY <1>2, <2>6, FS_Bijection, Zenon
<1>5. without \cap with = {}
  BY <1>3
<1>6. SUBSET (1 .. n + 1) = without \cup with
  <2>1. ASSUME NEW s \in SUBSET (1 .. n + 1), n + 1 \in s PROVE s \in with
    <3>1. s \ {n + 1} \in without /\ s = (s \ {n + 1}) \cup {n + 1}
      BY <2>1
    <3>. QED
      BY <3>1
  <2>2. ASSUME NEW s \in SUBSET (1 .. n + 1), n + 1 \notin s PROVE s \in without
    BY <2>2
  <2>3. without \cup with \subseteq SUBSET (1 .. n + 1)
    <3>1. 1 .. n \subseteq 1 .. n + 1 /\ n + 1 \in 1 .. n + 1
      OBVIOUS
    <3>. QED
      BY <3>1
  <2>. QED
    BY <2>1, <2>2, <2>3
<1>7. Cardinality(without \cup with) = Cardinality(without) + Cardinality(with)
  <2>1. Cardinality(without \cup with)
            = Cardinality(without) + Cardinality(with) - Cardinality(without \cap with)
    BY <1>2, <1>4, FS_Union
  <2>2. Cardinality(without \cap with) = 0
    BY <1>5, FS_EmptySet
  <2>3. Cardinality(without) \in Nat /\ Cardinality(with) \in Nat
    BY <1>2, <1>4, FS_CardinalityType
  <2>. QED
    BY <2>1, <2>2, <2>3
<1>8. Cardinality(SUBSET (1 .. n + 1)) = 2 ^ n + 2 ^ n
  BY <1>2, <1>4, <1>6, <1>7, Zenon
<1>9. 2 ^ n \in Nat
  BY PowerPositive
<1>. QED
  BY <1>2, <1>8, <1>9

\* The wrapped value of an integer is an integer.
LEMMA WrapIsInteger == ASSUME NEW x \in Int PROVE Wrap(x) \in Int
<1>1. MinDuration \in Int /\ 2 ^ Width \in Nat \ {0}
  BY PowerPositive DEF MinDuration
<1>. QED
  BY <1>1 DEF Wrap

\* What is less than the modulus is its own remainder.
LEMMA SmallRemainder ==
    ASSUME NEW m \in Nat \ {0}, NEW x \in 0 .. m - 1
    PROVE  x % m = x
OBVIOUS

\* A product that fits a duration is not changed by the wrap.
LEMMA WrapOfWhatFits == ASSUME NEW x \in 0 .. MaxDuration PROVE Wrap(x) = x
<1>. DEFINE half == 2 ^ (Width - 1)
<1>1. half \in Nat \ {0}
  BY PowerPositive
<1>2. 2 ^ Width = 2 * half
  <2>1. Width - 1 \in Nat /\ (Width - 1) + 1 = Width
    OBVIOUS
  <2>. QED
    BY <2>1, PowerDoubles
<1>3. MinDuration = - half /\ MaxDuration = half - 1
  BY DEF MinDuration, MaxDuration
<1>. HIDE DEF half
<1>4. x + half \in 0 .. 2 * half - 1 /\ 2 * half \in Nat \ {0}
  BY <1>1, <1>3
<1>5. (x + half) % (2 * half) = x + half
  BY <1>4, SmallRemainder
<1>6. x - MinDuration = x + half
  BY <1>1, <1>3
<1>. QED
  BY <1>1, <1>2, <1>3, <1>5, <1>6 DEF Wrap

LEMMA PowersAreIntegers == ASSUME NEW n \in Int PROVE Pow2(n) \subseteq Int
  BY PowerPositive DEF Pow2, MinDuration, MaxDuration

LEMMA ConfigTypes ==
    ASSUME NEW cfg \in Configs
    PROVE  cfg.waitTime \in Nat /\ cfg.maxWaitTime \in Nat
<1>1. cfg.waitTime \in Waits /\ cfg.maxWaitTime \in Waits
  BY DEF Configs
<1>. QED
  BY <1>1

\* A capped duration is no longer than the limit, if there is one.
LEMMA CappedKeepsLimit ==
    ASSUME NEW cfg \in Configs, NEW d \in Int
    PROVE  /\ Capped(cfg, d) \in Int
           /\ cfg.maxWaitTime > 0 => Capped(cfg, d) <= cfg.maxWaitTime
  BY ConfigTypes DEF Capped

\* What a wait of a configuration must satisfy for MaxWaitKept.
WithinLimit(cfg, w) ==
    ValidateRetryConfig(cfg) /\ cfg.maxWaitTime > 0 =>
        w <= cfg.maxWaitTime \/ (cfg.waitTime = 0 /\ w = Second)

\* Each strategy keeps the limit, "fixed" because the configuration is valid.
LEMMA StrategiesKeepLimit ==
    ASSUME NEW n \in Int, NEW cfg \in Configs,
           NEW w \in ExponentialBackoff(n, cfg) \cup LinearBackoff(n, cfg) \cup FixedBackoff(n, cfg)
    PROVE  w \in Int /\ WithinLimit(cfg, w)
<1>1. cfg.waitTime \in Nat /\ cfg.maxWaitTime \in Nat
  BY ConfigTypes
<1>2. CASE cfg.waitTime = 0
  <2>1. w = Second
    BY <1>1, <1>2 DEF ExponentialBackoff, LinearBackoff, FixedBackoff
  <2>. QED
    BY <1>2, <2>1 DEF WithinLimit
<1>3. CASE cfg.waitTime > 0 /\ w \in ExponentialBackoff(n, cfg)
  <2>1. PICK p \in Pow2(n - 1) : w = Capped(cfg, Wrap(cfg.waitTime * p))
    BY <1>1, <1>3 DEF ExponentialBackoff
  <2>2. p \in Int
    BY PowersAreIntegers
  <2>3. Wrap(cfg.waitTime * p) \in Int
    BY <1>1, <2>2, WrapIsInteger
  <2>. QED
    BY <2>1, <2>3, CappedKeepsLimit DEF WithinLimit
<1>4. CASE cfg.waitTime > 0 /\ w \in LinearBackoff(n, cfg)
  <2>1. w = Capped(cfg, Wrap(cfg.waitTime * n))
    BY <1>1, <1>4 DEF LinearBackoff
  <2>2. Wrap(cfg.waitTime * n) \in Int
    BY <1>1, WrapIsInteger
  <2>. QED
    BY <2>1, <2>2, CappedKeepsLimit DEF WithinLimit
<1>5. CASE cfg.waitTime > 0 /\ w \in FixedBackoff(n, cfg)
  BY <1>1, <1>5 DEF FixedBackoff, WithinLimit, ValidateRetryConfig
<1>. QED
  BY <1>1, <1>2, <1>3, <1>4, <1>5

LEMMA WaitTimeKeepsLimit ==
    ASSUME NEW n \in Int, NEW cfg \in Configs, NEW hdr \in Headers \cup {NoHeader},
           NEW w \in getRetryWaitTime(n, cfg, hdr)
    PROVE  w \in Int /\ WithinLimit(cfg, w)
<1>1. hdr.value \in Int
  BY DEF NoHeader
<1>2. parseRetryAfterHeader(hdr) \in Int
  BY <1>1 DEF parseRetryAfterHeader
<1>3. CASE cfg.respectHeader /\ parseRetryAfterHeader(hdr) > 0
  <2>1. w = Capped(cfg, parseRetryAfterHeader(hdr))
    BY <1>3 DEF getRetryWaitTime
  <2>. QED
    BY <1>2, <2>1, CappedKeepsLimit DEF WithinLimit
<1>4. CASE ~ (cfg.respectHeader /\ parseRetryAfterHeader(hdr) > 0)
  <2>1. cfg.strategy \in {"exponential", "linear", "fixed"}
    BY DEF Configs
  <2>2. w \in ExponentialBackoff(n, cfg) \cup LinearBackoff(n, cfg) \cup FixedBackoff(n, cfg)
    BY <1>4, <2>1 DEF getRetryWaitTime
  <2>. QED
    BY <2>2, StrategiesKeepLimit
<1>. QED
  BY <1>3, <1>4

-------------------------------------------------------------------------------
(* The composition. *)

\* Every step of the composition is a step of the loop or leaves the loop alone.
LEMMA StepIsLoopStep == [WaitsNext]_<<vars, waitVars>> => [Next]_vars
<1>. SUFFICES ASSUME WaitsNext PROVE Next
  BY DEF vars
<1>1. ASSUME NEW r \in Results, ReceiveWithHeader(r) PROVE Next
  BY <1>1 DEF ReceiveWithHeader, Next, Loop
<1>2. CASE AnnounceWait
  BY <1>2 DEF AnnounceWait, Next, Loop
<1>. QED
  BY <1>1, <1>2 DEF WaitsNext, LoopWithWaits, Next, Loop

\* The composition implements RetryLoop: what is proved of the loop holds of it.
THEOREM WaitsImplementLoop == WaitsSpec => Spec
<1>1. WaitsInit => Init
  BY DEF WaitsInit
<1>. QED
  BY <1>1, StepIsLoopStep, PTL DEF WaitsSpec, Spec

\* The limit is kept in every state, which needs that the wait is a duration, the
\* header one of the headers, and the attempt a number.  An error brings no header.
WaitsInv ==
    /\ config \in Configs
    /\ header \in Headers \cup {NoHeader}
    /\ wait \in Int
    /\ attempt \in Int
    /\ WithinLimit(config, wait)
    /\ pc = "decide" /\ last.err # "none" => header = NoHeader

LEMMA WaitsInitInv == WaitsInit => WaitsInv
  BY ConfigTypes DEF WaitsInit, Init, WaitsInv, WithinLimit

LEMMA WaitsStepInv == WaitsInv /\ [WaitsNext]_<<vars, waitVars>> => WaitsInv'
<1>. SUFFICES ASSUME WaitsInv, [WaitsNext]_<<vars, waitVars>> PROVE WaitsInv'
  OBVIOUS
<1>. USE DEF WaitsInv
<1>1. CASE AnnounceWait
  <2>1. wait' \in Int /\ WithinLimit(config, wait')
    BY <1>1, WaitTimeKeepsLimit DEF AnnounceWait
  <2>. QED
    BY <1>1, <2>1 DEF AnnounceWait, Announce, WithinLimit, ValidateRetryConfig
<1>2. ASSUME NEW r \in Results, ReceiveWithHeader(r) PROVE WaitsInv'
  BY <1>2 DEF ReceiveWithHeader, Receive, WithinLimit, ValidateRetryConfig
<1>3. CASE UNCHANGED waitVars /\ attempt' \in Int /\ (pc' # "decide" \/ UNCHANGED <<pc, last>>)
  BY <1>3 DEF waitVars, WithinLimit, ValidateRetryConfig
<1>4. CASE Send /\ UNCHANGED waitVars
  <2>1. attempt' \in Int
    BY <1>4, ChoicesAssumption DEF Send, CountAttempt
  <2>. QED
    BY <1>3, <1>4, <2>1 DEF Send
<1>5. CASE /\ UNCHANGED waitVars /\ UNCHANGED attempt
           /\ pc' # "decide" \/ UNCHANGED <<pc, last>>
  BY <1>3, <1>5
<1>6. CASE UNCHANGED <<vars, waitVars>>
  BY <1>5, <1>6 DEF vars
<1>. QED
  BY <1>1, <1>2, <1>4, <1>5, <1>6
  DEF WaitsNext, LoopWithWaits, GiveUp, Abort, TimerFires, ContextDone, Cancel

\* For a configuration that ValidateRetryConfig accepts no wait is longer than
\* MaxWaitTime, whatever the width of a duration, the attempt and the headers, except
\* the second that stands in for a WaitTime that is not set.
THEOREM WaitsStayLimited == WaitsSpec => []MaxWaitKept
<1>1. WaitsInv => MaxWaitKept
  BY DEF WaitsInv, WithinLimit, MaxWaitKept
<1>. QED
  BY <1>1, WaitsInitInv, WaitsStepInv, PTL DEF WaitsSpec

-------------------------------------------------------------------------------
(* Each wait is the one the tests expect. *)

\* What an exponential wait multiplies with, when the product fits.
LEMMA ExponentFits ==
    ASSUME NEW n \in Nat \ {0}, NEW t \in Nat \ {0}, t * 2 ^ (n - 1) <= MaxDuration
    PROVE  Pow2(n - 1) = {2 ^ (n - 1)} /\ t * 2 ^ (n - 1) \in 0 .. MaxDuration
<1>1. n - 1 \in Nat /\ Width - 1 \in Nat
  OBVIOUS
<1>2. 2 ^ (n - 1) \in Nat \ {0} /\ 2 ^ (Width - 1) \in Nat \ {0}
  BY <1>1, PowerPositive
<1>3. 2 ^ (n - 1) <= t * 2 ^ (n - 1)
  BY <1>2
<1>4. t * 2 ^ (n - 1) \in Nat
  BY <1>2
<1>5. 2 ^ (n - 1) < 2 ^ (Width - 1)
  BY <1>2, <1>3, <1>4 DEF MaxDuration
<1>6. n - 1 < Width - 1
  <2>. SUFFICES ASSUME Width - 1 <= n - 1 PROVE FALSE
    BY <1>1
  <2>1. 2 ^ (Width - 1) <= 2 ^ (n - 1)
    BY <1>1, PowerMonotonic
  <2>. QED
    BY <1>2, <1>5, <2>1
<1>. QED
  BY <1>1, <1>2, <1>4, <1>6 DEF Pow2, MaxDuration

\* What a strategy returns is what its tests expect, cut to the limit.
LEMMA StrategiesAsTested ==
    ASSUME WaitsInv, NEW n \in Nat \ {0}, config.waitTime > 0, Grown(n) <= MaxDuration,
           config.strategy = "fixed" => ValidateRetryConfig(config),
           NEW w \in CASE config.strategy = "exponential" -> ExponentialBackoff(n, config)
                       [] config.strategy = "linear"      -> LinearBackoff(n, config)
                       [] config.strategy = "fixed"       -> FixedBackoff(n, config)
    PROVE  w = Capped(config, Grown(n))
<1>1. config.waitTime \in Nat \ {0} /\ config.maxWaitTime \in Nat
  BY ConfigTypes DEF WaitsInv
<1>2. CASE config.strategy = "exponential"
  <2>1. /\ Pow2(n - 1) = {2 ^ (n - 1)}
        /\ config.waitTime * 2 ^ (n - 1) \in 0 .. MaxDuration
    BY <1>1, <1>2, ExponentFits DEF Grown
  <2>2. w \in ExponentialBackoff(n, config)
    BY <1>2
  <2>3. w = Capped(config, Wrap(config.waitTime * 2 ^ (n - 1)))
    BY <1>1, <2>1, <2>2 DEF ExponentialBackoff
  <2>. QED
    BY <1>2, <2>1, <2>3, WrapOfWhatFits DEF Grown
<1>3. CASE config.strategy = "linear"
  <2>1. config.waitTime * n \in 0 .. MaxDuration
    BY <1>1, <1>3, PowerPositive DEF Grown, MaxDuration
  <2>2. w \in LinearBackoff(n, config)
    BY <1>3
  <2>3. w = Capped(config, Wrap(config.waitTime * n))
    BY <1>1, <2>2 DEF LinearBackoff
  <2>. QED
    BY <1>3, <2>1, <2>3, WrapOfWhatFits DEF Grown
<1>4. CASE config.strategy = "fixed"
  <2>1. w = config.waitTime /\ Grown(n) = config.waitTime
    BY <1>1, <1>4 DEF FixedBackoff, Grown
  <2>. QED
    BY <1>1, <1>4, <2>1 DEF ValidateRetryConfig, Capped
<1>. QED
  BY <1>2, <1>3, <1>4 DEF WaitsInv, Configs

\* A wait that is announced is the one that is due: the header is the one that came
\* with the response that is retried, and the strategy counts that response's request.
LEMMA AnnouncedAsTested ==
    ASSUME WaitsInv, attempt \in Nat \ {0}, Fits(attempt), AnnounceWait
    PROVE  wait' = Due(attempt)
<1>. USE DEF WaitsInv
<1>1. config.waitTime \in Nat \ {0} /\ config.maxWaitTime \in Nat
  BY ConfigTypes DEF Fits
<1>2. header.value \in Int
  BY DEF NoHeader
<1>3. wait' \in getRetryWaitTime(attempt, config, header)
  BY DEF AnnounceWait
<1>0. last.err # "none" => header = NoHeader
  BY DEF AnnounceWait, Announce
<1>4. wait' = Capped(config, Asked(attempt))
  <2>1. CASE config.respectHeader /\ parseRetryAfterHeader(header) > 0
    <3>1. wait' = Capped(config, parseRetryAfterHeader(header))
      BY <1>3, <2>1 DEF getRetryWaitTime
    <3>2. Asked(attempt) = parseRetryAfterHeader(header)
      BY <1>0, <1>2, <2>1 DEF Asked, ServerAsks, parseRetryAfterHeader, NoHeader
    <3>. QED
      BY <3>1, <3>2
  <2>2. CASE ~ (config.respectHeader /\ parseRetryAfterHeader(header) > 0)
    <3>1. Asked(attempt) = Grown(attempt)
      BY <1>2, <2>2 DEF Asked, ServerAsks, parseRetryAfterHeader
    <3>2. Grown(attempt) <= MaxDuration
      BY <3>1 DEF Fits
    <3>. QED
      BY <1>3, <2>2, <3>1, <3>2, StrategiesAsTested DEF Fits, getRetryWaitTime
  <2>. QED
    BY <2>1, <2>2
<1>5. Asked(attempt) \in Int
  <2>1. Grown(attempt) \in Int
    BY <1>1, PowerPositive DEF Grown, Configs
  <2>. QED
    BY <1>2, <2>1 DEF Asked
<1>. QED
  BY <1>1, <1>4, <1>5 DEF Capped, Due

\* Every retry waits what the tests expect of its strategy, or what the server asked for
\* in the answer that is retried, for any width of a duration as long as the product fits.
THEOREM WaitsAreAsTested == WaitsSpec => WaitsAsTested
<1>1. ASSUME IInv, WaitsInv, [WaitsNext]_<<vars, waitVars>>,
             pc' = "waiting", pc # "waiting", Fits(attempt)
      PROVE  wait' = Due(attempt)
  <2>1. AnnounceWait
    BY <1>1
    DEF WaitsNext, LoopWithWaits, ReceiveWithHeader, Receive, Send, GiveUp, Abort,
        TimerFires, ContextDone, Cancel, vars
  <2>2. attempt \in Nat \ {0}
    BY <1>1, <2>1, ChoicesAssumption DEF AnnounceWait, Announce, IInv, TypeOK
  <2>. QED
    BY <1>1, <2>1, <2>2, AnnouncedAsTested
<1>2. WaitsSpec => []IInv
  BY WaitsImplementLoop, Invariance, PTL
<1>3. WaitsSpec => []WaitsInv
  BY WaitsInitInv, WaitsStepInv, PTL DEF WaitsSpec
<1>. QED
  BY <1>1, <1>2, <1>3, PTL DEF WaitsSpec, WaitsAsTested

===============================================================================
