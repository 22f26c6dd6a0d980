-------------------------------- MODULE Backoff --------------------------------
(***************************************************************************)
(* How long a retry waits: getRetryWaitTime of retry.go, the Retry-After   *)
(* header and the three backoff strategies.  RetryWaits composes these     *)
(* operators with the loop that asks them.                                 *)
(*                                                                         *)
(* A time.Duration is a signed integer of Width bits (64 in Go), and the   *)
(* strategies multiply without looking.  A wait of zero or less makes      *)
(* time.After fire at once.                                                *)
(***************************************************************************)
EXTENDS Integers

CONSTANTS
    Width,          \* the bits of a time.Duration
    Second,         \* time.Second, the wait when WaitTime is not set
    Waits,          \* the values of WaitTime and MaxWaitTime, 0 when not set
    Headers         \* the Retry-After headers, NoHeader among them

ASSUME WidthAssumption ==
    /\ Width \in Nat \ {0, 1}
    /\ Waits \subseteq Nat
    /\ Headers \subseteq [form : {"none", "seconds", "date", "other"}, value : Int]
    /\ Second \in Nat \ {0}

MaxDuration == 2 ^ (Width - 1) - 1
MinDuration == - (2 ^ (Width - 1))

\* Integer arithmetic wraps around.
Wrap(x) == ((x - MinDuration) % (2 ^ Width)) + MinDuration

\* time.Duration(math.Pow(2, n)): the float is exact, but converting one that is out
\* of range gives what the processor gives, the smallest value or the largest.
\* A negative power is below one and becomes zero.
Pow2(n) ==
    IF n < 0 THEN {0} ELSE IF n < Width - 1 THEN {2 ^ n} ELSE {MinDuration, MaxDuration}

Configs == [waitTime : Waits, maxWaitTime : Waits, respectHeader : BOOLEAN,
            strategy : {"exponential", "linear", "fixed"}]

NoHeader == [form |-> "none", value |-> 0]

\* ValidateRetryConfig, which the package itself never calls.
ValidateRetryConfig(cfg) ==
    cfg.maxWaitTime > 0 => cfg.waitTime <= cfg.maxWaitTime

-------------------------------------------------------------------------------

Capped_Below(cfg, d) ==
    IF cfg.maxWaitTime > 0 /\ d < cfg.maxWaitTime THEN cfg.maxWaitTime ELSE d

Capped(cfg, d) ==
    IF cfg.maxWaitTime > 0 /\ d > cfg.maxWaitTime THEN cfg.maxWaitTime ELSE d

\* Each strategy is the set of what it may return.
ExponentialBackoff(n, cfg) ==
    IF cfg.waitTime <= 0
    THEN {Second}
    ELSE {Capped(cfg, Wrap(cfg.waitTime * p)) : p \in Pow2(n - 1)}

LinearBackoff(n, cfg) ==
    IF cfg.waitTime <= 0
    THEN {Second}
    ELSE {Capped(cfg, Wrap(cfg.waitTime * n))}

FixedBackoff(n, cfg) == {IF cfg.waitTime <= 0 THEN Second ELSE cfg.waitTime}

\* The value of "date" is what time.Until makes of it.  A number of seconds is handed
\* on as it is, below zero too.
parseRetryAfterHeader(hdr) ==
    IF hdr.form = "seconds" \/ (hdr.form = "date" /\ hdr.value > 0) THEN hdr.value ELSE 0

\* RetryAfter, when the user gives one, replaces all of this.
getRetryWaitTime(n, cfg, hdr) ==
    IF cfg.respectHeader /\ parseRetryAfterHeader(hdr) > 0
    THEN {Capped(cfg, parseRetryAfterHeader(hdr))}
    ELSE CASE cfg.strategy = "exponential" -> ExponentialBackoff(n, cfg)
           [] cfg.strategy = "linear"      -> LinearBackoff(n, cfg)
           [] cfg.strategy = "fixed"       -> FixedBackoff(n, cfg)

===============================================================================
