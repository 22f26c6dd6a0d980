------------------------------- MODULE RetryWaits -------------------------------
(***************************************************************************)
(* The retry loop together with the waits it asks for: every retry that    *)
(* RetryLoop announces asks Backoff how long to wait, for the attempt it   *)
(* counted and with the header of the response it got.  The timer itself   *)
(* stays as free as it is in RetryLoop.                                    *)
(***************************************************************************)
EXTENDS RetryLoop, Backoff

VARIABLES
    config,     \* [waitTime, maxWaitTime, strategy, respectHeader]
    header,     \* the Retry-After header of the last response
    wait        \* what getRetryWaitTime returned for the last retry

waitVars == <<config, header, wait>>

WaitsInit ==
    /\ Init
    /\ config \in Configs
    /\ header = NoHeader
    /\ wait = 0

\* The response of an earlier attempt is kept when this one brings none.
ReceiveWithHeader_KeepsOld(r) ==
    /\ Receive(r)
    /\ header' \in IF r.err = "none" THEN Headers ELSE {header}
    /\ UNCHANGED <<config, wait>>

\* A result that is an error comes without a response, hence without a header.
ReceiveWithHeader(r) ==
    /\ Receive(r)
    /\ header' \in IF r.err = "none" THEN Headers ELSE {NoHeader}
    /\ UNCHANGED <<config, wait>>

AnnounceWait ==
    /\ Announce
    /\ wait' \in getRetryWaitTime(attempt, config, header)
    /\ UNCHANGED <<config, header>>

LoopWithWaits ==
    \/ \E r \in Results : ReceiveWithHeader(r)
    \/ AnnounceWait
    \/ Send /\ UNCHANGED waitVars
    \/ GiveUp /\ UNCHANGED waitVars
    \/ Abort /\ UNCHANGED waitVars
    \/ TimerFires /\ UNCHANGED waitVars
    \/ ContextDone /\ UNCHANGED waitVars

WaitsNext == LoopWithWaits \/ (Cancel /\ UNCHANGED waitVars)

WaitsSpec == WaitsInit /\ [][WaitsNext]_<<vars, waitVars>> /\ WF_<<vars, waitVars>>(LoopWithWaits)

-------------------------------------------------------------------------------
(* Properties. *)

\* What each strategy waits after the n-th request by the tests of the three of them, in
\* arithmetic that never wraps.  They expect WaitTime itself after the first, and twice as
\* much after each more of the exponential one: 2^(n-1) times, where its comment says 2^n.
Grown(n) ==
    CASE config.strategy = "exponential" -> config.waitTime * 2 ^ (n - 1)
      [] config.strategy = "linear"      -> config.waitTime * n
      [] config.strategy = "fixed"       -> config.waitTime

\* A server is heard that answered the request which is to be repeated.
ServerAsks ==
    /\ config.respectHeader /\ last.err = "none"
    /\ header.form \in {"seconds", "date"} /\ header.value > 0

Asked(n) == IF ServerAsks THEN header.value ELSE Grown(n)

Due(n) ==
    IF config.maxWaitTime = 0 \/ Asked(n) < config.maxWaitTime
    THEN Asked(n)
    ELSE config.maxWaitTime

\* The product fits a duration, and "fixed", which does not cut, needs no cut.
Fits(n) ==
    /\ config.waitTime > 0
    /\ Asked(n) <= MaxDuration
    /\ config.strategy = "fixed" => ValidateRetryConfig(config)

\* A retry after the n-th request waits what the tests expect of the strategy for n, or
\* what the server asked for in the response that is retried and in no earlier one, cut
\* to MaxWaitTime, as long as nothing overflows.
WaitsAsTested ==
    [][pc' = "waiting" /\ pc # "waiting" /\ Fits(attempt)
            => wait' = Due(attempt)]_<<vars, waitVars>>

\* With a configuration that ValidateRetryConfig accepts no wait is longer than
\* MaxWaitTime, overflow and the server's wishes included, except the one second that
\* stands in for a WaitTime that was not set.
MaxWaitKept ==
    ValidateRetryConfig(config) /\ config.maxWaitTime > 0 =>
        wait <= config.maxWaitTime \/ (config.waitTime = 0 /\ wait = Second)

\* Exponential backoff grows to MaxWaitTime and stays there: without Retry-After
\* headers, no wait is shorter than the one before it.  In the code the product wraps
\* in the end, the wrapped value is below MaxWaitTime, and the wait drops to zero or
\* less: the retries then follow each other without a pause.
NeverSooner ==
    [][config.strategy = "exponential" /\ config.maxWaitTime > 0 /\ ~ config.respectHeader
            => wait' >= wait]_<<vars, waitVars>>

===============================================================================
