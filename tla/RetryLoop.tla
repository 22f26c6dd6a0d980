------------------------------- MODULE RetryLoop -------------------------------
(***************************************************************************)
(* executeWithRetry of retry.go: one request that is sent again and again  *)
(* until its result is good enough, its attempts are used up or its        *)
(* context ends.  The context is cancelled by somebody else, at any        *)
(* moment; a timer and the context may both be ready in the select that    *)
(* waits for a retry, and Go then takes either.                            *)
(*                                                                         *)
(* How long a wait is does not matter here: the timer may fire at any time *)
(* after it was set (Backoff durations are not compared with anything).    *)
(* res.success is set by Vecto.Request only after the loop has returned,   *)
(* so the early return for a successful response is never taken, and what  *)
(* RetryCondition says of a result is all that counts.                     *)
(***************************************************************************)
EXTENDS Integers

CONSTANTS
    MaxAttemptsChoices,   \* the values MaxAttempts or MaxRetries may have
    AttemptCap,           \* bound: where an unlimited loop stops counting
    Results,              \* what client.Do may return: [err, status]
    RetryResults          \* the results for which RetryCondition is true

ASSUME ChoicesAssumption ==
    /\ MaxAttemptsChoices \subseteq Int
    /\ AttemptCap \in Nat \ {0}
    /\ \A m \in MaxAttemptsChoices : m <= AttemptCap

\* The RetryCondition of a configuration that has none.  A "network" error is a
\* net.Error or a *url.Error, and so is the error of a context that ended while
\* the request was on its way ("context"); a failing transform and an unreadable
\* or oversized body ("local") are neither.
DefaultRetryCondition(r) ==
    \/ r.err \in {"network", "context"}
    \/ r.err = "none" /\ (r.status >= 500 \/ r.status = 429)

VARIABLES
    maxAttempts,   \* the effective RetryConfig.MaxAttempts of this request
    pc,            \* "ready", "inFlight", "decide", "waiting" or "done"
    attempt,
    last,          \* lastResponse and lastErr
    cancelled,     \* ctx.Err() # nil
    outcome,       \* what the caller gets: "response", "error" or "context"
    \* History, read by the properties only:
    announced,     \* the calls of OnRetry since the last attempt began
    lateSends      \* the attempts begun after the context had ended: 0, 1 or 2 for more

vars == <<maxAttempts, pc, attempt, last, cancelled, outcome, announced, lateSends>>

NoResult == [err |-> "none", status |-> 0]

\* getRetryConfig: RequestOptions.MaxRetries replaces the configured MaxAttempts.
\* A request without a retry configuration behaves as one with MaxAttempts = 0.
Init ==
    /\ maxAttempts \in MaxAttemptsChoices
    /\ pc = "ready"
    /\ attempt = 0
    /\ last = NoResult
    /\ cancelled \in BOOLEAN
    /\ outcome = "none"
    /\ announced = 0
    /\ lateSends = 0

-------------------------------------------------------------------------------

CountAttempt_Forgotten == UNCHANGED attempt

CountAttempt ==
    attempt' = IF maxAttempts < 0 /\ attempt >= AttemptCap THEN attempt ELSE attempt + 1

\* client.Do begins.
Send ==
    /\ pc = "ready"
    /\ pc' = "inFlight"
    /\ CountAttempt
    /\ announced' = 0
    /\ lateSends' = IF cancelled /\ lateSends < 2 THEN lateSends + 1 ELSE lateSends
    /\ UNCHANGED <<maxAttempts, last, cancelled, outcome>>

\* client.Do returns.  net/http reports a context that had ended before the send,
\* and may report one that ended during it.
Receive(r) ==
    /\ pc = "inFlight"
    /\ r.err = "context" => cancelled
    /\ lateSends > 0 => r.err \in {"context", "local"}
    /\ pc' = "decide"
    /\ last' = r
    /\ UNCHANGED <<maxAttempts, attempt, cancelled, outcome, announced, lateSends>>

shouldRetry_OneMore ==
    /\ ~ (maxAttempts >= 0 /\ attempt > maxAttempts)
    /\ last \in RetryResults

shouldRetry_OneLess ==
    /\ ~ (maxAttempts >= 0 /\ attempt + 1 >= maxAttempts)
    /\ last \in RetryResults

shouldRetry ==
    /\ ~ (maxAttempts >= 0 /\ attempt >= maxAttempts)
    /\ last \in RetryResults

GiveUp_Announces ==
    /\ pc = "decide"
    /\ ~ shouldRetry
    /\ pc' = "done"
    /\ outcome' = IF last.err = "none" THEN "response" ELSE "error"
    /\ announced' = announced + 1
    /\ UNCHANGED <<maxAttempts, attempt, last, cancelled, lateSends>>

\* The last result is final, a response as it is and an error wrapped.
GiveUp ==
    /\ pc = "decide"
    /\ ~ shouldRetry
    /\ pc' = "done"
    /\ outcome' = IF last.err = "none" THEN "response" ELSE "error"
    /\ UNCHANGED <<maxAttempts, attempt, last, cancelled, announced, lateSends>>

\* The check of ctx.Err() before a retry is announced.
Abort ==
    /\ pc = "decide"
    /\ shouldRetry
    /\ cancelled
    /\ pc' = "done"
    /\ outcome' = "context"
    /\ UNCHANGED <<maxAttempts, attempt, last, cancelled, announced, lateSends>>

Announce_Regardless ==
    /\ pc = "decide"
    /\ shouldRetry
    /\ pc' = "waiting"
    /\ announced' = announced + 1
    /\ UNCHANGED <<maxAttempts, attempt, last, cancelled, outcome, lateSends>>

\* OnRetry is called, the timer is set, and the select begins.
Announce ==
    /\ pc = "decide"
    /\ shouldRetry
    /\ ~ cancelled
    /\ pc' = "waiting"
    /\ announced' = announced + 1
    /\ UNCHANGED <<maxAttempts, attempt, last, cancelled, outcome, lateSends>>

TimerFires ==
    /\ pc = "waiting"
    /\ pc' = "ready"
    /\ UNCHANGED <<maxAttempts, attempt, last, cancelled, outcome, announced, lateSends>>

ContextDone ==
    /\ pc = "waiting"
    /\ cancelled
    /\ pc' = "done"
    /\ outcome' = "context"
    /\ UNCHANGED <<maxAttempts, attempt, last, cancelled, announced, lateSends>>

\* The caller cancels the context, or its deadline passes.
Cancel ==
    /\ ~ cancelled
    /\ pc # "done"
    /\ cancelled' = TRUE
    /\ UNCHANGED <<maxAttempts, pc, attempt, last, outcome, announced, lateSends>>

Loop ==
    \/ Send
    \/ \E r \in Results : Receive(r)
    \/ GiveUp
    \/ Abort
    \/ Announce
    \/ TimerFires
    \/ ContextDone

Next == Loop \/ Cancel

Spec == Init /\ [][Next]_vars

\* The goroutine of the request keeps running, client.Do returns and a timer that
\* was set fires.  Nobody has to cancel, and the select owes the context nothing
\* while its timer fires first.
FairSpec == Spec /\ WF_vars(Loop)

-------------------------------------------------------------------------------
(* Properties. *)

\* Every variable stays in its range; attempt stays within the largest limit.
TypeOK ==
    /\ maxAttempts \in MaxAttemptsChoices
    /\ pc \in {"ready", "inFlight", "decide", "waiting", "done"}
    /\ attempt \in 0 .. AttemptCap
    /\ last \in Results \cup {NoResult}
    /\ cancelled \in BOOLEAN
    /\ outcome \in {"none", "response", "error", "context"}
    /\ announced \in Nat
    /\ lateSends \in 0 .. 2

\* A request is sent once, and at most MaxAttempts times when that is more.
AttemptsBounded ==
    maxAttempts >= 0 => attempt <= 1 \/ attempt <= maxAttempts

\* After its context has ended a request is begun at most once more, and then only
\* because the timer of the last wait was ready too.
OneLateSend == lateSends <= 1

\* Each retry was announced by exactly one call of OnRetry.  An announcement that
\* no retry follows happens only when the context ends during the wait.
RetriesAnnounced ==
    /\ pc = "ready" => announced = IF attempt = 0 THEN 0 ELSE 1
    /\ pc \in {"inFlight", "decide"} => announced = 0
    /\ pc = "done" /\ announced > 0 => announced = 1 /\ outcome = "context"

\* The loop ends for a reason: a result that is not to be retried, the last
\* attempt used up, or the context, and only then with the context's error.
EndsForAReason ==
    pc = "done" =>
        IF outcome = "context"
        THEN cancelled /\ last \in RetryResults
        ELSE last \notin RetryResults \/ (maxAttempts >= 0 /\ attempt >= maxAttempts)

\* A request whose context has ended comes to an end, an unlimited one too, even if
\* RetryCondition asks for a retry each time and the timer always wins the select.
CancelEnds == cancelled ~> pc = "done"

\* A request with a limit comes to an end whatever the server answers.
BoundedEnds == maxAttempts >= 0 ~> pc = "done"

===============================================================================
