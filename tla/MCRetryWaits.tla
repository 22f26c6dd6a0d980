------------------------------ MODULE MCRetryWaits ------------------------------
(* Values for TLC of the constants of RetryWaits: durations of eight bits. *)
EXTENDS RetryWaits

MCResults ==
    {[err |-> e, status |-> 0] : e \in {"network", "context", "local"}}
    \cup {[err |-> "none", status |-> s] : s \in {428, 429, 499, 500}}

MCRetryResults == {r \in MCResults : DefaultRetryCondition(r)}

MCMaxAttemptsChoices == {-1, 0, 1, 2, 4}

MCWaits == {0, 3, 20}

MCHeaders ==
    {NoHeader, [form |-> "seconds", value |-> 40], [form |-> "seconds", value |-> -1],
     [form |-> "date", value |-> 2]}

\* One configuration of each limit is enough for the wrap.
OneChoice == {-1}

===============================================================================
