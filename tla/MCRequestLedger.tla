---------------------------- MODULE MCRequestLedger ----------------------------
(* Small instances of RequestLedger.  Requests 1 and 2 ask for the same thing, *)
(* request 3 for another one; all pass through the provider's gate.            *)
EXTENDS RequestLedger

MCDomainOf == [r \in 1 .. 3 |-> "yahoo"]
MCKeysOf == [r \in 1 .. 3 |-> {"provider"}]
MCConcurrency == [x \in {"provider"} |-> 1]
MCTaskOf == [r \in 1 .. 3 |-> IF r = 2 THEN 2 ELSE 1]

\* Consumers that compete: three requests, two fingerprints, two tasks.
MCCompeting == 1 .. 3
MCCompetingFp == [r \in MCCompeting |-> IF r = 3 THEN "g" ELSE "f"]

\* Retries: two requests for the same thing and two attempts each.
MCRetrying == 1 .. 2
MCRetryingFp == [r \in MCRetrying |-> "f"]
===============================================================================
