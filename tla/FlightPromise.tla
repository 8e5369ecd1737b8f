----------------------------- MODULE FlightPromise -----------------------------
(***************************************************************************)
(* What the request runtime promises to those who ask: whoever asks for a  *)
(* thing waits until one answer settles everyone who waits for that thing. *)
(* A waiter may leave alone, by cancelling, and is never settled twice.    *)
(* A success is told only if one of those who wait for it got a response.  *)
(* Leases, queue, gates and crashes are the business of RequestLedger.     *)
(***************************************************************************)
CONSTANTS Requests, FpOf

VARIABLES
    waiting,    \* requests admitted and not settled
    verdict,    \* what a request was told, "none" before
    proof       \* requests one of whose attempts got a usable response

vars == <<waiting, verdict, proof>>

\* What somebody waits for.
Things == {FpOf[r] : r \in waiting}
WaitingFor(F) == {r \in waiting : FpOf[r] \in F}

Init ==
    /\ waiting = {}
    /\ verdict = [r \in Requests |-> "none"]
    /\ proof = {}

Join(r) ==
    /\ r \notin waiting /\ verdict[r] = "none"
    /\ waiting' = waiting \cup {r}
    /\ UNCHANGED <<verdict, proof>>

\* No room in the queue.
Reject(r) ==
    /\ r \notin waiting /\ verdict[r] = "none"
    /\ verdict' = [verdict EXCEPT ![r] = "failed"]
    /\ UNCHANGED <<waiting, proof>>

Withdraw(r) ==
    /\ r \in waiting
    /\ verdict' = [verdict EXCEPT ![r] = "cancelled"]
    /\ waiting' = waiting \ {r}
    /\ UNCHANGED proof

Answer(r) ==
    /\ r \in waiting
    /\ proof' = proof \cup {r}
    /\ UNCHANGED <<waiting, verdict>>

\* One verdict for each thing in F, for all who wait for it, at once.
Settle(F) ==
    /\ waiting' = waiting \ WaitingFor(F)
    /\ \E told \in [F -> {"succeeded", "failed", "unknown"}] :
          /\ \A f \in F : told[f] = "succeeded" => WaitingFor({f}) \cap proof # {}
          /\ verdict' = [r \in Requests |-> IF r \in WaitingFor(F) THEN told[FpOf[r]] ELSE verdict[r]]
    /\ UNCHANGED proof

Next ==
    \/ \E F \in SUBSET Things : Settle(F)
    \/ \E r \in Requests : Join(r) \/ Reject(r) \/ Withdraw(r) \/ Answer(r)

Spec == Init /\ [][Next]_vars
===============================================================================
