----------------------------- MODULE RequestLedger -----------------------------
(***************************************************************************)
(* The durable ledger of the production request runtime: logical requests, *)
(* single-flight groups, the fair queue, physical attempts, gate           *)
(* reservations and results, as ProductionRequestRepository keeps them.    *)
(*                                                                         *)
(* Every repository call is one SQLite transaction, hence one action; a    *)
(* call that raises rolls back, hence is not enabled.  Calls of the current*)
(* lease generation may come in any order its callers can produce, and     *)
(* between any two of them the lease may be released or, after a crash or  *)
(* a stall, be taken over by recovery.  The times of RuntimeLease are      *)
(* abstracted: an active lease may be recovered at any moment, and a call  *)
(* of an older generation is rejected by the fence, hence has no action.   *)
(***************************************************************************)
EXTENDS Naturals, FiniteSets

CONSTANTS
    Requests,       \* logical_request_id's, ordered as SQLite orders them
    TaskOf,         \* task_id of a request; tasks are ordered too
    FpOf,           \* request_fingerprint of a request
    DomainOf,       \* rate_domain of a request
    KeysOf,         \* gate keys (scope, alias) its attempts have to pass
    Concurrency,    \* max_concurrency of a gate key
    GlobalLimit, DomainLimit, TaskLimit,   \* QueuePolicy
    MaxAttempts,    \* bound: physical attempts of one logical request
    MaxGeneration   \* bound: lease generations

Fingerprints == {FpOf[r] : r \in Requests}
Domains == {DomainOf[r] : r \in Requests}
Tasks == {TaskOf[r] : r \in Requests}
Keys == UNION {KeysOf[r] : r \in Requests}
Sequences == 1 .. MaxAttempts
NoRequest == 0
NoTask == 0

ASSUME RequestLedgerAssumption ==
    /\ Requests \subseteq Nat \ {NoRequest}
    /\ IsFiniteSet(Requests)
    /\ \A r \in Requests : TaskOf[r] \in Nat \ {NoTask}
    /\ \A r \in Requests : IsFiniteSet(KeysOf[r])
    /\ \A x \in Keys : Concurrency[x] \in Nat \ {0}
    /\ GlobalLimit \in Nat /\ DomainLimit \in Nat /\ TaskLimit \in Nat
    /\ MaxAttempts \in Nat
    /\ MaxGeneration \in Nat

VARIABLES
    generation, active,              \* runtime_lease
    state, result,                   \* logical_requests.state, logical_results.outcome
    queue, enqueued, cursor,         \* queue_entries, provider_queue_cursors
    flight, leader,                  \* single_flights
    role, member, joined, owner,     \* single_flight_consumers
    attempt, attemptGen,             \* physical_attempts
    reservation, occupancy,          \* gate_reservations, gate_state.active_count
    stamp                            \* the latest enqueued_at or joined_at

leaseVars == <<generation, active>>
requestVars == <<state, result>>
queueVars == <<queue, enqueued, cursor>>
flightVars == <<flight, leader>>
consumerVars == <<role, member, joined, owner>>
attemptVars == <<attempt, attemptGen>>
gateVars == <<reservation, occupancy>>
vars == <<generation, active, state, result, queue, enqueued, cursor, flight, leader,
          role, member, joined, owner, attempt, attemptGen, reservation, occupancy, stamp>>

Outcomes == {"succeeded", "failed", "cancelled", "unknown"}
Terminal == {"succeeded", "failed", "unknown"}
Live == {"reserved", "started"}

-------------------------------------------------------------------------------
(* Reading the tables.                                                      *)

AttemptStates(r) == {attempt[r][k] : k \in Sequences} \ {"none"}
HasLiveAttempt(r) == AttemptStates(r) \cap Live # {}

\* COALESCE(MAX(sequence_number), 0) + 1 = k
NextSequence(r, k) == \A j \in Sequences : attempt[r][j] # "none" <=> j < k

\* The three counts of admit_logical_request against QueuePolicy.
QueuedIn(que, ds, ts) ==
    {q \in Requests : que[q] = "queued" /\ DomainOf[q] \in ds /\ TaskOf[q] \in ts}
QueueFull(que, r) ==
    \/ Cardinality(QueuedIn(que, Domains, Tasks)) >= GlobalLimit
    \/ Cardinality(QueuedIn(que, {DomainOf[r]}, Tasks)) >= DomainLimit
    \/ Cardinality(QueuedIn(que, {DomainOf[r]}, {TaskOf[r]})) >= TaskLimit

\* _result_state
StateOf(outcome) == IF outcome = "unknown" THEN "failed" ELSE outcome

\* _validate_attempt_outcome, on attempt states att of request r.
OutcomeJustified(r, outcome, att) ==
    LET states == {att[r][k] : k \in Sequences}
    IN  /\ states \cap Live = {}
        /\ outcome = "succeeded" =>
             /\ "unknown" \notin states
             /\ \E k \in Sequences : att[r][k] = "succeeded"
                                     /\ \A j \in Sequences : j > k => att[r][j] = "none"
        /\ outcome = "unknown" => "unknown" \in states

-------------------------------------------------------------------------------
(* Delivering a leader's result to its flight: _finish_single_flight, which *)
(* _reconcile_terminal_flights calls for every active flight whose leader   *)
(* has a result.  st, res and att are the tables inside the transaction.    *)

\* Faulty: only the leader gets the result.
LeadersOnly(F) == {q \in Requests : \E f \in F : leader[f] = q /\ member[q] = "active"}

Settled(res) == {f \in Fingerprints : flight[f] = "active" /\ res[leader[f]] # "none"}
Recipients(F) == {q \in Requests : member[q] = "active" /\ FpOf[q] \in F}

DeliveredResult(F, res) ==
    [q \in Requests |-> IF q \in Recipients(F) THEN res[leader[FpOf[q]]] ELSE res[q]]
DeliveredState(F, st, res) ==
    [q \in Requests |-> IF q \in Recipients(F) THEN StateOf(res[leader[FpOf[q]]]) ELSE st[q]]
\* Faulty: the consumers are not marked as completed.
UnmarkedMember(F) == [q \in Requests |-> member[q]]
DeliveredMember(F) == [q \in Requests |-> IF q \in Recipients(F) THEN "completed" ELSE member[q]]
DeliveredOwner(F) == [q \in Requests |-> IF q \in Recipients(F) THEN leader[FpOf[q]] ELSE owner[q]]
DeliveredFlight(F) == [f \in Fingerprints |-> IF f \in F THEN "terminal" ELSE flight[f]]
DeliveredQueue(F, que) ==
    [q \in Requests |-> IF que[q] = "queued" /\ \E f \in F : leader[f] = q THEN "cancelled" ELSE que[q]]

\* The checks on the way; any failure rolls the whole transaction back.
Deliverable(F, st, att) ==
    \A f \in F :
        /\ flight[f] = "active"
        /\ role[leader[f]] = "leader" /\ member[leader[f]] = "active"
        /\ \A q \in Recipients({f}) \ {leader[f]} :
              /\ role[q] = "follower"
              /\ st[q] = "queued"
              /\ \A k \in Sequences : att[q][k] = "none"

\* _reconcile_terminal_flights adds the checks on the stored result.
Reconcilable(F, st, res, att) ==
    /\ Deliverable(F, st, att)
    /\ \A f \in F : /\ st[leader[f]] = StateOf(res[leader[f]])
                    /\ OutcomeJustified(leader[f], res[leader[f]], att)

-------------------------------------------------------------------------------
(* Releasing gate occupancy: active_count goes down once per reservation.   *)

Holding(R) == {a \in R \X Sequences : reservation[a[1]][a[2]] = "active"}
Occupants(A, x) == {a \in A : x \in KeysOf[a[1]]}
Countable(A) == \A x \in Keys : Cardinality(Occupants(A, x)) <= occupancy[x]
ReleasedOccupancy(A) == [x \in Keys |-> occupancy[x] - Cardinality(Occupants(A, x))]
Recovered(R) ==
    [r \in Requests |-> [k \in Sequences |->
        IF r \in R /\ reservation[r][k] = "active" THEN "recovered" ELSE reservation[r][k]]]

\* Faulty: the reservation is closed, the count is not lowered.
KeepOccupancyOf(r) == occupancy' = occupancy /\ reservation' = Recovered({r})
\* Faulty: cancellation does not touch the gates.
KeepGatesOf(r) == UNCHANGED gateVars

\* _release_gate_occupancy
ReleaseOccupancyOf(r) ==
    /\ Countable(Holding({r}))
    /\ occupancy' = ReleasedOccupancy(Holding({r}))
    /\ reservation' = Recovered({r})

-------------------------------------------------------------------------------
Init ==
    /\ generation = 0 /\ active = FALSE
    /\ state = [r \in Requests |-> "absent"]
    /\ result = [r \in Requests |-> "none"]
    /\ queue = [r \in Requests |-> "none"]
    /\ enqueued = [r \in Requests |-> 0]
    /\ cursor = [d \in Domains |-> NoTask]
    /\ flight = [f \in Fingerprints |-> "none"]
    /\ leader = [f \in Fingerprints |-> NoRequest]
    /\ role = [r \in Requests |-> "none"]
    /\ member = [r \in Requests |-> "none"]
    /\ joined = [r \in Requests |-> 0]
    /\ owner = [r \in Requests |-> NoRequest]
    /\ attempt = [r \in Requests |-> [k \in Sequences |-> "none"]]
    /\ attemptGen = [r \in Requests |-> [k \in Sequences |-> 0]]
    /\ reservation = [r \in Requests |-> [k \in Sequences |-> "none"]]
    /\ occupancy = [x \in Keys |-> 0]
    /\ stamp = 0

-------------------------------------------------------------------------------
(* The lease as the ledger sees it.                                         *)

\* acquire_lease: no reconciliation of interrupted work, only of terminal flights.
AcquireLease ==
    /\ ~active
    /\ generation < MaxGeneration
    /\ generation' = generation + 1 /\ active' = TRUE
    /\ LET F == Settled(result)
       IN  /\ Reconcilable(F, state, result, attempt)
           /\ state' = DeliveredState(F, state, result)
           /\ result' = DeliveredResult(F, result)
           /\ member' = DeliveredMember(F)
           /\ owner' = DeliveredOwner(F)
           /\ flight' = DeliveredFlight(F)
           /\ queue' = DeliveredQueue(F, queue)
    /\ UNCHANGED <<enqueued, cursor, leader, role, joined, attemptVars, gateVars, stamp>>

\* release_lease never looks at outstanding work.
ReleaseLease ==
    /\ active
    /\ active' = FALSE
    /\ UNCHANGED <<generation, requestVars, queueVars, flightVars, consumerVars,
                   attemptVars, gateVars, stamp>>

-------------------------------------------------------------------------------
(* admit_logical_request: single-flight first, the queue for leaders only.  *)

AdmitFollower(r) ==
    LET f == FpOf[r]
    IN  /\ active
        /\ state[r] = "absent"
        /\ flight[f] = "active" /\ f \notin Settled(result)
        /\ DomainOf[leader[f]] = DomainOf[r]
        /\ state' = [state EXCEPT ![r] = "queued"]
        /\ role' = [role EXCEPT ![r] = "follower"]
        /\ member' = [member EXCEPT ![r] = "active"]
        /\ stamp' = stamp + 1
        /\ joined' = [joined EXCEPT ![r] = stamp + 1]
        /\ UNCHANGED <<leaseVars, result, queueVars, flightVars, owner, attemptVars, gateVars>>

\* A request that finds no active flight becomes leader of a new one, unless the
\* queue is full: then it fails at once and its flight is closed again.
AdmitLeader(r) ==
    LET f == FpOf[r]
        F == Settled(result) \cap {f}
        que == DeliveredQueue(F, queue)
        mem == DeliveredMember(F)
        rejected == QueueFull(que, r)
    IN  /\ active
        /\ state[r] = "absent"
        /\ flight[f] = "active" => f \in F
        /\ Reconcilable(F, state, result, attempt)
        /\ \A q \in Requests : FpOf[q] = f => mem[q] # "active"
        /\ state' = [DeliveredState(F, state, result) EXCEPT
                        ![r] = IF rejected THEN "failed" ELSE "queued"]
        /\ result' = [DeliveredResult(F, result) EXCEPT
                        ![r] = IF rejected THEN "failed" ELSE "none"]
        /\ queue' = [que EXCEPT ![r] = IF rejected THEN "rejected" ELSE "queued"]
        /\ member' = [mem EXCEPT ![r] = IF rejected THEN "cancelled" ELSE "active"]
        /\ flight' = [flight EXCEPT ![f] = IF rejected THEN "terminal" ELSE "active"]
        /\ leader' = [leader EXCEPT ![f] = r]
        /\ role' = [role EXCEPT ![r] = "leader"]
        /\ owner' = DeliveredOwner(F)
        /\ stamp' = stamp + 1
        /\ joined' = [joined EXCEPT ![r] = stamp + 1]
        /\ enqueued' = [enqueued EXCEPT ![r] = stamp + 1]
        /\ UNCHANGED <<leaseVars, cursor, attemptVars, gateVars>>

-------------------------------------------------------------------------------
(* cancel_admitted_request.                                                 *)

\* Faulty: cancels a follower without asking whether it is still waiting.
CancelFollowerAnyTime(r) ==
    /\ active
    /\ role[r] = "follower"
    /\ state' = [state EXCEPT ![r] = "cancelled"]
    /\ result' = [result EXCEPT ![r] = "cancelled"]
    /\ member' = [member EXCEPT ![r] = "cancelled"]
    /\ UNCHANGED <<leaseVars, queueVars, flightVars, role, joined, owner, attemptVars,
                   gateVars, stamp>>

\* A follower only cancels itself.
CancelFollower(r) ==
    /\ active
    /\ member[r] = "active" /\ role[r] = "follower"
    /\ state[r] = "queued"
    /\ state' = [state EXCEPT ![r] = "cancelled"]
    /\ result' = [result EXCEPT ![r] = "cancelled"]
    /\ member' = [member EXCEPT ![r] = "cancelled"]
    /\ UNCHANGED <<leaseVars, queueVars, flightVars, role, joined, owner, attemptVars,
                   gateVars, stamp>>

\* Faulty: the attempt on the wire is left as started.
CancelFlightKeepAttempt(f, att) ==
    LET R == Recipients({f})
    IN  /\ flight[f] = "active"
        /\ \A q \in R : state[q] = "queued"
        /\ ReleaseOccupancyOf(leader[f])
        /\ attempt' = att
        /\ state' = [q \in Requests |-> IF q \in R THEN "failed" ELSE state[q]]
        /\ result' = [q \in Requests |-> IF q \in R THEN "unknown" ELSE result[q]]
        /\ member' = [q \in Requests |-> IF q \in R THEN "cancelled" ELSE member[q]]
        /\ flight' = [flight EXCEPT ![f] = "terminal"]
        /\ UNCHANGED <<leaseVars, queueVars, leader, role, joined, owner, attemptGen, stamp>>

\* _cancel_started_flight: every active consumer of the flight ends as unknown.
CancelFlight(f, att) ==
    LET R == Recipients({f})
    IN  /\ flight[f] = "active"
        /\ \A q \in R : state[q] = "queued"
        /\ ReleaseOccupancyOf(leader[f])
        /\ attempt' = [att EXCEPT ![leader[f]] = [k \in Sequences |->
                          IF @[k] = "started" THEN "unknown" ELSE @[k]]]
        /\ state' = [q \in Requests |-> IF q \in R THEN "failed" ELSE state[q]]
        /\ result' = [q \in Requests |-> IF q \in R THEN "unknown" ELSE result[q]]
        /\ member' = [q \in Requests |-> IF q \in R THEN "cancelled" ELSE member[q]]
        /\ flight' = [flight EXCEPT ![f] = "terminal"]
        /\ UNCHANGED <<leaseVars, queueVars, leader, role, joined, owner, attemptGen, stamp>>

\* Faulty: the reserved attempt of a cancelled leader stays reserved.
KeepReserved(r) == attempt

\* The live attempt of a leader, cancelled before it was sent, ends as failed.
Abandoned(r) ==
    [attempt EXCEPT ![r] = [k \in Sequences |-> IF @[k] = "reserved" THEN "failed" ELSE @[k]]]

\* A leader whose attempt was started, or that already has a terminal attempt.
CancelSentLeader(r) ==
    /\ active
    /\ member[r] = "active" /\ role[r] = "leader"
    /\ \/ /\ "started" \in AttemptStates(r)
          /\ CancelFlight(FpOf[r], attempt)
       \/ /\ "started" \notin AttemptStates(r)
          /\ AttemptStates(r) \cap Terminal # {}
          /\ queue[r] \in {"queued", "dequeued"}
          /\ CancelFlight(FpOf[r], Abandoned(r))

\* ORDER BY joined_at, logical_request_id LIMIT 1 over the active followers.
Followers(f) ==
    {q \in Requests : FpOf[q] = f /\ role[q] = "follower" /\ member[q] = "active"}
Oldest(S) ==
    {p \in S : \A q \in S : joined[p] < joined[q] \/ (joined[p] = joined[q] /\ p <= q)}

\* What the cancellation of an unsent leader does to everything but its flight.
WithdrawUnsent(r) ==
    /\ active
    /\ member[r] = "active" /\ role[r] = "leader"
    /\ AttemptStates(r) \subseteq {"reserved"}
    /\ queue[r] \in {"queued", "dequeued"}
    /\ state[r] = "queued"
    /\ ReleaseOccupancyOf(r)
    /\ attempt' = Abandoned(r)
    /\ state' = [state EXCEPT ![r] = "cancelled"]
    /\ result' = [result EXCEPT ![r] = "cancelled"]
    /\ member' = [member EXCEPT ![r] = "cancelled"]

\* The leader leaves: the oldest follower takes the flight over and is queued.
CancelLeaderPromote(r) ==
    LET f == FpOf[r]
    IN  \E p \in Oldest(Followers(f)) :
        /\ queue[p] = "none"
        /\ WithdrawUnsent(r)
        /\ role' = [role EXCEPT ![p] = "leader"]
        /\ leader' = [leader EXCEPT ![f] = p]
        /\ queue' = [queue EXCEPT ![r] = "cancelled", ![p] = "queued"]
        /\ stamp' = stamp + 1
        /\ enqueued' = [enqueued EXCEPT ![p] = stamp + 1]
        /\ UNCHANGED <<leaseVars, cursor, flight, joined, owner, attemptGen>>

\* Faulty: closes the flight over its waiting followers.
CancelLeaderAbandoningFollowers(r) ==
    LET f == FpOf[r]
    IN  /\ WithdrawUnsent(r)
        /\ flight' = [flight EXCEPT ![f] = "terminal"]
        /\ queue' = [queue EXCEPT ![r] = "cancelled"]
        /\ UNCHANGED <<leaseVars, enqueued, cursor, leader, role, joined, owner, attemptGen, stamp>>

CancelLeaderAlone(r) ==
    LET f == FpOf[r]
    IN  /\ Followers(f) = {}
        /\ WithdrawUnsent(r)
        /\ flight' = [flight EXCEPT ![f] = "terminal"]
        /\ queue' = [queue EXCEPT ![r] = "cancelled"]
        /\ UNCHANGED <<leaseVars, enqueued, cursor, leader, role, joined, owner, attemptGen, stamp>>

-------------------------------------------------------------------------------
(* claim_next_queued: round robin over the tasks waiting in the domain,     *)
(* first come first served within the task.                                 *)

TurnOf(d, t) ==
    LET waiting == {TaskOf[q] : q \in QueuedIn(queue, {d}, Tasks)}
        later == {u \in waiting : cursor[d] = NoTask \/ u > cursor[d]}
    IN  IF later # {} THEN t \in later /\ \A u \in later : t <= u
                      ELSE t \in waiting /\ \A u \in waiting : t <= u

FirstInTask(r) ==
    \A q \in QueuedIn(queue, {DomainOf[r]}, {TaskOf[r]}) :
        enqueued[r] < enqueued[q] \/ (enqueued[r] = enqueued[q] /\ r <= q)

ClaimNextQueued(r) ==
    /\ active
    /\ queue[r] = "queued"
    /\ TurnOf(DomainOf[r], TaskOf[r])
    /\ FirstInTask(r)
    /\ queue' = [queue EXCEPT ![r] = "dequeued"]
    /\ cursor' = [cursor EXCEPT ![DomainOf[r]] = TaskOf[r]]
    /\ UNCHANGED <<leaseVars, requestVars, enqueued, flightVars, consumerVars, attemptVars,
                   gateVars, stamp>>

-------------------------------------------------------------------------------
(* Physical attempts and their gates.                                       *)

\* assert_claimed_logical_request, which a caller passes before it reserves.
Claimed(r) ==
    /\ state[r] = "queued" /\ queue[r] = "dequeued"
    /\ role[r] = "leader" /\ member[r] = "active"
    /\ flight[FpOf[r]] = "active" /\ leader[FpOf[r]] = r

\* Faulty: reserves again after an unknown outcome.
ReserveAfterUnknown(r) ==
    \E k \in Sequences :
        /\ active
        /\ Claimed(r)
        /\ ~HasLiveAttempt(r)
        /\ NextSequence(r, k)
        /\ attempt' = [attempt EXCEPT ![r][k] = "reserved"]
        /\ attemptGen' = [attemptGen EXCEPT ![r][k] = generation]
        /\ UNCHANGED <<leaseVars, requestVars, queueVars, flightVars, consumerVars, gateVars, stamp>>

ReserveNextPhysicalAttempt(r) ==
    \E k \in Sequences :
        /\ active
        /\ Claimed(r)
        /\ "unknown" \notin AttemptStates(r)
        /\ ~HasLiveAttempt(r)
        /\ NextSequence(r, k)
        /\ attempt' = [attempt EXCEPT ![r][k] = "reserved"]
        /\ attemptGen' = [attemptGen EXCEPT ![r][k] = generation]
        /\ UNCHANGED <<leaseVars, requestVars, queueVars, flightVars, consumerVars, gateVars, stamp>>

\* discard_reserved_attempt: only an attempt that never held a gate.
DiscardReservedAttempt(r) ==
    \E k \in Sequences :
        /\ active
        /\ attempt[r][k] = "reserved" /\ attemptGen[r][k] = generation
        /\ reservation[r][k] = "none"
        /\ attempt' = [attempt EXCEPT ![r][k] = "none"]
        /\ attemptGen' = [attemptGen EXCEPT ![r][k] = 0]
        /\ UNCHANGED <<leaseVars, requestVars, queueVars, flightVars, consumerVars, gateVars, stamp>>

\* acquire_gates, for a reserved attempt or for one its caller numbered itself:
\* the first, or the next one of a series of successes.  The time limits of the
\* gates are left out: they only make the call fail at some moments.
AcquireGates(r) ==
    \E k \in Sequences :
        /\ active
        /\ queue[r] = "dequeued" /\ state[r] = "queued"
        /\ \A x \in KeysOf[r] : occupancy[x] < Concurrency[x]
        /\ \/ attempt[r][k] = "reserved" /\ attemptGen[r][k] = generation
           \/ NextSequence(r, k) /\ \A j \in Sequences : j < k => attempt[r][j] = "succeeded"
        /\ reservation[r][k] = "none"
        /\ attempt' = [attempt EXCEPT ![r][k] = "reserved"]
        /\ attemptGen' = [attemptGen EXCEPT ![r][k] = generation]
        /\ reservation' = [reservation EXCEPT ![r][k] = "active"]
        /\ occupancy' = [x \in Keys |-> occupancy[x] + (IF x \in KeysOf[r] THEN 1 ELSE 0)]
        /\ UNCHANGED <<leaseVars, requestVars, queueVars, flightVars, consumerVars, stamp>>

\* mark_physical_attempt_started; execute_exchange calls it with the gates held.
MarkPhysicalAttemptStarted(r) ==
    \E k \in Sequences :
        /\ active
        /\ reservation[r][k] = "active"
        /\ attempt[r][k] = "reserved" /\ attemptGen[r][k] = generation
        /\ attempt' = [attempt EXCEPT ![r][k] = "started"]
        /\ UNCHANGED <<leaseVars, requestVars, queueVars, flightVars, consumerVars, attemptGen,
                       gateVars, stamp>>

\* _finish_gate_reservation under release_gates, record_retry_after and
\* record_unknown_outcome.
FinishGateReservation(r) ==
    \E k \in Sequences, outcome \in Terminal :
        /\ active
        /\ reservation[r][k] = "active" /\ attemptGen[r][k] = generation
        /\ Countable({<<r, k>>})
        /\ reservation' = [reservation EXCEPT ![r][k] = "released"]
        /\ occupancy' = ReleasedOccupancy({<<r, k>>})
        /\ attempt' = [attempt EXCEPT ![r][k] = IF @ \in Live THEN outcome ELSE @]
        /\ UNCHANGED <<leaseVars, requestVars, queueVars, flightVars, consumerVars, attemptGen, stamp>>

-------------------------------------------------------------------------------
(* finalize_logical_request: the result and its delivery, in one step.      *)

\* _validate_finalization
Finalizable(r, outcome) ==
    /\ state[r] = "queued"
    /\ role[r] = "leader" /\ member[r] = "active"
    /\ OutcomeJustified(r, outcome, attempt)

FinalizeLogicalRequest(r) ==
    \E outcome \in Terminal :
        LET F == {FpOf[r]}
            st == [state EXCEPT ![r] = StateOf(outcome)]
            res == [result EXCEPT ![r] = outcome]
        IN  /\ active
            /\ Finalizable(r, outcome)
            /\ leader[FpOf[r]] = r
            /\ Deliverable(F, st, attempt)
            /\ state' = DeliveredState(F, st, res)
            /\ result' = DeliveredResult(F, res)
            /\ member' = DeliveredMember(F)
            /\ owner' = DeliveredOwner(F)
            /\ flight' = DeliveredFlight(F)
            /\ queue' = DeliveredQueue(F, queue)
            /\ UNCHANGED <<leaseVars, enqueued, cursor, leader, role, joined, attemptVars, gateVars, stamp>>

-------------------------------------------------------------------------------
(* recover_expired_lease: a new owner settles what the old one left.        *)

\* _validate_recovery_state
RecoveryAuditClean ==
    \A r \in Requests, k \in Sequences :
        /\ attemptGen[r][k] <= generation
        /\ attempt[r][k] = "started" => state[r] = "queued" /\ result[r] = "none"
        /\ attempt[r][k] \in Terminal =>
              IF state[r] = "queued" THEN reservation[r][k] = "released" ELSE result[r] # "none"

Interrupted == {r \in Requests : "started" \in AttemptStates(r)}
BetweenAttempts ==
    {r \in Requests : /\ state[r] = "queued"
                      /\ AttemptStates(r) \cap Terminal # {}
                      /\ ~HasLiveAttempt(r)}

RecoveredState ==
    [r \in Requests |-> IF r \in Interrupted \cup BetweenAttempts THEN "failed" ELSE state[r]]
RecoveredResult ==
    [r \in Requests |->
        IF r \in Interrupted THEN "unknown"
        ELSE IF r \in BetweenAttempts
             THEN IF "unknown" \in AttemptStates(r) THEN "unknown" ELSE "failed"
             ELSE result[r]]
RecoveredAttempt ==
    [r \in Requests |-> [k \in Sequences |->
        IF attempt[r][k] = "started" THEN "unknown" ELSE attempt[r][k]]]
RecoveredQueue ==
    [r \in Requests |->
        IF queue[r] = "dequeued" /\ state[r] = "queued" /\ AttemptStates(r) = {}
        THEN "queued" ELSE queue[r]]

\* Every check recovery makes; if one fails, no new owner can ever take over.
RecoveryAccepted ==
    /\ RecoveryAuditClean
    /\ Countable(Holding(Requests))
    /\ \A r \in Interrupted : state[r] = "queued"
    /\ \A r \in Interrupted \cup BetweenAttempts : result[r] = "none"
    /\ Reconcilable(Settled(RecoveredResult), RecoveredState, RecoveredResult, RecoveredAttempt)

RecoverExpiredLease ==
    LET F == Settled(RecoveredResult)
    IN  /\ active
        /\ generation < MaxGeneration
        /\ RecoveryAccepted
        /\ generation' = generation + 1
        /\ occupancy' = ReleasedOccupancy(Holding(Requests))
        /\ reservation' = Recovered(Requests)
        /\ attempt' = RecoveredAttempt
        /\ attemptGen' = [r \in Requests |-> [k \in Sequences |->
                              IF attempt[r][k] = "reserved" THEN generation + 1 ELSE attemptGen[r][k]]]
        /\ state' = DeliveredState(F, RecoveredState, RecoveredResult)
        /\ result' = DeliveredResult(F, RecoveredResult)
        /\ member' = DeliveredMember(F)
        /\ owner' = DeliveredOwner(F)
        /\ flight' = DeliveredFlight(F)
        /\ queue' = DeliveredQueue(F, RecoveredQueue)
        /\ UNCHANGED <<active, enqueued, cursor, leader, role, joined, stamp>>

-------------------------------------------------------------------------------
LeaseStep == AcquireLease \/ ReleaseLease \/ RecoverExpiredLease
AdmissionStep(r) == AdmitFollower(r) \/ AdmitLeader(r)
CancelStep(r) ==
    CancelFollower(r) \/ CancelSentLeader(r) \/ CancelLeaderPromote(r) \/ CancelLeaderAlone(r)
AttemptStep(r) ==
    \/ ReserveNextPhysicalAttempt(r)
    \/ DiscardReservedAttempt(r)
    \/ AcquireGates(r)
    \/ MarkPhysicalAttemptStarted(r)
    \/ FinishGateReservation(r)

Next ==
    \/ LeaseStep
    \/ \E r \in Requests :
          \/ AdmissionStep(r)
          \/ CancelStep(r)
          \/ ClaimNextQueued(r)
          \/ AttemptStep(r)
          \/ FinalizeLogicalRequest(r)

Spec == Init /\ [][Next]_vars

-------------------------------------------------------------------------------
(* Properties.                                                              *)

\* Every column holds a value the schema and the repository allow.
TypeOK ==
    /\ generation \in Nat /\ active \in BOOLEAN
    /\ state \in [Requests -> {"absent", "queued", "succeeded", "failed", "cancelled"}]
    /\ result \in [Requests -> Outcomes \cup {"none"}]
    /\ queue \in [Requests -> {"none", "queued", "dequeued", "cancelled", "rejected"}]
    /\ enqueued \in [Requests -> Nat]
    /\ cursor \in [Domains -> Tasks \cup {NoTask}]
    /\ flight \in [Fingerprints -> {"none", "active", "terminal"}]
    /\ leader \in [Fingerprints -> Requests \cup {NoRequest}]
    /\ role \in [Requests -> {"none", "leader", "follower"}]
    /\ member \in [Requests -> {"none", "active", "completed", "cancelled"}]
    /\ joined \in [Requests -> Nat]
    /\ owner \in [Requests -> Requests \cup {NoRequest}]
    /\ attempt \in [Requests -> [Sequences -> Terminal \cup Live \cup {"none"}]]
    /\ attemptGen \in [Requests -> [Sequences -> Nat]]
    /\ reservation \in [Requests -> [Sequences -> {"none", "active", "released", "recovered"}]]
    /\ occupancy \in [Keys -> Nat]
    /\ stamp \in Nat

\* The request row, its result row and its consumer row never disagree, whichever
\* of admission, cancellation, finalization and recovery wrote them last.
RowsAgree ==
    \A r \in Requests :
        /\ state[r] \in {"absent", "queued"} <=> result[r] = "none"
        /\ result[r] # "none" => state[r] = StateOf(result[r])
        /\ state[r] = "queued" <=> member[r] = "active"

\* Nobody waits for a flight that will never deliver: an active consumer's flight
\* is active, and an active flight has exactly one leader, itself still active and
\* in the queue or claimed (admission, promotion, delivery and recovery together).
NoConsumerStranded ==
    \A r \in Requests : member[r] = "active" =>
        LET l == leader[FpOf[r]]
        IN  /\ flight[FpOf[r]] = "active"
            /\ l \in Requests /\ FpOf[l] = FpOf[r]
            /\ member[l] = "active" /\ queue[l] \in {"queued", "dequeued"}
            /\ role[r] = "leader" <=> l = r

\* Single flight: of the requests with one fingerprint at most one may still be
\* sending, and it is the leader of the active flight; a follower never sends.
OneSenderPerFingerprint ==
    \A r \in Requests : HasLiveAttempt(r) =>
        /\ leader[FpOf[r]] = r /\ flight[FpOf[r]] = "active"
        /\ \A q \in Requests : FpOf[q] = FpOf[r] /\ HasLiveAttempt(q) => q = r

\* gate_state.active_count is the number of active reservations under the key,
\* through releases, cancellations and recoveries, and within its limit.
OccupancyExact ==
    \A x \in Keys : /\ occupancy[x] = Cardinality(Occupants(Holding(Requests), x))
                    /\ occupancy[x] <= Concurrency[x]

\* A gate is held for a live attempt of a request nobody has settled, and an
\* attempt that may be on the wire holds its gates until its outcome is recorded.
GatesCoverSends ==
    \A r \in Requests, k \in Sequences :
        /\ reservation[r][k] = "active" => attempt[r][k] \in Live /\ Claimed(r)
        /\ attempt[r][k] = "started" => reservation[r][k] = "active"

\* No sequence of calls, releases and crashes leads to a ledger that recovery
\* refuses with runtime_recovery_audit_gap: a crashed owner can always be replaced.
RecoveryNeverRefused == active => RecoveryAccepted

\* A result, once stored, is final: neither a late completion nor a cancellation nor
\* a recovery of a later owner rewrites it.
ResultIsFinal ==
    [][\A r \in Requests : result[r] # "none" => result'[r] = result[r] /\ state'[r] = state[r]]_vars

\* Nothing is sent again once an outcome is unknown or the request is settled: no
\* attempt of that request becomes started in a later step, of whichever owner.
UnknownIsNotResent ==
    [][\A r \in Requests, k \in Sequences :
          attempt'[r][k] = "started" /\ attempt[r][k] # "started" =>
              "unknown" \notin AttemptStates(r) /\ result[r] = "none"]_vars

\* The ledger keeps the promise of FlightPromise: with its queue, gates, leases and
\* recovery out of sight, every call either settles all who wait for one thing at once,
\* or lets one of them in or out, or changes nothing they can see.
waiting == {r \in Requests : member[r] = "active"}
proof == {r \in Requests : "succeeded" \in AttemptStates(r)}
Promise == INSTANCE FlightPromise WITH verdict <- result
KeepsPromise == Promise!Spec

-------------------------------------------------------------------------------
(* What a test of the repository says and the ledger does not do.           *)

\* "Keep an unsent reservation eligible": an attempt that recovery hands to the next
\* generation can still acquire its gates (gate_reservations allows one row per attempt).
TransferredAttemptEligible ==
    \A r \in Requests, k \in Sequences :
        attempt[r][k] = "reserved" => reservation[r][k] # "recovered"
===============================================================================
