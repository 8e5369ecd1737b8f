------------------------- MODULE RequestLedger_proofs -------------------------
(***************************************************************************)
(* Proofs about RequestLedger for every set of requests, every assignment  *)
(* of tasks, fingerprints and gate keys, and every limit and bound.        *)
(***************************************************************************)
EXTENDS RequestLedger, FiniteSetTheorems, TLAPS

RequestStates == {"absent", "queued", "succeeded", "failed", "cancelled"}
Results == Outcomes \cup {"none"}
QueueStates == {"none", "queued", "dequeued", "cancelled", "rejected"}
FlightStates == {"none", "active", "terminal"}
MemberStates == {"none", "active", "completed", "cancelled"}
AttemptTable == [Requests -> [Sequences -> Terminal \cup Live \cup {"none"}]]
ReservationTable == [Requests -> [Sequences -> {"none", "active", "released", "recovered"}]]

\* TypeOK is inductive once the leader of an active flight is known to exist.
TypeInv ==
    /\ TypeOK
    /\ \A f \in Fingerprints : flight[f] = "active" => leader[f] \in Requests

-------------------------------------------------------------------------------
(* Gate occupancy: counts of finite sets of reservations.                   *)

LEMMA OccupantsFinite ==
    ASSUME NEW A \in SUBSET (Requests \X Sequences), NEW x
    PROVE  IsFiniteSet(Occupants(A, x)) /\ Cardinality(Occupants(A, x)) \in Nat
<1>1. IsFiniteSet(Sequences)
  BY RequestLedgerAssumption, FS_Interval DEF Sequences
<1>2. IsFiniteSet(Requests \X Sequences)
  BY <1>1, RequestLedgerAssumption, FS_Product
<1>3. Occupants(A, x) \in SUBSET (Requests \X Sequences)
  BY DEF Occupants
<1>4. IsFiniteSet(Occupants(A, x))
  BY <1>2, <1>3, FS_Subset
<1> QED
  BY <1>4, FS_CardinalityType

\* A release that passes the check "active_count > 0" leaves counts that are counts.
LEMMA ReleasedOccupancyType ==
    ASSUME occupancy \in [Keys -> Nat],
           NEW A \in SUBSET (Requests \X Sequences), Countable(A)
    PROVE  ReleasedOccupancy(A) \in [Keys -> Nat]
<1>1. ASSUME NEW x \in Keys
      PROVE  occupancy[x] - Cardinality(Occupants(A, x)) \in Nat
  <2>1. Cardinality(Occupants(A, x)) \in Nat
    BY OccupantsFinite
  <2> QED
    BY <1>1, <2>1 DEF Countable
<1> QED
  BY <1>1 DEF ReleasedOccupancy

LEMMA ReleaseOccupancyType ==
    ASSUME TypeOK, NEW r \in Requests, ReleaseOccupancyOf(r)
    PROVE  occupancy' \in [Keys -> Nat] /\ reservation' \in ReservationTable
<1>1. Holding({r}) \in SUBSET (Requests \X Sequences)
  BY DEF Holding
<1>2. occupancy' \in [Keys -> Nat]
  BY <1>1, ReleasedOccupancyType DEF TypeOK, ReleaseOccupancyOf
<1>3. reservation' \in ReservationTable
  BY DEF TypeOK, ReleaseOccupancyOf, Recovered, ReservationTable
<1> QED
  BY <1>2, <1>3

-------------------------------------------------------------------------------
(* Delivery: what _finish_single_flight writes.                             *)

LEMMA DeliveryType ==
    ASSUME TypeOK,
           NEW F \in SUBSET Fingerprints,
           NEW st \in [Requests -> RequestStates],
           NEW res \in [Requests -> Results],
           NEW que \in [Requests -> QueueStates],
           \A f \in F : leader[f] \in Requests /\ res[leader[f]] # "none"
    PROVE  /\ DeliveredState(F, st, res) \in [Requests -> RequestStates]
           /\ DeliveredResult(F, res) \in [Requests -> Results]
           /\ DeliveredMember(F) \in [Requests -> MemberStates]
           /\ DeliveredOwner(F) \in [Requests -> Requests \cup {NoRequest}]
           /\ DeliveredFlight(F) \in [Fingerprints -> FlightStates]
           /\ DeliveredQueue(F, que) \in [Requests -> QueueStates]
<1>1. ASSUME NEW q \in Requests, q \in Recipients(F)
      PROVE  /\ leader[FpOf[q]] \in Requests
             /\ res[leader[FpOf[q]]] \in Outcomes
             /\ StateOf(res[leader[FpOf[q]]]) \in RequestStates
  <2>1. FpOf[q] \in F
    BY <1>1 DEF Recipients
  <2>2. leader[FpOf[q]] \in Requests /\ res[leader[FpOf[q]]] \in Outcomes
    BY <2>1 DEF Results
  <2> QED
    BY <2>2 DEF StateOf, Outcomes, RequestStates
<1>2. DeliveredState(F, st, res) \in [Requests -> RequestStates]
  BY <1>1 DEF DeliveredState
<1>3. DeliveredResult(F, res) \in [Requests -> Results]
  BY <1>1 DEF DeliveredResult, Results
<1>4. DeliveredMember(F) \in [Requests -> MemberStates]
  BY DEF DeliveredMember, TypeOK, MemberStates
<1>5. DeliveredOwner(F) \in [Requests -> Requests \cup {NoRequest}]
  BY <1>1 DEF DeliveredOwner, TypeOK
<1>6. DeliveredFlight(F) \in [Fingerprints -> FlightStates]
  BY DEF DeliveredFlight, TypeOK, FlightStates
<1>7. DeliveredQueue(F, que) \in [Requests -> QueueStates]
  BY DEF DeliveredQueue, QueueStates
<1> QED
  BY <1>2, <1>3, <1>4, <1>5, <1>6, <1>7

\* The flights a delivery closes are active ones whose leader has a result.
LEMMA SettledType ==
    ASSUME TypeInv, NEW res
    PROVE  /\ Settled(res) \in SUBSET Fingerprints
           /\ \A f \in Settled(res) : leader[f] \in Requests /\ res[leader[f]] # "none"
BY DEF Settled, TypeInv

\* No delivery opens a flight.
LEMMA DeliveryKeepsLeaders ==
    ASSUME TypeInv, NEW F, flight' = DeliveredFlight(F), leader' = leader
    PROVE  \A f \in Fingerprints : flight'[f] = "active" => leader'[f] \in Requests
BY DEF TypeInv, DeliveredFlight

-------------------------------------------------------------------------------
(* One lemma for each group of calls; together they make TypeInv inductive. *)

LEMMA InitType == Init => TypeInv
<1> SUFFICES ASSUME Init
             PROVE  TypeInv
  OBVIOUS
<1>1. attempt \in AttemptTable /\ reservation \in ReservationTable
  BY DEF Init, AttemptTable, ReservationTable
<1>2. TypeOK
  BY <1>1, Zenon DEF Init, TypeOK, AttemptTable, ReservationTable
<1> QED
  BY <1>2 DEF Init, TypeInv

LEMMA AcquireLeaseType ==
    ASSUME TypeInv, AcquireLease
    PROVE  TypeInv'
<1> DEFINE F == Settled(result)
<1>1. state \in [Requests -> RequestStates] /\ result \in [Requests -> Results]
      /\ queue \in [Requests -> QueueStates]
  BY DEF TypeInv, TypeOK, RequestStates, Results, QueueStates
<1>2. /\ F \in SUBSET Fingerprints
      /\ \A f \in F : leader[f] \in Requests /\ result[leader[f]] # "none"
  BY SettledType
<1>3. /\ state' \in [Requests -> RequestStates] /\ result' \in [Requests -> Results]
      /\ member' \in [Requests -> MemberStates]
      /\ owner' \in [Requests -> Requests \cup {NoRequest}]
      /\ flight' \in [Fingerprints -> FlightStates]
      /\ queue' \in [Requests -> QueueStates]
  BY <1>1, <1>2, DeliveryType DEF AcquireLease, TypeInv
<1>4. \A f \in Fingerprints : flight'[f] = "active" => leader'[f] \in Requests
  BY DeliveryKeepsLeaders DEF AcquireLease
<1>5. TypeOK'
  BY <1>3 DEF TypeInv, TypeOK, AcquireLease, attemptVars, gateVars, RequestStates, Results,
              MemberStates, FlightStates, QueueStates
<1> QED
  BY <1>4, <1>5 DEF TypeInv

LEMMA RecoverExpiredLeaseType ==
    ASSUME TypeInv, RecoverExpiredLease
    PROVE  TypeInv'
<1> DEFINE F == Settled(RecoveredResult)
<1>1. RecoveredState \in [Requests -> RequestStates]
  BY DEF TypeInv, TypeOK, RecoveredState, RequestStates
<1>2. RecoveredResult \in [Requests -> Results]
  BY DEF TypeInv, TypeOK, RecoveredResult, Results, Outcomes
<1>3. RecoveredQueue \in [Requests -> QueueStates]
  BY DEF TypeInv, TypeOK, RecoveredQueue, QueueStates
<1>4. RecoveredAttempt \in AttemptTable
  BY DEF TypeInv, TypeOK, RecoveredAttempt, AttemptTable, Terminal
<1>5. /\ F \in SUBSET Fingerprints
      /\ \A f \in F : leader[f] \in Requests /\ RecoveredResult[leader[f]] # "none"
  BY SettledType
<1>6. /\ state' \in [Requests -> RequestStates] /\ result' \in [Requests -> Results]
      /\ member' \in [Requests -> MemberStates]
      /\ owner' \in [Requests -> Requests \cup {NoRequest}]
      /\ flight' \in [Fingerprints -> FlightStates]
      /\ queue' \in [Requests -> QueueStates]
  BY <1>1, <1>2, <1>3, <1>5, DeliveryType DEF RecoverExpiredLease, TypeInv
<1>7. \A f \in Fingerprints : flight'[f] = "active" => leader'[f] \in Requests
  BY DeliveryKeepsLeaders DEF RecoverExpiredLease
<1>8. occupancy' \in [Keys -> Nat]
  <2>1. Holding(Requests) \in SUBSET (Requests \X Sequences)
    BY DEF Holding
  <2> QED
    BY <2>1, ReleasedOccupancyType DEF RecoverExpiredLease, RecoveryAccepted, TypeInv, TypeOK
<1>9. reservation' \in ReservationTable
  BY DEF TypeInv, TypeOK, RecoverExpiredLease, Recovered, ReservationTable
<1>10. attemptGen' \in [Requests -> [Sequences -> Nat]] /\ generation' \in Nat
  BY DEF TypeInv, TypeOK, RecoverExpiredLease
<1>11. TypeOK'
  BY <1>4, <1>6, <1>8, <1>9, <1>10
  DEF TypeInv, TypeOK, RecoverExpiredLease, RequestStates, Results, MemberStates, FlightStates,
      QueueStates, AttemptTable, ReservationTable
<1> QED
  BY <1>7, <1>11 DEF TypeInv

LEMMA ReleaseLeaseType ==
    ASSUME TypeInv, ReleaseLease
    PROVE  TypeInv'
BY DEF TypeInv, TypeOK, ReleaseLease, requestVars, queueVars, flightVars, consumerVars,
       attemptVars, gateVars

LEMMA AdmitFollowerType ==
    ASSUME TypeInv, NEW r \in Requests, AdmitFollower(r)
    PROVE  TypeInv'
BY DEF TypeInv, TypeOK, AdmitFollower, leaseVars, queueVars, flightVars, attemptVars, gateVars

LEMMA AdmitLeaderType ==
    ASSUME TypeInv, NEW r \in Requests, AdmitLeader(r)
    PROVE  TypeInv'
<1> DEFINE f == FpOf[r]
           F == Settled(result) \cap {f}
           que == DeliveredQueue(F, queue)
           mem == DeliveredMember(F)
           rejected == QueueFull(que, r)
<1>1. f \in Fingerprints
  BY DEF Fingerprints
<1>2. state \in [Requests -> RequestStates] /\ result \in [Requests -> Results]
      /\ queue \in [Requests -> QueueStates]
  BY DEF TypeInv, TypeOK, RequestStates, Results, QueueStates
<1>3. /\ F \in SUBSET Fingerprints
      /\ \A g \in F : leader[g] \in Requests /\ result[leader[g]] # "none"
  BY SettledType
<1>4. /\ DeliveredState(F, state, result) \in [Requests -> RequestStates]
      /\ DeliveredResult(F, result) \in [Requests -> Results]
      /\ mem \in [Requests -> MemberStates]
      /\ DeliveredOwner(F) \in [Requests -> Requests \cup {NoRequest}]
      /\ que \in [Requests -> QueueStates]
  BY <1>2, <1>3, DeliveryType DEF TypeInv
<1>5. /\ state' = [DeliveredState(F, state, result) EXCEPT
                      ![r] = IF rejected THEN "failed" ELSE "queued"]
      /\ result' = [DeliveredResult(F, result) EXCEPT
                      ![r] = IF rejected THEN "failed" ELSE "none"]
      /\ queue' = [que EXCEPT ![r] = IF rejected THEN "rejected" ELSE "queued"]
      /\ member' = [mem EXCEPT ![r] = IF rejected THEN "cancelled" ELSE "active"]
      /\ flight' = [flight EXCEPT ![f] = IF rejected THEN "terminal" ELSE "active"]
      /\ leader' = [leader EXCEPT ![f] = r]
      /\ role' = [role EXCEPT ![r] = "leader"]
      /\ owner' = DeliveredOwner(F)
      /\ stamp' = stamp + 1
      /\ joined' = [joined EXCEPT ![r] = stamp + 1]
      /\ enqueued' = [enqueued EXCEPT ![r] = stamp + 1]
      /\ UNCHANGED <<leaseVars, cursor, attemptVars, gateVars>>
  BY DEF AdmitLeader
<1> HIDE DEF f, F, que, mem, rejected
<1>6. /\ state' \in [Requests -> RequestStates] /\ result' \in [Requests -> Results]
      /\ queue' \in [Requests -> QueueStates] /\ member' \in [Requests -> MemberStates]
  BY <1>4, <1>5 DEF RequestStates, Results, QueueStates, MemberStates, Outcomes
<1>7. \A g \in Fingerprints : flight'[g] = "active" => leader'[g] \in Requests
  BY <1>1, <1>5 DEF TypeInv, TypeOK
<1>8. TypeOK'
  BY <1>1, <1>4, <1>5, <1>6
  DEF TypeInv, TypeOK, leaseVars, attemptVars, gateVars, RequestStates, Results, QueueStates,
      MemberStates
<1> QED
  BY <1>7, <1>8 DEF TypeInv

LEMMA CancelFlightType ==
    ASSUME TypeInv, NEW f \in Fingerprints, NEW att \in AttemptTable, CancelFlight(f, att)
    PROVE  TypeInv'
<1>1. leader[f] \in Requests
  BY DEF TypeInv, CancelFlight
<1>2. occupancy' \in [Keys -> Nat] /\ reservation' \in ReservationTable
  BY <1>1, ReleaseOccupancyType DEF TypeInv, CancelFlight
<1>3. attempt' \in AttemptTable
  <2>1. attempt' = [att EXCEPT ![leader[f]] = [k \in Sequences |->
                       IF att[leader[f]][k] = "started" THEN "unknown" ELSE att[leader[f]][k]]]
    BY DEF CancelFlight
  <2> QED
    BY <1>1, <2>1 DEF AttemptTable, Terminal
<1>4. /\ state' \in [Requests -> RequestStates] /\ result' \in [Requests -> Results]
      /\ member' \in [Requests -> MemberStates] /\ flight' \in [Fingerprints -> FlightStates]
  BY DEF CancelFlight, TypeInv, TypeOK, RequestStates, Results, Outcomes, MemberStates, FlightStates
<1>5. TypeOK'
  BY <1>2, <1>3, <1>4
  DEF CancelFlight, TypeInv, TypeOK, leaseVars, queueVars, AttemptTable, ReservationTable,
      RequestStates, Results, MemberStates, FlightStates
<1>6. \A g \in Fingerprints : flight'[g] = "active" => leader'[g] \in Requests
  BY DEF CancelFlight, TypeInv, TypeOK
<1> QED
  BY <1>5, <1>6 DEF TypeInv

LEMMA AbandonedType ==
    ASSUME TypeOK, NEW r \in Requests
    PROVE  Abandoned(r) \in AttemptTable
<1>1. Abandoned(r) = [attempt EXCEPT ![r] = [k \in Sequences |->
                         IF attempt[r][k] = "reserved" THEN "failed" ELSE attempt[r][k]]]
  BY DEF Abandoned
<1> QED
  BY <1>1 DEF TypeOK, AttemptTable, Terminal

LEMMA WithdrawUnsentType ==
    ASSUME TypeOK, NEW r \in Requests, WithdrawUnsent(r)
    PROVE  /\ occupancy' \in [Keys -> Nat] /\ reservation' \in ReservationTable
           /\ attempt' \in AttemptTable
           /\ state' \in [Requests -> RequestStates] /\ result' \in [Requests -> Results]
           /\ member' \in [Requests -> MemberStates]
<1>1. occupancy' \in [Keys -> Nat] /\ reservation' \in ReservationTable
  BY ReleaseOccupancyType DEF WithdrawUnsent
<1>2. attempt' \in AttemptTable
  BY AbandonedType DEF WithdrawUnsent
<1>3. /\ state' \in [Requests -> RequestStates] /\ result' \in [Requests -> Results]
      /\ member' \in [Requests -> MemberStates]
  BY DEF WithdrawUnsent, TypeOK, RequestStates, Results, Outcomes, MemberStates
<1> QED
  BY <1>1, <1>2, <1>3

LEMMA CancelType ==
    ASSUME TypeInv, NEW r \in Requests, CancelStep(r)
    PROVE  TypeInv'
<1>0. FpOf[r] \in Fingerprints
  BY DEF Fingerprints
<1>1. CASE CancelFollower(r)
  BY <1>1 DEF TypeInv, TypeOK, CancelFollower, leaseVars, queueVars, flightVars, attemptVars,
              gateVars, Outcomes
<1>2. CASE CancelSentLeader(r)
  <2>1. attempt \in AttemptTable /\ Abandoned(r) \in AttemptTable
    BY AbandonedType DEF TypeInv, TypeOK, AttemptTable
  <2> QED
    BY <1>0, <1>2, <2>1, CancelFlightType DEF CancelSentLeader
<1>3. CASE CancelLeaderPromote(r)
  <2>1. PICK p \in Requests :
           /\ WithdrawUnsent(r)
           /\ role' = [role EXCEPT ![p] = "leader"]
           /\ leader' = [leader EXCEPT ![FpOf[r]] = p]
           /\ queue' = [queue EXCEPT ![r] = "cancelled", ![p] = "queued"]
           /\ stamp' = stamp + 1
           /\ enqueued' = [enqueued EXCEPT ![p] = stamp + 1]
           /\ UNCHANGED <<leaseVars, cursor, flight, joined, owner, attemptGen>>
    BY <1>3 DEF CancelLeaderPromote, Oldest, Followers
  <2>2. \A g \in Fingerprints : flight'[g] = "active" => leader'[g] \in Requests
    BY <1>0, <2>1 DEF TypeInv, TypeOK
  <2>3. /\ occupancy' \in [Keys -> Nat] /\ reservation' \in ReservationTable
        /\ attempt' \in AttemptTable
        /\ state' \in [Requests -> RequestStates] /\ result' \in [Requests -> Results]
        /\ member' \in [Requests -> MemberStates]
    BY <2>1, WithdrawUnsentType DEF TypeInv
  <2>4. /\ queue' \in [Requests -> QueueStates]
        /\ role' \in [Requests -> {"none", "leader", "follower"}]
        /\ leader' \in [Fingerprints -> Requests \cup {NoRequest}]
        /\ enqueued' \in [Requests -> Nat] /\ stamp' \in Nat
    <3>1. queue' \in [Requests -> QueueStates]
      BY <2>1 DEF TypeInv, TypeOK, QueueStates
    <3>2. role' \in [Requests -> {"none", "leader", "follower"}]
      BY <2>1 DEF TypeInv, TypeOK
    <3>3. leader' \in [Fingerprints -> Requests \cup {NoRequest}]
      BY <1>0, <2>1 DEF TypeInv, TypeOK
    <3>4. enqueued' \in [Requests -> Nat] /\ stamp' \in Nat
      BY <2>1 DEF TypeInv, TypeOK
    <3> QED
      BY <3>1, <3>2, <3>3, <3>4
  <2>5. TypeOK'
    BY <2>1, <2>3, <2>4
    DEF TypeInv, TypeOK, leaseVars, AttemptTable, ReservationTable, RequestStates, Results,
        MemberStates, QueueStates
  <2> QED
    BY <2>2, <2>5 DEF TypeInv
<1>4. CASE CancelLeaderAlone(r)
  <2>1. \A g \in Fingerprints : flight'[g] = "active" => leader'[g] \in Requests
    BY <1>0, <1>4 DEF CancelLeaderAlone, TypeInv, TypeOK
  <2>2. WithdrawUnsent(r)
    BY <1>4 DEF CancelLeaderAlone
  <2>3. /\ occupancy' \in [Keys -> Nat] /\ reservation' \in ReservationTable
        /\ attempt' \in AttemptTable
        /\ state' \in [Requests -> RequestStates] /\ result' \in [Requests -> Results]
        /\ member' \in [Requests -> MemberStates]
    BY <2>2, WithdrawUnsentType DEF TypeInv
  <2>4. TypeOK'
    BY <1>0, <1>4, <2>3
    DEF CancelLeaderAlone, TypeInv, TypeOK, leaseVars, AttemptTable, ReservationTable,
        RequestStates, Results, MemberStates
  <2> QED
    BY <2>1, <2>4 DEF TypeInv
<1> QED
  BY <1>1, <1>2, <1>3, <1>4 DEF CancelStep

LEMMA ClaimType ==
    ASSUME TypeInv, NEW r \in Requests, ClaimNextQueued(r)
    PROVE  TypeInv'
BY DEF TypeInv, TypeOK, ClaimNextQueued, leaseVars, requestVars, flightVars, consumerVars,
       attemptVars, gateVars, Domains, Tasks

LEMMA AttemptType ==
    ASSUME TypeInv, NEW r \in Requests, AttemptStep(r)
    PROVE  TypeInv'
<1> USE DEF TypeInv, TypeOK, leaseVars, requestVars, queueVars, flightVars, consumerVars
<1>1. CASE ReserveNextPhysicalAttempt(r)
  BY <1>1 DEF ReserveNextPhysicalAttempt, gateVars, Live
<1>2. CASE DiscardReservedAttempt(r)
  BY <1>2 DEF DiscardReservedAttempt, gateVars
<1>3. CASE AcquireGates(r)
  BY <1>3 DEF AcquireGates, Live
<1>4. CASE MarkPhysicalAttemptStarted(r)
  BY <1>4 DEF MarkPhysicalAttemptStarted, gateVars, Live
<1>5. CASE FinishGateReservation(r)
  <2>1. PICK k \in Sequences, outcome \in Terminal :
           /\ Countable({<<r, k>>})
           /\ reservation' = [reservation EXCEPT ![r][k] = "released"]
           /\ occupancy' = ReleasedOccupancy({<<r, k>>})
           /\ attempt' = [attempt EXCEPT ![r][k] = IF @ \in Live THEN outcome ELSE @]
           /\ UNCHANGED <<leaseVars, requestVars, queueVars, flightVars, consumerVars, attemptGen, stamp>>
    BY <1>5 DEF FinishGateReservation
  <2>2. occupancy' \in [Keys -> Nat]
    <3>1. {<<r, k>>} \in SUBSET (Requests \X Sequences)
      BY <2>1
    <3> QED
      BY <2>1, <3>1, ReleasedOccupancyType
  <2>3. attempt' \in AttemptTable
    BY <2>1 DEF AttemptTable
  <2> QED
    BY <2>1, <2>2, <2>3 DEF AttemptTable
<1> QED
  BY <1>1, <1>2, <1>3, <1>4, <1>5 DEF AttemptStep

LEMMA FinalizeType ==
    ASSUME TypeInv, NEW r \in Requests, FinalizeLogicalRequest(r)
    PROVE  TypeInv'
<1>1. PICK outcome \in Terminal :
         LET F == {FpOf[r]}
             st == [state EXCEPT ![r] = StateOf(outcome)]
             res == [result EXCEPT ![r] = outcome]
         IN  /\ leader[FpOf[r]] = r
             /\ state' = DeliveredState(F, st, res)
             /\ result' = DeliveredResult(F, res)
             /\ member' = DeliveredMember(F)
             /\ owner' = DeliveredOwner(F)
             /\ flight' = DeliveredFlight(F)
             /\ queue' = DeliveredQueue(F, queue)
             /\ UNCHANGED <<leaseVars, enqueued, cursor, leader, role, joined, attemptVars, gateVars, stamp>>
  BY DEF FinalizeLogicalRequest
<1> DEFINE F == {FpOf[r]}
           st == [state EXCEPT ![r] = StateOf(outcome)]
           res == [result EXCEPT ![r] = outcome]
<1>2. /\ st \in [Requests -> RequestStates] /\ res \in [Requests -> Results]
      /\ queue \in [Requests -> QueueStates]
  BY DEF TypeInv, TypeOK, StateOf, RequestStates, Results, QueueStates, Outcomes, Terminal
<1>3. F \in SUBSET Fingerprints
  BY DEF Fingerprints
<1>4. \A f \in F : leader[f] \in Requests /\ res[leader[f]] # "none"
  BY <1>1 DEF TypeInv, TypeOK, Terminal
<1>5. /\ state' \in [Requests -> RequestStates] /\ result' \in [Requests -> Results]
      /\ member' \in [Requests -> MemberStates]
      /\ owner' \in [Requests -> Requests \cup {NoRequest}]
      /\ flight' \in [Fingerprints -> FlightStates]
      /\ queue' \in [Requests -> QueueStates]
  BY <1>1, <1>2, <1>3, <1>4, DeliveryType DEF TypeInv
<1>6. \A f \in Fingerprints : flight'[f] = "active" => leader'[f] \in Requests
  BY <1>1, DeliveryKeepsLeaders
<1>7. TypeOK'
  BY <1>1, <1>5 DEF TypeInv, TypeOK, leaseVars, attemptVars, gateVars, RequestStates, Results,
                    MemberStates, FlightStates, QueueStates
<1> QED
  BY <1>6, <1>7 DEF TypeInv

LEMMA TypeInvStep == TypeInv /\ [Next]_vars => TypeInv'
<1> SUFFICES ASSUME TypeInv, [Next]_vars
             PROVE  TypeInv'
  OBVIOUS
<1>1. CASE LeaseStep
  BY <1>1, AcquireLeaseType, ReleaseLeaseType, RecoverExpiredLeaseType DEF LeaseStep
<1>2. ASSUME NEW r \in Requests,
             AdmissionStep(r) \/ CancelStep(r) \/ ClaimNextQueued(r) \/ AttemptStep(r)
                 \/ FinalizeLogicalRequest(r)
      PROVE  TypeInv'
  BY <1>2, AdmitFollowerType, AdmitLeaderType, CancelType, ClaimType, AttemptType, FinalizeType
  DEF AdmissionStep
<1>3. CASE UNCHANGED vars
  BY <1>3 DEF vars, TypeInv, TypeOK
<1> QED
  BY <1>1, <1>2, <1>3 DEF Next

\* Every reachable ledger is well typed, counts of active reservations included: no
\* release or recovery ever drives active_count below zero.
THEOREM TypeCorrect == Spec => []TypeOK
<1>1. TypeInv => TypeOK
  BY DEF TypeInv
<1> QED
  BY <1>1, InitType, TypeInvStep, PTL DEF Spec

-------------------------------------------------------------------------------
(* The inductive invariant behind single flight and the gates.              *)

\* An active flight is led by a waiting request with its fingerprint.
FlightLed ==
    \A f \in Fingerprints : flight[f] = "active" =>
        leader[f] \in Requests /\ FpOf[leader[f]] = f /\ member[leader[f]] = "active"

\* A request not admitted yet has left no row anywhere.
AbsentIsBlank ==
    \A r \in Requests : state[r] = "absent" =>
        role[r] = "none" /\ queue[r] = "none" /\ \A k \in Sequences : attempt[r][k] = "none"

\* Only leaders are queued and only leaders make attempts.
FollowersIdle ==
    \A r \in Requests :
        /\ member[r] # "none" => role[r] # "none"
        /\ role[r] = "follower" => queue[r] = "none" /\ \A k \in Sequences : attempt[r][k] = "none"

\* A live attempt belongs to the claimed leader of an active flight; it is the only one.
LiveIsClaimed ==
    \A r \in Requests, k \in Sequences : attempt[r][k] \in Live =>
        /\ Claimed(r)
        /\ \A j \in Sequences : attempt[r][j] \in Live => j = k

\* Gates are held for live attempts, and by every started one.
GateOfLive ==
    \A r \in Requests, k \in Sequences :
        /\ reservation[r][k] = "active" => attempt[r][k] \in Live
        /\ attempt[r][k] = "started" => reservation[r][k] = "active"
        /\ attempt[r][k] = "none" => reservation[r][k] = "none"

LedgerInv ==
    /\ TypeInv
    /\ RowsAgree
    /\ NoConsumerStranded
    /\ FlightLed
    /\ AbsentIsBlank
    /\ FollowersIdle
    /\ LiveIsClaimed
    /\ GateOfLive

\* What it gives at once: single flight among the senders, and gates around sends.
LEMMA LedgerInvSuffices ==
    ASSUME LedgerInv
    PROVE  OneSenderPerFingerprint /\ GatesCoverSends
<1>1. OneSenderPerFingerprint
  BY DEF LedgerInv, OneSenderPerFingerprint, LiveIsClaimed, HasLiveAttempt, AttemptStates, Claimed
<1>2. GatesCoverSends
  BY DEF LedgerInv, GatesCoverSends, LiveIsClaimed, GateOfLive
<1> QED
  BY <1>1, <1>2

\* Between calls no active flight has a leader with a result: every call that settles
\* a leader delivers in the same transaction.
LEMMA NothingSettled ==
    ASSUME LedgerInv
    PROVE  Settled(result) = {}
BY DEF LedgerInv, FlightLed, RowsAgree, Settled

LEMMA DeliverNothing ==
    ASSUME TypeInv
    PROVE  /\ DeliveredState({}, state, result) = state
           /\ DeliveredResult({}, result) = result
           /\ DeliveredMember({}) = member
           /\ DeliveredOwner({}) = owner
           /\ DeliveredFlight({}) = flight
           /\ DeliveredQueue({}, queue) = queue
<1>1. Recipients({}) = {}
  BY DEF Recipients
<1> QED
  BY <1>1 DEF TypeInv, TypeOK, DeliveredState, DeliveredResult, DeliveredMember, DeliveredOwner,
              DeliveredFlight, DeliveredQueue

LEMMA InitInv == Init => LedgerInv
<1> SUFFICES ASSUME Init
             PROVE  LedgerInv
  OBVIOUS
<1>1. TypeInv
  BY InitType
<1>2. RowsAgree /\ NoConsumerStranded
  BY DEF Init, RowsAgree, NoConsumerStranded
<1>3. FlightLed /\ AbsentIsBlank /\ FollowersIdle
  BY DEF Init, FlightLed, AbsentIsBlank, FollowersIdle
<1>4. LiveIsClaimed /\ GateOfLive
  BY DEF Init, LiveIsClaimed, GateOfLive, Live
<1> QED
  BY <1>1, <1>2, <1>3, <1>4 DEF LedgerInv

-------------------------------------------------------------------------------
(* Calls that change no request, consumer, flight or attempt row.           *)

LEMMA LeaseOnlyInv ==
    ASSUME LedgerInv, TypeInv',
           UNCHANGED <<requestVars, queueVars, flightVars, consumerVars, attemptVars, gateVars>>
    PROVE  LedgerInv'
BY DEF LedgerInv, requestVars, queueVars, flightVars, consumerVars, attemptVars, gateVars,
       RowsAgree, NoConsumerStranded, FlightLed, AbsentIsBlank, FollowersIdle, LiveIsClaimed,
       GateOfLive, Claimed

LEMMA AcquireLeaseInv ==
    ASSUME LedgerInv, AcquireLease
    PROVE  LedgerInv'
<1>1. Settled(result) = {}
  BY NothingSettled
<1>2. UNCHANGED <<requestVars, queueVars, flightVars, consumerVars, attemptVars, gateVars>>
  BY <1>1, DeliverNothing
  DEF LedgerInv, AcquireLease, requestVars, queueVars, flightVars, consumerVars, attemptVars, gateVars
<1> QED
  BY <1>2, LeaseOnlyInv, AcquireLeaseType DEF LedgerInv

LEMMA ReleaseLeaseInv ==
    ASSUME LedgerInv, ReleaseLease
    PROVE  LedgerInv'
BY LeaseOnlyInv, ReleaseLeaseType DEF LedgerInv, ReleaseLease

LEMMA ClaimInv ==
    ASSUME LedgerInv, NEW r \in Requests, ClaimNextQueued(r)
    PROVE  LedgerInv'
<1>1. TypeInv'
  BY ClaimType DEF LedgerInv
<1>2. /\ queue[r] = "queued"
      /\ queue' = [queue EXCEPT ![r] = "dequeued"]
      /\ UNCHANGED <<requestVars, flightVars, consumerVars, attemptVars, gateVars>>
  BY DEF ClaimNextQueued
<1> USE DEF LedgerInv, TypeInv, TypeOK, requestVars, flightVars, consumerVars, attemptVars, gateVars
<1>3. RowsAgree' /\ FlightLed'
  BY <1>2 DEF RowsAgree, FlightLed
<1>4. NoConsumerStranded'
  BY <1>2 DEF NoConsumerStranded
<1>5. AbsentIsBlank' /\ FollowersIdle'
  BY <1>2 DEF AbsentIsBlank, FollowersIdle
<1>6. LiveIsClaimed' /\ GateOfLive'
  BY <1>2 DEF LiveIsClaimed, GateOfLive, Claimed
<1> QED
  BY <1>1, <1>3, <1>4, <1>5, <1>6

-------------------------------------------------------------------------------
(* Admission.                                                               *)

LEMMA AdmitFollowerInv ==
    ASSUME LedgerInv, NEW r \in Requests, AdmitFollower(r)
    PROVE  LedgerInv'
<1>1. TypeInv'
  BY AdmitFollowerType DEF LedgerInv
<1>2. /\ state[r] = "absent" /\ flight[FpOf[r]] = "active"
      /\ state' = [state EXCEPT ![r] = "queued"]
      /\ role' = [role EXCEPT ![r] = "follower"]
      /\ member' = [member EXCEPT ![r] = "active"]
      /\ UNCHANGED <<leaseVars, result, queueVars, flightVars, owner, attemptVars, gateVars>>
  BY DEF AdmitFollower
<1>3. FpOf[r] \in Fingerprints
  BY DEF Fingerprints
<1>4. /\ result[r] = "none" /\ member[r] # "active" /\ queue[r] = "none" /\ role[r] = "none"
      /\ \A k \in Sequences : attempt[r][k] = "none"
      /\ leader[FpOf[r]] # r
  BY <1>2, <1>3 DEF LedgerInv, RowsAgree, AbsentIsBlank, FlightLed
<1> USE DEF LedgerInv, TypeInv, TypeOK, leaseVars, queueVars, flightVars, attemptVars, gateVars
<1>5. RowsAgree' /\ FlightLed'
  BY <1>2, <1>4 DEF RowsAgree, FlightLed
<1>6. NoConsumerStranded'
  <2> SUFFICES ASSUME NEW q \in Requests, member'[q] = "active"
               PROVE  /\ flight'[FpOf[q]] = "active"
                      /\ leader'[FpOf[q]] \in Requests /\ FpOf[leader'[FpOf[q]]] = FpOf[q]
                      /\ member'[leader'[FpOf[q]]] = "active"
                      /\ queue'[leader'[FpOf[q]]] \in {"queued", "dequeued"}
                      /\ role'[q] = "leader" <=> leader'[FpOf[q]] = q
    BY DEF NoConsumerStranded
  <2>1. CASE q = r
    <3>1. leader[FpOf[r]] \in Requests /\ FpOf[leader[FpOf[r]]] = FpOf[r]
          /\ member[leader[FpOf[r]]] = "active"
      BY <1>2, <1>3 DEF FlightLed
    <3>2. queue[leader[FpOf[r]]] \in {"queued", "dequeued"}
      BY <3>1 DEF NoConsumerStranded
    <3> QED
      BY <1>2, <1>4, <2>1, <3>1, <3>2
  <2>2. CASE q # r
    BY <1>2, <2>2 DEF NoConsumerStranded
  <2> QED
    BY <2>1, <2>2
<1>7. AbsentIsBlank' /\ FollowersIdle'
  BY <1>2, <1>4 DEF AbsentIsBlank, FollowersIdle
<1>8. LiveIsClaimed' /\ GateOfLive'
  BY <1>2, <1>4 DEF LiveIsClaimed, GateOfLive, Claimed, Live
<1> QED
  BY <1>1, <1>5, <1>6, <1>7, <1>8

LEMMA AdmitLeaderInv ==
    ASSUME LedgerInv, NEW r \in Requests, AdmitLeader(r)
    PROVE  LedgerInv'
<1>1. TypeInv'
  BY AdmitLeaderType DEF LedgerInv
<1> DEFINE rejected == QueueFull(queue, r)
           f == FpOf[r]
<1>2. /\ state[r] = "absent" /\ flight[f] # "active"
      /\ \A q \in Requests : FpOf[q] = f => member[q] # "active"
      /\ state' = [state EXCEPT ![r] = IF rejected THEN "failed" ELSE "queued"]
      /\ result' = [result EXCEPT ![r] = IF rejected THEN "failed" ELSE "none"]
      /\ queue' = [queue EXCEPT ![r] = IF rejected THEN "rejected" ELSE "queued"]
      /\ member' = [member EXCEPT ![r] = IF rejected THEN "cancelled" ELSE "active"]
      /\ flight' = [flight EXCEPT ![f] = IF rejected THEN "terminal" ELSE "active"]
      /\ leader' = [leader EXCEPT ![f] = r]
      /\ role' = [role EXCEPT ![r] = "leader"]
      /\ UNCHANGED <<leaseVars, cursor, attemptVars, gateVars>>
  <2>1. Settled(result) \cap {f} = {}
    BY NothingSettled
  <2> QED
    BY <2>1, DeliverNothing DEF AdmitLeader, LedgerInv
<1>3. f \in Fingerprints
  BY DEF Fingerprints
<1>4. result[r] = "none" /\ \A k \in Sequences : attempt[r][k] = "none"
  BY <1>2 DEF LedgerInv, RowsAgree, AbsentIsBlank
<1> HIDE DEF rejected, f
<1> USE DEF LedgerInv, TypeInv, TypeOK, leaseVars, attemptVars, gateVars
<1>5. RowsAgree'
  BY <1>2 DEF RowsAgree, StateOf
<1>6. FlightLed'
  BY <1>2, <1>3 DEF FlightLed, f
<1>7. NoConsumerStranded'
  <2> SUFFICES ASSUME NEW q \in Requests, member'[q] = "active"
               PROVE  /\ flight'[FpOf[q]] = "active"
                      /\ leader'[FpOf[q]] \in Requests /\ FpOf[leader'[FpOf[q]]] = FpOf[q]
                      /\ member'[leader'[FpOf[q]]] = "active"
                      /\ queue'[leader'[FpOf[q]]] \in {"queued", "dequeued"}
                      /\ role'[q] = "leader" <=> leader'[FpOf[q]] = q
    BY DEF NoConsumerStranded
  <2>1. CASE q = r
    BY <1>2, <1>3, <2>1 DEF f
  <2>2. CASE q # r
    <3>1. member[q] = "active" /\ FpOf[q] # f
      BY <1>2, <2>2
    <3>2. FpOf[q] \in Fingerprints /\ leader[FpOf[q]] # r
      BY <1>2, <3>1 DEF NoConsumerStranded, Fingerprints, f
    <3> QED
      BY <1>2, <2>2, <3>1, <3>2 DEF NoConsumerStranded
  <2> QED
    BY <2>1, <2>2
<1>8. AbsentIsBlank' /\ FollowersIdle'
  BY <1>2, <1>4 DEF AbsentIsBlank, FollowersIdle
<1>9. LiveIsClaimed'
  <2>1. ASSUME NEW q \in Requests, NEW k \in Sequences, attempt[q][k] \in Live
        PROVE  q # r /\ FpOf[q] # f /\ FpOf[q] \in Fingerprints
    BY <1>2, <1>4, <2>1 DEF LiveIsClaimed, Claimed, Fingerprints, Live, f
  <2> QED
    BY <1>2, <2>1 DEF LiveIsClaimed, Claimed
<1>10. GateOfLive'
  BY <1>2 DEF GateOfLive
<1> QED
  BY <1>1, <1>5, <1>6, <1>7, <1>8, <1>9, <1>10

-------------------------------------------------------------------------------
(* Cancellation.                                                            *)

LEMMA CancelFollowerInv ==
    ASSUME LedgerInv, NEW r \in Requests, CancelFollower(r)
    PROVE  LedgerInv'
<1>1. TypeInv'
  BY CancelType DEF LedgerInv, CancelStep
<1>2. /\ member[r] = "active" /\ role[r] = "follower" /\ state[r] = "queued"
      /\ state' = [state EXCEPT ![r] = "cancelled"]
      /\ result' = [result EXCEPT ![r] = "cancelled"]
      /\ member' = [member EXCEPT ![r] = "cancelled"]
      /\ UNCHANGED <<leaseVars, queueVars, flightVars, role, attemptVars, gateVars>>
  BY DEF CancelFollower
<1>3. \A f \in Fingerprints : flight[f] = "active" => leader[f] # r
  BY <1>2 DEF LedgerInv, FlightLed, NoConsumerStranded
<1> USE DEF LedgerInv, TypeInv, TypeOK, leaseVars, queueVars, flightVars, attemptVars, gateVars
<1>4. RowsAgree' /\ FlightLed'
  BY <1>2, <1>3 DEF RowsAgree, FlightLed, StateOf
<1>5. NoConsumerStranded'
  <2>1. ASSUME NEW q \in Requests, member[q] = "active", q # r
        PROVE  leader[FpOf[q]] # r
    BY <1>2, <2>1 DEF NoConsumerStranded
  <2> QED
    BY <1>2, <2>1 DEF NoConsumerStranded
<1>6. AbsentIsBlank' /\ FollowersIdle'
  BY <1>2 DEF AbsentIsBlank, FollowersIdle
<1>7. LiveIsClaimed' /\ GateOfLive'
  BY <1>2 DEF LiveIsClaimed, GateOfLive, Claimed
<1> QED
  BY <1>1, <1>4, <1>5, <1>6, <1>7

\* _cancel_started_flight, on attempts of which the leader has none reserved.
LEMMA CancelFlightInv ==
    ASSUME LedgerInv, NEW r \in Requests, role[r] = "leader", member[r] = "active",
           NEW att \in AttemptTable,
           \A q \in Requests : q # r => att[q] = attempt[q],
           \A k \in Sequences : /\ att[r][k] # "reserved"
                                /\ att[r][k] = "none" <=> attempt[r][k] = "none",
           CancelFlight(FpOf[r], att)
    PROVE  LedgerInv'
<1> DEFINE f == FpOf[r]
           R == Recipients({f})
<1>1. f \in Fingerprints /\ leader[f] = r /\ r \in R
  BY DEF Fingerprints, LedgerInv, NoConsumerStranded, Recipients
<1>2. TypeInv'
  BY <1>1, CancelFlightType DEF LedgerInv
<1>3. /\ \A q \in R : state[q] = "queued"
      /\ reservation' = Recovered({r})
      /\ attempt' = [att EXCEPT ![r] = [k \in Sequences |->
                        IF att[r][k] = "started" THEN "unknown" ELSE att[r][k]]]
      /\ state' = [q \in Requests |-> IF q \in R THEN "failed" ELSE state[q]]
      /\ result' = [q \in Requests |-> IF q \in R THEN "unknown" ELSE result[q]]
      /\ member' = [q \in Requests |-> IF q \in R THEN "cancelled" ELSE member[q]]
      /\ flight' = [flight EXCEPT ![f] = "terminal"]
      /\ UNCHANGED <<leaseVars, queueVars, leader, role, attemptGen>>
  BY <1>1 DEF CancelFlight, ReleaseOccupancyOf
<1>4. \A q \in Requests : q \in R <=> member[q] = "active" /\ FpOf[q] = f
  BY DEF Recipients
<1>5. /\ \A q \in Requests : q # r => attempt'[q] = attempt[q]
      /\ \A k \in Sequences : /\ attempt'[r][k] \notin Live
                              /\ attempt'[r][k] = "none" <=> attempt[r][k] = "none"
  BY <1>3 DEF AttemptTable, Live, Terminal
<1>6. \A q \in Requests : q # r => reservation'[q] = reservation[q]
  BY <1>3 DEF Recovered, LedgerInv, TypeInv, TypeOK
<1>7. \A k \in Sequences : /\ reservation'[r][k] # "active"
                           /\ reservation'[r][k] = "none" <=> reservation[r][k] = "none"
  BY <1>3 DEF Recovered, LedgerInv, TypeInv, TypeOK
<1> HIDE DEF f, R
<1> USE DEF LedgerInv, TypeInv, TypeOK, leaseVars, queueVars
<1>8. RowsAgree'
  BY <1>3, <1>4 DEF RowsAgree, StateOf
<1>9. FlightLed'
  BY <1>1, <1>3, <1>4 DEF FlightLed
<1>10. NoConsumerStranded'
  <2> SUFFICES ASSUME NEW q \in Requests, member'[q] = "active"
               PROVE  /\ flight'[FpOf[q]] = "active"
                      /\ leader'[FpOf[q]] \in Requests /\ FpOf[leader'[FpOf[q]]] = FpOf[q]
                      /\ member'[leader'[FpOf[q]]] = "active"
                      /\ queue'[leader'[FpOf[q]]] \in {"queued", "dequeued"}
                      /\ role'[q] = "leader" <=> leader'[FpOf[q]] = q
    BY DEF NoConsumerStranded
  <2>1. member[q] = "active" /\ FpOf[q] # f
    BY <1>3, <1>4
  <2> QED
    BY <1>3, <1>4, <2>1 DEF NoConsumerStranded
<1>11. AbsentIsBlank' /\ FollowersIdle'
  <2>1. \A q \in Requests, k \in Sequences : attempt[q][k] = "none" => attempt'[q][k] = "none"
    BY <1>5
  <2>2. \A q \in Requests : /\ state'[q] = "absent" => state[q] = "absent"
                           /\ member'[q] # "none" => member[q] # "none"
    BY <1>3, <1>4
  <2>3. AbsentIsBlank'
    BY <1>3, <2>1, <2>2 DEF AbsentIsBlank
  <2>4. FollowersIdle'
    BY <1>3, <2>1, <2>2 DEF FollowersIdle
  <2> QED
    BY <2>3, <2>4
<1>12. LiveIsClaimed'
  <2> SUFFICES ASSUME NEW q \in Requests, NEW k \in Sequences, attempt'[q][k] \in Live
               PROVE  Claimed(q)' /\ \A j \in Sequences : attempt'[q][j] \in Live => j = k
    BY DEF LiveIsClaimed
  <2>1. q # r /\ attempt'[q] = attempt[q]
    BY <1>5
  <2>2. Claimed(q) /\ \A j \in Sequences : attempt[q][j] \in Live => j = k
    BY <2>1 DEF LiveIsClaimed
  <2>3. FpOf[q] # f
    BY <1>1, <2>1, <2>2 DEF Claimed
  <2> QED
    BY <1>3, <1>4, <2>1, <2>2, <2>3 DEF Claimed
<1>13. GateOfLive'
  <2> SUFFICES ASSUME NEW q \in Requests, NEW k \in Sequences
               PROVE  /\ reservation'[q][k] = "active" => attempt'[q][k] \in Live
                      /\ attempt'[q][k] = "started" => reservation'[q][k] = "active"
                      /\ attempt'[q][k] = "none" => reservation'[q][k] = "none"
    BY DEF GateOfLive
  <2>1. CASE q = r
    BY <1>5, <1>7, <2>1 DEF GateOfLive, Live
  <2>2. CASE q # r
    BY <1>5, <1>6, <2>2 DEF GateOfLive
  <2> QED
    BY <2>1, <2>2
<1> QED
  BY <1>2, <1>8, <1>9, <1>10, <1>11, <1>12, <1>13

LEMMA CancelSentLeaderInv ==
    ASSUME LedgerInv, NEW r \in Requests, CancelSentLeader(r)
    PROVE  LedgerInv'
<1>1. attempt \in AttemptTable
  BY DEF LedgerInv, TypeInv, TypeOK, AttemptTable
<1>2. CASE "started" \in AttemptStates(r) /\ CancelFlight(FpOf[r], attempt)
  <2>1. \A k \in Sequences : attempt[r][k] # "reserved"
    BY <1>2 DEF LedgerInv, LiveIsClaimed, AttemptStates, Live
  <2> QED
    BY <1>1, <1>2, <2>1, CancelFlightInv DEF CancelSentLeader
<1>3. CASE CancelFlight(FpOf[r], Abandoned(r))
  <2>1. Abandoned(r) = [attempt EXCEPT ![r] = [k \in Sequences |->
                           IF attempt[r][k] = "reserved" THEN "failed" ELSE attempt[r][k]]]
    BY DEF Abandoned
  <2>2. Abandoned(r) \in AttemptTable
    BY AbandonedType DEF LedgerInv, TypeInv
  <2>3. \A q \in Requests : q # r => Abandoned(r)[q] = attempt[q]
    BY <1>1, <2>1 DEF AttemptTable
  <2>4. \A k \in Sequences : /\ Abandoned(r)[r][k] # "reserved"
                             /\ Abandoned(r)[r][k] = "none" <=> attempt[r][k] = "none"
    BY <1>1, <2>1 DEF AttemptTable
  <2> QED
    BY <1>3, <2>2, <2>3, <2>4, CancelFlightInv DEF CancelSentLeader
<1> QED
  BY <1>2, <1>3 DEF CancelSentLeader

\* What the withdrawal of leader r leaves: no live attempt and no active reservation.
Withdrawn(r) ==
    /\ member[r] = "active" /\ role[r] = "leader" /\ state[r] = "queued"
    /\ leader[FpOf[r]] = r /\ flight[FpOf[r]] = "active" /\ FpOf[r] \in Fingerprints
    /\ state' = [state EXCEPT ![r] = "cancelled"]
    /\ result' = [result EXCEPT ![r] = "cancelled"]
    /\ member' = [member EXCEPT ![r] = "cancelled"]
    /\ \A q \in Requests : q # r => attempt'[q] = attempt[q] /\ reservation'[q] = reservation[q]
    /\ \A k \in Sequences : /\ attempt'[r][k] \notin Live
                            /\ attempt'[r][k] = "none" <=> attempt[r][k] = "none"
                            /\ reservation'[r][k] # "active"
                            /\ reservation'[r][k] = "none" <=> reservation[r][k] = "none"

LEMMA WithdrawnRows ==
    ASSUME LedgerInv, NEW r \in Requests, WithdrawUnsent(r)
    PROVE  Withdrawn(r)
<1>1. attempt' = [attempt EXCEPT ![r] = [k \in Sequences |->
                     IF attempt[r][k] = "reserved" THEN "failed" ELSE attempt[r][k]]]
  BY DEF WithdrawUnsent, Abandoned
<1>2. attempt \in AttemptTable /\ \A k \in Sequences : attempt[r][k] \in {"none", "reserved"}
  <2>1. attempt \in AttemptTable
    BY DEF LedgerInv, TypeInv, TypeOK, AttemptTable
  <2> QED
    BY <2>1 DEF WithdrawUnsent, AttemptStates
<1>3. /\ \A q \in Requests : q # r => attempt'[q] = attempt[q]
      /\ \A k \in Sequences : /\ attempt'[r][k] \notin Live
                              /\ attempt'[r][k] = "none" <=> attempt[r][k] = "none"
  BY <1>1, <1>2 DEF AttemptTable, Live
<1>4. /\ \A q \in Requests : q # r => reservation'[q] = reservation[q]
      /\ \A k \in Sequences : /\ reservation'[r][k] # "active"
                              /\ reservation'[r][k] = "none" <=> reservation[r][k] = "none"
  BY DEF WithdrawUnsent, ReleaseOccupancyOf, Recovered, LedgerInv, TypeInv, TypeOK
<1>5. /\ member[r] = "active" /\ role[r] = "leader" /\ state[r] = "queued"
      /\ leader[FpOf[r]] = r /\ flight[FpOf[r]] = "active" /\ FpOf[r] \in Fingerprints
  BY DEF WithdrawUnsent, LedgerInv, NoConsumerStranded, Fingerprints
<1> QED
  BY <1>3, <1>4, <1>5 DEF WithdrawUnsent, Withdrawn

LEMMA WithdrawnGates ==
    ASSUME LedgerInv, NEW r \in Requests, Withdrawn(r)
    PROVE  GateOfLive'
<1> SUFFICES ASSUME NEW q \in Requests, NEW k \in Sequences
             PROVE  /\ reservation'[q][k] = "active" => attempt'[q][k] \in Live
                    /\ attempt'[q][k] = "started" => reservation'[q][k] = "active"
                    /\ attempt'[q][k] = "none" => reservation'[q][k] = "none"
  BY DEF GateOfLive
<1>1. CASE q = r
  BY <1>1 DEF Withdrawn, GateOfLive, Live, LedgerInv
<1>2. CASE q # r
  BY <1>2 DEF Withdrawn, GateOfLive, LedgerInv
<1> QED
  BY <1>1, <1>2

\* Whoever p takes the flight over (r itself: nobody), the blank and the following
\* requests are as they were.
LEMMA WithdrawnIdle ==
    ASSUME LedgerInv, NEW r \in Requests, Withdrawn(r), NEW p \in Requests,
           role'[r] = "leader", role'[p] = "leader", state'[p] # "absent",
           \A q \in Requests : q # r /\ q # p => queue'[q] = queue[q] /\ role'[q] = role[q]
    PROVE  AbsentIsBlank' /\ FollowersIdle'
<1>1. ASSUME NEW q \in Requests, q # r
      PROVE  state'[q] = state[q] /\ member'[q] = member[q] /\ attempt'[q] = attempt[q]
  BY <1>1 DEF Withdrawn, LedgerInv, TypeInv, TypeOK
<1>2. state'[r] = "cancelled"
  BY DEF Withdrawn, LedgerInv, TypeInv, TypeOK
<1>3. AbsentIsBlank'
  <2> SUFFICES ASSUME NEW q \in Requests, state'[q] = "absent"
               PROVE  role'[q] = "none" /\ queue'[q] = "none"
                      /\ \A k \in Sequences : attempt'[q][k] = "none"
    BY DEF AbsentIsBlank
  <2>1. q # r /\ q # p
    BY <1>2
  <2>2. /\ state'[q] = state[q] /\ attempt'[q] = attempt[q]
        /\ queue'[q] = queue[q] /\ role'[q] = role[q]
    BY <1>1, <2>1
  <2> QED
    BY <2>2 DEF LedgerInv, AbsentIsBlank
<1>4. FollowersIdle'
  <2> SUFFICES ASSUME NEW q \in Requests
               PROVE  /\ member'[q] # "none" => role'[q] # "none"
                      /\ role'[q] = "follower" => queue'[q] = "none"
                                                  /\ \A k \in Sequences : attempt'[q][k] = "none"
    BY DEF FollowersIdle
  <2>1. CASE q = r \/ q = p
    BY <2>1
  <2>2. CASE q # r /\ q # p
    <3>1. /\ member'[q] = member[q] /\ attempt'[q] = attempt[q]
          /\ queue'[q] = queue[q] /\ role'[q] = role[q]
      BY <1>1, <2>2
    <3> QED
      BY <3>1 DEF LedgerInv, FollowersIdle
  <2> QED
    BY <2>1, <2>2
<1> QED
  BY <1>3, <1>4

LEMMA CancelLeaderAloneInv ==
    ASSUME LedgerInv, NEW r \in Requests, CancelLeaderAlone(r)
    PROVE  LedgerInv'
<1>1. TypeInv'
  BY CancelType DEF LedgerInv, CancelStep
<1>2. Withdrawn(r)
  BY WithdrawnRows DEF CancelLeaderAlone
<1> DEFINE f == FpOf[r]
<1>3. /\ flight' = [flight EXCEPT ![f] = "terminal"]
      /\ queue' = [queue EXCEPT ![r] = "cancelled"]
      /\ UNCHANGED <<leader, role>>
  BY DEF CancelLeaderAlone
<1>4. \A q \in Requests : FpOf[q] = f /\ q # r => member[q] # "active"
  <2> SUFFICES ASSUME NEW q \in Requests, FpOf[q] = f, q # r, member[q] = "active"
               PROVE  FALSE
    OBVIOUS
  <2>1. role[q] = "follower"
    BY <1>2 DEF Withdrawn, LedgerInv, NoConsumerStranded, FollowersIdle, TypeInv, TypeOK
  <2> QED
    BY <2>1 DEF CancelLeaderAlone, Followers
<1>10. GateOfLive'
  BY <1>2, WithdrawnGates
<1>11. AbsentIsBlank' /\ FollowersIdle'
  <2>1. role'[r] = "leader" /\ state'[r] # "absent"
    BY <1>2, <1>3 DEF Withdrawn, LedgerInv, TypeInv, TypeOK
  <2>2. \A q \in Requests : q # r => queue'[q] = queue[q] /\ role'[q] = role[q]
    BY <1>3 DEF LedgerInv, TypeInv, TypeOK
  <2> QED
    BY <1>2, <2>1, <2>2, WithdrawnIdle
<1> USE DEF LedgerInv, TypeInv, TypeOK
<1>5. RowsAgree'
  BY <1>2 DEF Withdrawn, RowsAgree, StateOf
<1>6. FlightLed'
  BY <1>2, <1>3 DEF Withdrawn, FlightLed
<1>7. NoConsumerStranded'
  <2> SUFFICES ASSUME NEW q \in Requests, member'[q] = "active"
               PROVE  /\ flight'[FpOf[q]] = "active"
                      /\ leader'[FpOf[q]] \in Requests /\ FpOf[leader'[FpOf[q]]] = FpOf[q]
                      /\ member'[leader'[FpOf[q]]] = "active"
                      /\ queue'[leader'[FpOf[q]]] \in {"queued", "dequeued"}
                      /\ role'[q] = "leader" <=> leader'[FpOf[q]] = q
    BY DEF NoConsumerStranded
  <2>1. q # r /\ member[q] = "active" /\ FpOf[q] # f
    BY <1>2, <1>4 DEF Withdrawn
  <2>2. leader[FpOf[q]] # r
    BY <2>1 DEF NoConsumerStranded
  <2> QED
    BY <1>2, <1>3, <2>1, <2>2 DEF Withdrawn, NoConsumerStranded
<1>9. LiveIsClaimed'
  <2> SUFFICES ASSUME NEW q \in Requests, NEW k \in Sequences, attempt'[q][k] \in Live
               PROVE  Claimed(q)' /\ \A j \in Sequences : attempt'[q][j] \in Live => j = k
    BY DEF LiveIsClaimed
  <2>1. q # r /\ attempt'[q] = attempt[q]
    BY <1>2 DEF Withdrawn
  <2>2. Claimed(q) /\ \A j \in Sequences : attempt[q][j] \in Live => j = k
    BY <2>1 DEF LiveIsClaimed
  <2>3. FpOf[q] # f
    BY <1>2, <2>1, <2>2 DEF Withdrawn, Claimed
  <2> QED
    BY <1>2, <1>3, <2>1, <2>2, <2>3 DEF Withdrawn, Claimed
<1> QED
  BY <1>1, <1>5, <1>6, <1>7, <1>9, <1>10, <1>11

LEMMA CancelLeaderPromoteInv ==
    ASSUME LedgerInv, NEW r \in Requests, CancelLeaderPromote(r)
    PROVE  LedgerInv'
<1>1. TypeInv'
  BY CancelType DEF LedgerInv, CancelStep
<1> DEFINE f == FpOf[r]
<1>2. PICK p \in Followers(f) :
         /\ WithdrawUnsent(r)
         /\ role' = [role EXCEPT ![p] = "leader"]
         /\ leader' = [leader EXCEPT ![f] = p]
         /\ queue' = [queue EXCEPT ![r] = "cancelled", ![p] = "queued"]
         /\ UNCHANGED flight
  BY DEF CancelLeaderPromote, Oldest
<1>0. Withdrawn(r)
  BY <1>2, WithdrawnRows
<1>3. p \in Requests /\ FpOf[p] = f /\ role[p] = "follower" /\ member[p] = "active" /\ p # r
  BY <1>0, <1>2 DEF Withdrawn, Followers
<1>4. state[p] = "queued" /\ \A k \in Sequences : attempt[p][k] = "none"
  BY <1>3 DEF LedgerInv, RowsAgree, FollowersIdle
<1>10. GateOfLive'
  BY <1>0, WithdrawnGates
<1>11. AbsentIsBlank' /\ FollowersIdle'
  <2>1. role'[r] = "leader" /\ role'[p] = "leader" /\ state'[p] # "absent"
    BY <1>0, <1>2, <1>3, <1>4 DEF Withdrawn, LedgerInv, TypeInv, TypeOK
  <2>2. \A q \in Requests : q # r /\ q # p => queue'[q] = queue[q] /\ role'[q] = role[q]
    BY <1>2, <1>3 DEF LedgerInv, TypeInv, TypeOK
  <2> QED
    BY <1>0, <1>3, <2>1, <2>2, WithdrawnIdle
<1> USE DEF LedgerInv, TypeInv, TypeOK
<1>5. RowsAgree'
  BY <1>0, <1>2 DEF Withdrawn, RowsAgree, StateOf
<1>6. FlightLed'
  BY <1>0, <1>2, <1>3 DEF Withdrawn, FlightLed
<1>7. NoConsumerStranded'
  <2> SUFFICES ASSUME NEW q \in Requests, member'[q] = "active"
               PROVE  /\ flight'[FpOf[q]] = "active"
                      /\ leader'[FpOf[q]] \in Requests /\ FpOf[leader'[FpOf[q]]] = FpOf[q]
                      /\ member'[leader'[FpOf[q]]] = "active"
                      /\ queue'[leader'[FpOf[q]]] \in {"queued", "dequeued"}
                      /\ role'[q] = "leader" <=> leader'[FpOf[q]] = q
    BY DEF NoConsumerStranded
  <2>1. q # r /\ member[q] = "active"
    BY <1>0, <1>2 DEF Withdrawn
  <2>2. /\ flight'[FpOf[q]] = "active"
        /\ \A o \in Requests : o # r => member'[o] = member[o]
    BY <1>0, <1>2, <2>1 DEF Withdrawn, NoConsumerStranded
  <2>3. CASE FpOf[q] = f
    <3>1. leader'[FpOf[q]] = p /\ queue'[p] = "queued"
      BY <1>0, <1>2, <1>3, <2>3 DEF Withdrawn
    <3>2. q # p => role[q] # "leader"
      BY <1>0, <1>2, <2>1, <2>3 DEF Withdrawn, NoConsumerStranded
    <3>3. role'[q] = "leader" <=> q = p
      BY <1>2, <1>3, <3>2
    <3> QED
      BY <1>3, <2>2, <2>3, <3>1, <3>3
  <2>4. CASE FpOf[q] # f
    <3>1. leader'[FpOf[q]] = leader[FpOf[q]] /\ leader[FpOf[q]] # r /\ leader[FpOf[q]] # p /\ q # p
      BY <1>2, <1>3, <2>1, <2>4 DEF NoConsumerStranded
    <3>2. role'[q] = role[q] /\ queue'[leader[FpOf[q]]] = queue[leader[FpOf[q]]]
      BY <1>2, <2>1, <3>1 DEF NoConsumerStranded
    <3> QED
      BY <2>1, <2>2, <3>1, <3>2 DEF NoConsumerStranded
  <2> QED
    BY <2>3, <2>4
<1>9. LiveIsClaimed'
  <2> SUFFICES ASSUME NEW q \in Requests, NEW k \in Sequences, attempt'[q][k] \in Live
               PROVE  Claimed(q)' /\ \A j \in Sequences : attempt'[q][j] \in Live => j = k
    BY DEF LiveIsClaimed
  <2>1. q # r /\ attempt'[q] = attempt[q]
    BY <1>0, <1>2 DEF Withdrawn
  <2>2. Claimed(q) /\ \A j \in Sequences : attempt[q][j] \in Live => j = k
    BY <2>1 DEF LiveIsClaimed
  <2>3. FpOf[q] # f /\ q # p
    BY <1>0, <1>2, <1>3, <2>1, <2>2 DEF Withdrawn, Claimed
  <2>4. /\ state'[q] = state[q] /\ queue'[q] = queue[q] /\ role'[q] = role[q]
        /\ member'[q] = member[q] /\ flight' = flight /\ leader'[FpOf[q]] = leader[FpOf[q]]
    BY <1>0, <1>2, <2>1, <2>3 DEF Withdrawn
  <2> QED
    BY <2>1, <2>2, <2>4 DEF Claimed
<1> QED
  BY <1>1, <1>5, <1>6, <1>7, <1>9, <1>10, <1>11

-------------------------------------------------------------------------------
(* Attempts and gates.                                                      *)

\* A call that rewrites attempt k of request r, and nothing outside the attempts and
\* the gates, keeps the invariant if what it leaves at that place is in order.
LEMMA OneAttemptInv ==
    ASSUME LedgerInv, TypeInv', NEW r \in Requests, NEW k \in Sequences,
           UNCHANGED <<requestVars, queueVars, flightVars, consumerVars>>,
           \A q \in Requests, j \in Sequences : q # r \/ j # k =>
               attempt'[q][j] = attempt[q][j] /\ reservation'[q][j] = reservation[q][j],
           attempt[r][k] = "none" => Claimed(r),
           attempt'[r][k] \in Live =>
               Claimed(r) /\ \A j \in Sequences : j # k => attempt[r][j] \notin Live,
           reservation'[r][k] = "active" => attempt'[r][k] \in Live,
           attempt'[r][k] = "started" => reservation'[r][k] = "active",
           attempt'[r][k] = "none" => reservation'[r][k] = "none"
    PROVE  LedgerInv'
<1>1. RowsAgree' /\ NoConsumerStranded' /\ FlightLed'
  BY DEF LedgerInv, requestVars, queueVars, flightVars, consumerVars, RowsAgree,
         NoConsumerStranded, FlightLed
<1>2. state[r] # "absent" /\ role[r] # "follower"
  BY DEF LedgerInv, AbsentIsBlank, FollowersIdle, Claimed
<1>3. ASSUME NEW q \in Requests, q # r
      PROVE  \A j \in Sequences : attempt'[q][j] = attempt[q][j]
  BY <1>3
<1>4. AbsentIsBlank'
  <2> SUFFICES ASSUME NEW q \in Requests, state'[q] = "absent"
               PROVE  role'[q] = "none" /\ queue'[q] = "none"
                      /\ \A j \in Sequences : attempt'[q][j] = "none"
    BY DEF AbsentIsBlank
  <2>1. state[q] = "absent" /\ q # r
    BY <1>2 DEF requestVars
  <2> QED
    BY <1>3, <2>1 DEF LedgerInv, AbsentIsBlank, queueVars, consumerVars
<1>5. FollowersIdle'
  <2> SUFFICES ASSUME NEW q \in Requests
               PROVE  /\ member'[q] # "none" => role'[q] # "none"
                      /\ role'[q] = "follower" => queue'[q] = "none"
                                                  /\ \A j \in Sequences : attempt'[q][j] = "none"
    BY DEF FollowersIdle
  <2>1. CASE q = r
    BY <1>2, <2>1 DEF LedgerInv, FollowersIdle, consumerVars
  <2>2. CASE q # r
    BY <1>3, <2>2 DEF LedgerInv, FollowersIdle, queueVars, consumerVars
  <2> QED
    BY <2>1, <2>2
<1>6. LiveIsClaimed'
  <2> SUFFICES ASSUME NEW q \in Requests, NEW i \in Sequences, attempt'[q][i] \in Live
               PROVE  Claimed(q)' /\ \A j \in Sequences : attempt'[q][j] \in Live => j = i
    BY DEF LiveIsClaimed
  <2>1. Claimed(q)' <=> Claimed(q)
    BY DEF Claimed, requestVars, queueVars, flightVars, consumerVars
  <2>2. CASE q # r
    <3>1. Claimed(q) /\ \A j \in Sequences : attempt[q][j] \in Live => j = i
      BY <1>3, <2>2 DEF LedgerInv, LiveIsClaimed
    <3> QED
      BY <1>3, <2>1, <2>2, <3>1
  <2>3. CASE q = r /\ i = k
    BY <2>1, <2>3
  <2>4. CASE q = r /\ i # k
    <3>1. attempt[r][i] \in Live
      BY <2>4
    <3>2. Claimed(r) /\ \A j \in Sequences : attempt[r][j] \in Live => j = i
      BY <2>4, <3>1 DEF LedgerInv, LiveIsClaimed
    <3>3. attempt'[r][k] \notin Live
      BY <2>4, <3>1
    <3> QED
      BY <2>1, <2>4, <3>2, <3>3
  <2> QED
    BY <2>2, <2>3, <2>4
<1>7. GateOfLive'
  <2> SUFFICES ASSUME NEW q \in Requests, NEW j \in Sequences
               PROVE  /\ reservation'[q][j] = "active" => attempt'[q][j] \in Live
                      /\ attempt'[q][j] = "started" => reservation'[q][j] = "active"
                      /\ attempt'[q][j] = "none" => reservation'[q][j] = "none"
    BY DEF GateOfLive
  <2>1. CASE q = r /\ j = k
    BY <2>1
  <2>2. CASE q # r \/ j # k
    BY <2>2 DEF LedgerInv, GateOfLive
  <2> QED
    BY <2>1, <2>2
<1> QED
  BY <1>1, <1>4, <1>5, <1>6, <1>7 DEF LedgerInv

\* A dequeued request that is not settled is a claimed leader: what acquire_gates
\* reads of the queue and the request row is enough.
LEMMA DequeuedIsClaimed ==
    ASSUME LedgerInv, NEW r \in Requests, queue[r] = "dequeued", state[r] = "queued"
    PROVE  Claimed(r)
<1>1. member[r] = "active" /\ role[r] \in {"none", "leader", "follower"}
  BY DEF LedgerInv, RowsAgree, TypeInv, TypeOK
<1>2. role[r] = "leader"
  BY <1>1 DEF LedgerInv, FollowersIdle
<1> QED
  BY <1>1, <1>2 DEF LedgerInv, NoConsumerStranded, Claimed

LEMMA AttemptInv ==
    ASSUME LedgerInv, NEW r \in Requests, AttemptStep(r)
    PROVE  LedgerInv'
<1> TypeInv'
  BY AttemptType DEF LedgerInv
<1>t. /\ attempt \in [Requests -> [Sequences -> Terminal \cup Live \cup {"none"}]]
      /\ reservation \in [Requests -> [Sequences -> {"none", "active", "released", "recovered"}]]
  BY DEF LedgerInv, TypeInv, TypeOK
<1>1. CASE ReserveNextPhysicalAttempt(r)
  <2>1. PICK k \in Sequences :
          /\ Claimed(r) /\ ~HasLiveAttempt(r) /\ NextSequence(r, k)
          /\ attempt' = [attempt EXCEPT ![r][k] = "reserved"]
          /\ UNCHANGED <<requestVars, queueVars, flightVars, consumerVars, gateVars>>
    BY <1>1 DEF ReserveNextPhysicalAttempt
  <2>2. attempt[r][k] = "none" /\ \A j \in Sequences : attempt[r][j] \notin Live
    BY <2>1 DEF NextSequence, HasLiveAttempt, AttemptStates, Sequences, Live
  <2>3. reservation[r][k] = "none"
    BY <2>2 DEF LedgerInv, GateOfLive
  <2>4. /\ attempt'[r][k] = "reserved" /\ reservation'[r][k] = "none"
        /\ \A q \in Requests, j \in Sequences : q # r \/ j # k =>
               attempt'[q][j] = attempt[q][j] /\ reservation'[q][j] = reservation[q][j]
    BY <1>t, <2>1, <2>3 DEF gateVars
  <2> QED
    BY <2>1, <2>2, <2>4, OneAttemptInv DEF Live
<1>2. CASE DiscardReservedAttempt(r)
  <2>1. PICK k \in Sequences :
          /\ attempt[r][k] = "reserved" /\ reservation[r][k] = "none"
          /\ attempt' = [attempt EXCEPT ![r][k] = "none"]
          /\ UNCHANGED <<requestVars, queueVars, flightVars, consumerVars, gateVars>>
    BY <1>2 DEF DiscardReservedAttempt
  <2>2. /\ attempt'[r][k] = "none" /\ reservation'[r][k] = "none"
        /\ \A q \in Requests, j \in Sequences : q # r \/ j # k =>
               attempt'[q][j] = attempt[q][j] /\ reservation'[q][j] = reservation[q][j]
    BY <1>t, <2>1 DEF gateVars
  <2> QED
    BY <2>1, <2>2, OneAttemptInv DEF Live
<1>3. CASE AcquireGates(r)
  <2>1. PICK k \in Sequences :
          /\ queue[r] = "dequeued" /\ state[r] = "queued"
          /\ \/ attempt[r][k] = "reserved"
             \/ NextSequence(r, k) /\ \A j \in Sequences : j < k => attempt[r][j] = "succeeded"
          /\ attempt' = [attempt EXCEPT ![r][k] = "reserved"]
          /\ reservation' = [reservation EXCEPT ![r][k] = "active"]
          /\ UNCHANGED <<requestVars, queueVars, flightVars, consumerVars>>
    BY <1>3 DEF AcquireGates
  <2>2. Claimed(r)
    BY <2>1, DequeuedIsClaimed
  <2>3. \A j \in Sequences : j # k => attempt[r][j] \notin Live
    <3>1. CASE attempt[r][k] = "reserved"
      BY <3>1 DEF LedgerInv, LiveIsClaimed, Live
    <3>2. CASE NextSequence(r, k) /\ \A j \in Sequences : j < k => attempt[r][j] = "succeeded"
      BY <3>2 DEF NextSequence, Live
    <3> QED
      BY <2>1, <3>1, <3>2
  <2>4. /\ attempt'[r][k] = "reserved" /\ reservation'[r][k] = "active"
        /\ \A q \in Requests, j \in Sequences : q # r \/ j # k =>
               attempt'[q][j] = attempt[q][j] /\ reservation'[q][j] = reservation[q][j]
    BY <1>t, <2>1
  <2> QED
    BY <2>1, <2>2, <2>3, <2>4, OneAttemptInv DEF Live
<1>4. CASE MarkPhysicalAttemptStarted(r)
  <2>1. PICK k \in Sequences :
          /\ reservation[r][k] = "active" /\ attempt[r][k] = "reserved"
          /\ attempt' = [attempt EXCEPT ![r][k] = "started"]
          /\ UNCHANGED <<requestVars, queueVars, flightVars, consumerVars, gateVars>>
    BY <1>4 DEF MarkPhysicalAttemptStarted
  <2>2. Claimed(r) /\ \A j \in Sequences : j # k => attempt[r][j] \notin Live
    BY <2>1 DEF LedgerInv, LiveIsClaimed, Live
  <2>3. /\ attempt'[r][k] = "started" /\ reservation'[r][k] = "active"
        /\ \A q \in Requests, j \in Sequences : q # r \/ j # k =>
               attempt'[q][j] = attempt[q][j] /\ reservation'[q][j] = reservation[q][j]
    BY <1>t, <2>1 DEF gateVars
  <2> QED
    BY <2>1, <2>2, <2>3, OneAttemptInv DEF Live
<1>5. CASE FinishGateReservation(r)
  <2>1. PICK k \in Sequences, outcome \in Terminal :
          /\ reservation[r][k] = "active"
          /\ reservation' = [reservation EXCEPT ![r][k] = "released"]
          /\ attempt' = [attempt EXCEPT ![r][k] = IF @ \in Live THEN outcome ELSE @]
          /\ UNCHANGED <<requestVars, queueVars, flightVars, consumerVars>>
    BY <1>5 DEF FinishGateReservation
  <2>2. attempt[r][k] \in Live
    BY <2>1 DEF LedgerInv, GateOfLive
  <2>3. /\ attempt'[r][k] = outcome /\ reservation'[r][k] = "released"
        /\ \A q \in Requests, j \in Sequences : q # r \/ j # k =>
               attempt'[q][j] = attempt[q][j] /\ reservation'[q][j] = reservation[q][j]
    BY <1>t, <2>1, <2>2
  <2>4. outcome \notin Live \cup {"none"} /\ attempt[r][k] # "none"
    BY <2>2 DEF Live, Terminal
  <2> QED
    BY <2>1, <2>3, <2>4, OneAttemptInv DEF Live
<1> QED
  BY <1>1, <1>2, <1>3, <1>4, <1>5 DEF AttemptStep

-------------------------------------------------------------------------------
(* Delivery: what finalize_logical_request and recover_expired_lease share. *)

\* Flights F are delivered in tables st, res and que that differ from the ledger's only
\* for the leaders of F and for claimed requests put back into the queue.
Delivers(F, st, res, que) ==
    /\ \A f \in F : flight[f] = "active" /\ res[leader[f]] \in Outcomes
    /\ \A q \in Requests : (\A f \in F : leader[f] # q) => st[q] = state[q] /\ res[q] = result[q]
    /\ \A q \in Requests : \/ que[q] = queue[q]
                          \/ /\ que[q] = "queued" /\ Claimed(q)
                             /\ \A k \in Sequences : attempt[q][k] \notin Live
    /\ state' = DeliveredState(F, st, res)
    /\ result' = DeliveredResult(F, res)
    /\ member' = DeliveredMember(F)
    /\ flight' = DeliveredFlight(F)
    /\ queue' = DeliveredQueue(F, que)
    /\ UNCHANGED <<leader, role>>
    /\ \A q \in Requests, k \in Sequences :
          /\ attempt'[q][k] \in Live => attempt[q][k] \in Live /\ FpOf[q] \notin F
          /\ attempt'[q][k] = "none" <=> attempt[q][k] = "none"

\* Whoever shares a fingerprint with F and waits gets a result; nobody else is touched.
LEMMA DeliveredRows ==
    ASSUME LedgerInv, NEW F \in SUBSET Fingerprints, NEW st, NEW res, NEW que,
           Delivers(F, st, res, que), NEW q \in Requests
    PROVE  IF q \in Recipients(F)
           THEN /\ state[q] = "queued" /\ result'[q] \in Outcomes /\ state'[q] = StateOf(result'[q])
                /\ member'[q] = "completed"
           ELSE /\ state'[q] = state[q] /\ result'[q] = result[q] /\ member'[q] = member[q]
                /\ \A f \in F : leader[f] # q
<1>1. \A f \in F : leader[f] \in Requests /\ FpOf[leader[f]] = f /\ member[leader[f]] = "active"
  BY DEF LedgerInv, FlightLed, Delivers
<1>2. CASE q \in Recipients(F)
  <2>1. member[q] = "active" /\ FpOf[q] \in F
    BY <1>2 DEF Recipients
  <2>2. /\ result'[q] = res[leader[FpOf[q]]] /\ state'[q] = StateOf(res[leader[FpOf[q]]])
        /\ member'[q] = "completed"
    BY <1>2 DEF Delivers, DeliveredState, DeliveredResult, DeliveredMember
  <2> QED
    BY <1>2, <2>1, <2>2 DEF Delivers, LedgerInv, RowsAgree
<1>3. CASE q \notin Recipients(F)
  <2>1. \A f \in F : leader[f] # q
    BY <1>1, <1>3 DEF Recipients
  <2>2. /\ result'[q] = res[q] /\ state'[q] = st[q] /\ member'[q] = member[q]
    BY <1>3 DEF Delivers, DeliveredState, DeliveredResult, DeliveredMember
  <2> QED
    BY <1>3, <2>1, <2>2 DEF Delivers
<1> QED
  BY <1>2, <1>3

LEMMA DeliveryInv ==
    ASSUME LedgerInv, TypeInv', NEW F \in SUBSET Fingerprints, NEW st, NEW res, NEW que,
           Delivers(F, st, res, que), GateOfLive'
    PROVE  LedgerInv'
<1>1. ASSUME NEW q \in Requests, q \in Recipients(F)
      PROVE  /\ state[q] = "queued" /\ result'[q] \in Outcomes /\ state'[q] = StateOf(result'[q])
             /\ member'[q] = "completed"
  BY <1>1, DeliveredRows
<1>2. ASSUME NEW q \in Requests, q \notin Recipients(F)
      PROVE  /\ state'[q] = state[q] /\ result'[q] = result[q] /\ member'[q] = member[q]
             /\ \A f \in F : leader[f] # q
  BY <1>2, DeliveredRows
<1>3. \A q \in Requests : q \in Recipients(F) <=> member[q] = "active" /\ FpOf[q] \in F
  BY DEF Recipients
<1>4. \A f \in Fingerprints : flight'[f] = IF f \in F THEN "terminal" ELSE flight[f]
  BY DEF Delivers, DeliveredFlight
<1>5. \A q \in Requests : (\A f \in F : leader[f] # q) => queue'[q] = que[q]
  BY DEF Delivers, DeliveredQueue
<1>6. leader' = leader /\ role' = role
  BY DEF Delivers
<1>7. RowsAgree'
  <2> SUFFICES ASSUME NEW q \in Requests
               PROVE  /\ state'[q] \in {"absent", "queued"} <=> result'[q] = "none"
                      /\ result'[q] # "none" => state'[q] = StateOf(result'[q])
                      /\ state'[q] = "queued" <=> member'[q] = "active"
    BY DEF RowsAgree
  <2>1. CASE q \in Recipients(F)
    BY <1>1, <2>1 DEF Outcomes, StateOf
  <2>2. CASE q \notin Recipients(F)
    BY <1>2, <2>2 DEF LedgerInv, RowsAgree
  <2> QED
    BY <2>1, <2>2
<1>8. FlightLed'
  <2> SUFFICES ASSUME NEW f \in Fingerprints, flight'[f] = "active"
               PROVE  leader[f] \in Requests /\ FpOf[leader[f]] = f /\ member'[leader[f]] = "active"
    BY <1>6 DEF FlightLed
  <2>1. f \notin F /\ flight[f] = "active"
    BY <1>4
  <2>2. leader[f] \in Requests /\ FpOf[leader[f]] = f /\ member[leader[f]] = "active"
    BY <2>1 DEF LedgerInv, FlightLed
  <2> QED
    BY <1>2, <1>3, <2>1, <2>2
<1>9. NoConsumerStranded'
  <2> SUFFICES ASSUME NEW q \in Requests, member'[q] = "active"
               PROVE  /\ flight'[FpOf[q]] = "active"
                      /\ leader[FpOf[q]] \in Requests /\ FpOf[leader[FpOf[q]]] = FpOf[q]
                      /\ member'[leader[FpOf[q]]] = "active"
                      /\ queue'[leader[FpOf[q]]] \in {"queued", "dequeued"}
                      /\ role[q] = "leader" <=> leader[FpOf[q]] = q
    BY <1>6 DEF NoConsumerStranded
  <2>1. q \notin Recipients(F)
    BY <1>1
  <2>2. member[q] = "active" /\ FpOf[q] \notin F /\ FpOf[q] \in Fingerprints
    BY <1>2, <1>3, <2>1 DEF Fingerprints
  <2> DEFINE l == leader[FpOf[q]]
  <2>3. /\ flight[FpOf[q]] = "active" /\ l \in Requests /\ FpOf[l] = FpOf[q]
        /\ member[l] = "active" /\ queue[l] \in {"queued", "dequeued"}
        /\ role[q] = "leader" <=> l = q
    BY <2>2 DEF LedgerInv, NoConsumerStranded
  <2>4. l \notin Recipients(F)
    BY <1>3, <2>2, <2>3
  <2>5. queue'[l] = que[l] /\ member'[l] = member[l]
    BY <1>2, <1>5, <2>3, <2>4
  <2>6. que[l] \in {"queued", "dequeued"}
    BY <2>3 DEF Delivers
  <2> QED
    BY <1>4, <2>2, <2>3, <2>5, <2>6
<1>10. AbsentIsBlank'
  <2> SUFFICES ASSUME NEW q \in Requests, state'[q] = "absent"
               PROVE  role[q] = "none" /\ queue'[q] = "none"
                      /\ \A k \in Sequences : attempt'[q][k] = "none"
    BY <1>6 DEF AbsentIsBlank
  <2>1. q \notin Recipients(F)
    BY <1>1 DEF Outcomes, StateOf
  <2>2. /\ state[q] = "absent" /\ queue'[q] = que[q]
    BY <1>2, <1>5, <2>1
  <2>3. que[q] = queue[q]
    BY <2>2 DEF Delivers, Claimed
  <2> QED
    BY <2>2, <2>3 DEF LedgerInv, AbsentIsBlank, Delivers
<1>11. FollowersIdle'
  <2> SUFFICES ASSUME NEW q \in Requests
               PROVE  /\ member'[q] # "none" => role[q] # "none"
                      /\ role[q] = "follower" => queue'[q] = "none"
                                                 /\ \A k \in Sequences : attempt'[q][k] = "none"
    BY <1>6 DEF FollowersIdle
  <2>1. member'[q] # "none" => member[q] # "none"
    BY <1>2, <1>3
  <2>2. role[q] = "follower" => queue'[q] = "none"
    <3>1. role[q] = "follower" => queue[q] = "none" /\ que[q] = queue[q]
      BY DEF LedgerInv, FollowersIdle, Delivers, Claimed
    <3> QED
      BY <3>1 DEF Delivers, DeliveredQueue
  <2>3. role[q] = "follower" => \A k \in Sequences : attempt'[q][k] = "none"
    BY DEF LedgerInv, FollowersIdle, Delivers
  <2> QED
    BY <2>1, <2>2, <2>3 DEF LedgerInv, FollowersIdle
<1>12. LiveIsClaimed'
  <2> SUFFICES ASSUME NEW q \in Requests, NEW k \in Sequences, attempt'[q][k] \in Live
               PROVE  Claimed(q)' /\ \A j \in Sequences : attempt'[q][j] \in Live => j = k
    BY DEF LiveIsClaimed
  <2>1. attempt[q][k] \in Live /\ FpOf[q] \notin F
    BY DEF Delivers
  <2>2. Claimed(q) /\ \A j \in Sequences : attempt[q][j] \in Live => j = k
    BY <2>1 DEF LedgerInv, LiveIsClaimed
  <2>3. \A j \in Sequences : attempt'[q][j] \in Live => attempt[q][j] \in Live
    BY DEF Delivers
  <2>4. q \notin Recipients(F) /\ FpOf[q] \in Fingerprints
    BY <1>3, <2>1 DEF Fingerprints
  <2>5. que[q] = queue[q]
    BY <2>1 DEF Delivers
  <2>6. /\ state'[q] = state[q] /\ member'[q] = member[q]
        /\ queue'[q] = queue[q] /\ flight'[FpOf[q]] = flight[FpOf[q]]
    BY <1>2, <1>4, <1>5, <2>1, <2>4, <2>5
  <2> QED
    BY <1>6, <2>2, <2>3, <2>6 DEF Claimed
<1> QED
  BY <1>7, <1>8, <1>9, <1>10, <1>11, <1>12 DEF LedgerInv

LEMMA FinalizeInv ==
    ASSUME LedgerInv, NEW r \in Requests, FinalizeLogicalRequest(r)
    PROVE  LedgerInv'
<1>1. TypeInv'
  BY FinalizeType DEF LedgerInv
<1> DEFINE F == {FpOf[r]}
<1>2. PICK outcome \in Terminal :
         LET st == [state EXCEPT ![r] = StateOf(outcome)]
             res == [result EXCEPT ![r] = outcome]
         IN  /\ member[r] = "active" /\ OutcomeJustified(r, outcome, attempt)
             /\ leader[FpOf[r]] = r
             /\ state' = DeliveredState(F, st, res)
             /\ result' = DeliveredResult(F, res)
             /\ member' = DeliveredMember(F)
             /\ flight' = DeliveredFlight(F)
             /\ queue' = DeliveredQueue(F, queue)
             /\ UNCHANGED <<leader, role, attemptVars, gateVars>>
  BY DEF FinalizeLogicalRequest, Finalizable
<1> DEFINE st == [state EXCEPT ![r] = StateOf(outcome)]
           res == [result EXCEPT ![r] = outcome]
<1>3. flight[FpOf[r]] = "active" /\ F \in SUBSET Fingerprints
  BY <1>2 DEF LedgerInv, NoConsumerStranded, Fingerprints
<1>4. res[r] \in Outcomes
        /\ \A q \in Requests : q # r => st[q] = state[q] /\ res[q] = result[q]
  BY DEF LedgerInv, TypeInv, TypeOK, Outcomes, Terminal
<1>5. ASSUME NEW q \in Requests, NEW k \in Sequences, attempt[q][k] \in Live
      PROVE  FpOf[q] \notin F
  <2>1. attempt[r][k] \notin Live
    BY <1>2 DEF OutcomeJustified
  <2>2. leader[FpOf[q]] = q
    BY <1>5 DEF LedgerInv, LiveIsClaimed, Claimed
  <2> QED
    BY <1>2, <1>5, <2>1, <2>2
<1>6. Delivers(F, st, res, queue)
  <2>1. \A f \in F : flight[f] = "active" /\ res[leader[f]] \in Outcomes
    BY <1>2, <1>3, <1>4
  <2>2. \A q \in Requests : (\A f \in F : leader[f] # q) => st[q] = state[q] /\ res[q] = result[q]
    BY <1>2, <1>4
  <2> QED
    BY <1>2, <1>5, <2>1, <2>2 DEF Delivers, attemptVars
<1>7. GateOfLive'
  BY <1>2 DEF LedgerInv, GateOfLive, attemptVars, gateVars
<1> QED
  BY <1>1, <1>3, <1>6, <1>7, DeliveryInv

\* What recovery settles are claimed leaders without a result.
LEMMA SettledByRecovery ==
    ASSUME LedgerInv, NEW q \in Interrupted \cup BetweenAttempts
    PROVE  /\ q \in Requests /\ state[q] = "queued" /\ result[q] = "none"
           /\ flight[FpOf[q]] = "active" /\ leader[FpOf[q]] = q
           /\ RecoveredResult[q] \in {"failed", "unknown"}
<1>1. q \in Requests
  BY DEF Interrupted, BetweenAttempts
<1>2. state[q] = "queued" /\ role[q] # "follower"
  <2>1. CASE q \in Interrupted
    BY <1>1, <2>1 DEF Interrupted, AttemptStates, LedgerInv, LiveIsClaimed, Claimed, Live
  <2>2. CASE q \in BetweenAttempts
    <3>1. PICK k \in Sequences : attempt[q][k] \in Terminal
      BY <2>2 DEF BetweenAttempts, AttemptStates
    <3> QED
      BY <1>1, <2>2, <3>1 DEF BetweenAttempts, LedgerInv, FollowersIdle, Terminal
  <2> QED
    BY <2>1, <2>2
<1>3. result[q] = "none" /\ member[q] = "active"
  BY <1>1, <1>2 DEF LedgerInv, RowsAgree
<1>4. role[q] = "leader"
  BY <1>1, <1>2, <1>3 DEF LedgerInv, FollowersIdle, TypeInv, TypeOK
<1>5. flight[FpOf[q]] = "active" /\ leader[FpOf[q]] = q
  BY <1>1, <1>3, <1>4 DEF LedgerInv, NoConsumerStranded
<1>6. RecoveredResult[q] \in {"failed", "unknown"}
  BY <1>1 DEF RecoveredResult
<1> QED
  BY <1>1, <1>2, <1>3, <1>5, <1>6

LEMMA RecoverExpiredLeaseInv ==
    ASSUME LedgerInv, RecoverExpiredLease
    PROVE  LedgerInv'
<1>1. TypeInv'
  BY RecoverExpiredLeaseType DEF LedgerInv
<1> DEFINE F == Settled(RecoveredResult)
<1>2. F \in SUBSET Fingerprints
  BY DEF Settled
<1>3. \A q \in Requests : q \notin Interrupted \cup BetweenAttempts =>
          RecoveredState[q] = state[q] /\ RecoveredResult[q] = result[q]
  BY DEF RecoveredState, RecoveredResult
<1>4. \A q \in Interrupted \cup BetweenAttempts : FpOf[q] \in F /\ leader[FpOf[q]] = q
  BY SettledByRecovery DEF Settled, Fingerprints
<1>5. \A f \in F : flight[f] = "active" /\ RecoveredResult[leader[f]] \in Outcomes
  <2> SUFFICES ASSUME NEW f \in F
               PROVE  flight[f] = "active" /\ RecoveredResult[leader[f]] \in Outcomes
    OBVIOUS
  <2>1. flight[f] = "active" /\ RecoveredResult[leader[f]] # "none" /\ leader[f] \in Requests
    BY DEF Settled, LedgerInv, FlightLed
  <2>2. RecoveredResult[leader[f]] \in Outcomes \cup {"none"}
    BY <2>1 DEF RecoveredResult, LedgerInv, TypeInv, TypeOK, Outcomes
  <2> QED
    BY <2>1, <2>2
<1>6. \A q \in Requests : \/ RecoveredQueue[q] = queue[q]
                          \/ /\ RecoveredQueue[q] = "queued" /\ Claimed(q)
                             /\ \A k \in Sequences : attempt[q][k] \notin Live
  <2> SUFFICES ASSUME NEW q \in Requests, RecoveredQueue[q] # queue[q]
               PROVE  /\ RecoveredQueue[q] = "queued" /\ Claimed(q)
                      /\ \A k \in Sequences : attempt[q][k] \notin Live
    OBVIOUS
  <2>1. RecoveredQueue[q] = "queued" /\ queue[q] = "dequeued" /\ state[q] = "queued"
        /\ AttemptStates(q) = {}
    BY DEF RecoveredQueue
  <2>2. \A k \in Sequences : attempt[q][k] \notin Live
    BY <2>1 DEF AttemptStates, Live
  <2> QED
    BY <2>1, <2>2, DequeuedIsClaimed
<1>7. \A q \in Requests, k \in Sequences :
          attempt'[q][k] = IF attempt[q][k] = "started" THEN "unknown" ELSE attempt[q][k]
  BY DEF RecoverExpiredLease, RecoveredAttempt
<1>8. ASSUME NEW q \in Requests, NEW k \in Sequences, attempt'[q][k] \in Live
      PROVE  attempt[q][k] \in Live /\ FpOf[q] \notin F
  <2>1. attempt[q][k] = "reserved"
    BY <1>7, <1>8 DEF Live
  <2>2. Claimed(q) /\ \A j \in Sequences : attempt[q][j] \in Live => j = k
    BY <2>1 DEF LedgerInv, LiveIsClaimed, Live
  <2>3. q \notin Interrupted
    BY <2>1, <2>2 DEF Interrupted, AttemptStates, Live
  <2>4. q \notin BetweenAttempts
    BY <2>1 DEF BetweenAttempts, HasLiveAttempt, AttemptStates, Live
  <2>5. RecoveredResult[q] = "none"
    BY <1>3, <2>2, <2>3, <2>4 DEF LedgerInv, RowsAgree, Claimed
  <2> QED
    BY <2>1, <2>2, <2>5 DEF Settled, Claimed, Live
<1>9. Delivers(F, RecoveredState, RecoveredResult, RecoveredQueue)
  <2>1. \A q \in Requests : (\A f \in F : leader[f] # q) =>
            RecoveredState[q] = state[q] /\ RecoveredResult[q] = result[q]
    BY <1>3, <1>4
  <2>2. \A q \in Requests, k \in Sequences :
            /\ attempt'[q][k] \in Live => attempt[q][k] \in Live /\ FpOf[q] \notin F
            /\ attempt'[q][k] = "none" <=> attempt[q][k] = "none"
    BY <1>7, <1>8
  <2>3. /\ state' = DeliveredState(F, RecoveredState, RecoveredResult)
        /\ result' = DeliveredResult(F, RecoveredResult)
        /\ member' = DeliveredMember(F)
        /\ flight' = DeliveredFlight(F)
        /\ queue' = DeliveredQueue(F, RecoveredQueue)
        /\ UNCHANGED <<leader, role>>
    BY DEF RecoverExpiredLease
  <2> QED
    BY <1>5, <1>6, <2>1, <2>2, <2>3 DEF Delivers
<1>10. GateOfLive'
  <2>1. \A q \in Requests, k \in Sequences :
            /\ reservation'[q][k] # "active"
            /\ reservation'[q][k] = "none" <=> reservation[q][k] = "none"
    BY DEF RecoverExpiredLease, Recovered
  <2> QED
    BY <1>7, <2>1 DEF GateOfLive, LedgerInv
<1> QED
  BY <1>1, <1>2, <1>9, <1>10, DeliveryInv

LEMMA LedgerInvStep == LedgerInv /\ [Next]_vars => LedgerInv'
<1> SUFFICES ASSUME LedgerInv, [Next]_vars
             PROVE  LedgerInv'
  OBVIOUS
<1>1. CASE LeaseStep
  BY <1>1, AcquireLeaseInv, ReleaseLeaseInv, RecoverExpiredLeaseInv DEF LeaseStep
<1>2. ASSUME NEW r \in Requests, AdmissionStep(r)
      PROVE  LedgerInv'
  BY <1>2, AdmitFollowerInv, AdmitLeaderInv DEF AdmissionStep
<1>3. ASSUME NEW r \in Requests, CancelStep(r)
      PROVE  LedgerInv'
  BY <1>3, CancelFollowerInv, CancelSentLeaderInv, CancelLeaderPromoteInv, CancelLeaderAloneInv
  DEF CancelStep
<1>4. ASSUME NEW r \in Requests, ClaimNextQueued(r) \/ AttemptStep(r) \/ FinalizeLogicalRequest(r)
      PROVE  LedgerInv'
  BY <1>4, ClaimInv, AttemptInv, FinalizeInv
<1>5. CASE UNCHANGED vars
  <2>1. TypeInv'
    BY <1>5 DEF LedgerInv, vars, TypeInv, TypeOK
  <2>2. UNCHANGED <<requestVars, queueVars, flightVars, consumerVars, attemptVars, gateVars>>
    BY <1>5 DEF vars, requestVars, queueVars, flightVars, consumerVars, attemptVars, gateVars
  <2> QED
    BY <2>1, <2>2, LeaseOnlyInv
<1> QED
  BY <1>1, <1>2, <1>3, <1>4, <1>5 DEF Next

LEMMA LedgerInvHolds == Spec => []LedgerInv
BY InitInv, LedgerInvStep, PTL DEF Spec

\* The tables agree in every reachable ledger: request with result and consumer row
\* (RowsAgree); flight and leader; queue and attempts with the consumer's role; live
\* attempts with the claimed queue row of the one request whose flight they are of;
\* gate rows with the attempts they are held for.
THEOREM RowsAlwaysAgree ==
    Spec => [](RowsAgree /\ FlightLed /\ AbsentIsBlank /\ FollowersIdle /\ LiveIsClaimed /\ GateOfLive)
<1>1. LedgerInv =>
        RowsAgree /\ FlightLed /\ AbsentIsBlank /\ FollowersIdle /\ LiveIsClaimed /\ GateOfLive
  BY DEF LedgerInv
<1> QED
  BY <1>1, LedgerInvHolds, PTL

\* No waiting consumer is left on a flight that cannot deliver any more.
THEOREM NobodyStranded == Spec => []NoConsumerStranded
<1>1. LedgerInv => NoConsumerStranded
  BY DEF LedgerInv
<1> QED
  BY <1>1, LedgerInvHolds, PTL

\* Single flight: one fingerprint, one sender, for any number of requests, attempts
\* and lease generations.
THEOREM SingleFlight == Spec => []OneSenderPerFingerprint
<1>1. LedgerInv => OneSenderPerFingerprint
  BY LedgerInvSuffices
<1> QED
  BY <1>1, LedgerInvHolds, PTL

\* Every attempt that may be on the wire is covered by active gate reservations.
THEOREM GatesHeld == Spec => []GatesCoverSends
<1>1. LedgerInv => GatesCoverSends
  BY LedgerInvSuffices
<1> QED
  BY <1>1, LedgerInvHolds, PTL
-------------------------------------------------------------------------------
(* What is settled stays settled.                                           *)

KeepsResults ==
    \A q \in Requests : result[q] # "none" => result'[q] = result[q] /\ state'[q] = state[q]

\* A request with a result is neither absent nor queued, and no consumer any more.
LEMMA SettledIsOut ==
    ASSUME LedgerInv, NEW q \in Requests, result[q] # "none"
    PROVE  state[q] \notin {"absent", "queued"} /\ member[q] # "active"
BY DEF LedgerInv, RowsAgree

\* Delivery writes to active consumers only.
LEMMA DeliveryKeepsResults ==
    ASSUME LedgerInv, NEW F, NEW st, NEW res, NEW q \in Requests, result[q] # "none",
           st[q] = state[q], res[q] = result[q]
    PROVE  DeliveredState(F, st, res)[q] = state[q] /\ DeliveredResult(F, res)[q] = result[q]
<1>1. q \notin Recipients(F)
  BY SettledIsOut DEF Recipients
<1> QED
  BY <1>1 DEF DeliveredState, DeliveredResult

LEMMA LeaseKeepsResults ==
    ASSUME LedgerInv, LeaseStep
    PROVE  KeepsResults
<1>1. CASE AcquireLease
  <2>1. /\ state' = DeliveredState(Settled(result), state, result)
        /\ result' = DeliveredResult(Settled(result), result)
    BY <1>1 DEF AcquireLease
  <2> QED
    BY <2>1, DeliveryKeepsResults DEF KeepsResults
<1>2. CASE ReleaseLease
  BY <1>2 DEF ReleaseLease, requestVars, KeepsResults
<1>3. CASE RecoverExpiredLease
  <2> DEFINE F == Settled(RecoveredResult)
  <2>1. /\ state' = DeliveredState(F, RecoveredState, RecoveredResult)
        /\ result' = DeliveredResult(F, RecoveredResult)
        /\ \A q \in Interrupted \cup BetweenAttempts : result[q] = "none"
    BY <1>3 DEF RecoverExpiredLease, RecoveryAccepted
  <2>2. SUFFICES ASSUME NEW q \in Requests, result[q] # "none"
                 PROVE  result'[q] = result[q] /\ state'[q] = state[q]
    BY DEF KeepsResults
  <2>3. RecoveredState[q] = state[q] /\ RecoveredResult[q] = result[q]
    BY <2>1, <2>2 DEF RecoveredState, RecoveredResult
  <2> QED
    BY <2>1, <2>2, <2>3, DeliveryKeepsResults
<1> QED
  BY <1>1, <1>2, <1>3 DEF LeaseStep

LEMMA AdmissionKeepsResults ==
    ASSUME LedgerInv, NEW r \in Requests, AdmissionStep(r)
    PROVE  KeepsResults
<1>1. result[r] = "none"
  BY SettledIsOut DEF AdmissionStep, AdmitFollower, AdmitLeader
<1> SUFFICES ASSUME NEW q \in Requests, result[q] # "none"
             PROVE  result'[q] = result[q] /\ state'[q] = state[q]
  BY DEF KeepsResults
<1>2. q # r
  BY <1>1
<1>3. CASE AdmitFollower(r)
  BY <1>2, <1>3 DEF AdmitFollower, LedgerInv, TypeInv, TypeOK
<1>4. CASE AdmitLeader(r)
  <2> DEFINE F == Settled(result) \cap {FpOf[r]}
  <2>1. /\ state'[q] = DeliveredState(F, state, result)[q]
        /\ result'[q] = DeliveredResult(F, result)[q]
    BY <1>2, <1>4 DEF AdmitLeader, DeliveredState, DeliveredResult
  <2> QED
    BY <2>1, DeliveryKeepsResults
<1> QED
  BY <1>3, <1>4 DEF AdmissionStep

LEMMA FlightKeepsResults ==
    ASSUME LedgerInv, NEW f, NEW att, CancelFlight(f, att)
    PROVE  KeepsResults
<1>1. \A q \in Requests : result[q] # "none" => q \notin Recipients({f})
  BY SettledIsOut DEF Recipients
<1> QED
  BY <1>1 DEF CancelFlight, KeepsResults

LEMMA WithdrawKeepsResults ==
    ASSUME LedgerInv, NEW r \in Requests, WithdrawUnsent(r)
    PROVE  KeepsResults
<1>1. result[r] = "none"
  BY SettledIsOut DEF WithdrawUnsent
<1> QED
  BY <1>1 DEF WithdrawUnsent, KeepsResults, LedgerInv, TypeInv, TypeOK

LEMMA CancelKeepsResults ==
    ASSUME LedgerInv, NEW r \in Requests, CancelStep(r)
    PROVE  KeepsResults
<1>1. CASE CancelFollower(r)
  <2>1. result[r] = "none"
    BY <1>1, SettledIsOut DEF CancelFollower
  <2> QED
    BY <1>1, <2>1 DEF CancelFollower, KeepsResults, LedgerInv, TypeInv, TypeOK
<1>2. CASE CancelSentLeader(r)
  BY <1>2, FlightKeepsResults DEF CancelSentLeader
<1>3. CASE CancelLeaderPromote(r)
  BY <1>3, WithdrawKeepsResults DEF CancelLeaderPromote
<1>4. CASE CancelLeaderAlone(r)
  BY <1>4, WithdrawKeepsResults DEF CancelLeaderAlone
<1> QED
  BY <1>1, <1>2, <1>3, <1>4 DEF CancelStep

LEMMA FinalizeKeepsResults ==
    ASSUME LedgerInv, NEW r \in Requests, FinalizeLogicalRequest(r)
    PROVE  KeepsResults
<1>1. PICK outcome \in Terminal :
          LET st == [state EXCEPT ![r] = StateOf(outcome)]
              res == [result EXCEPT ![r] = outcome]
          IN  /\ state[r] = "queued"
              /\ state' = DeliveredState({FpOf[r]}, st, res)
              /\ result' = DeliveredResult({FpOf[r]}, res)
  BY DEF FinalizeLogicalRequest, Finalizable
<1> DEFINE st == [state EXCEPT ![r] = StateOf(outcome)]
           res == [result EXCEPT ![r] = outcome]
<1> SUFFICES ASSUME NEW q \in Requests, result[q] # "none"
             PROVE  result'[q] = result[q] /\ state'[q] = state[q]
  BY DEF KeepsResults
<1>2. st[q] = state[q] /\ res[q] = result[q]
  BY <1>1, SettledIsOut DEF LedgerInv, TypeInv, TypeOK
<1> QED
  <2>1. q \notin Recipients({FpOf[r]})
    BY SettledIsOut DEF Recipients
  <2> QED
    BY <1>1, <1>2, <2>1 DEF DeliveredState, DeliveredResult

\* A stored result is final, for any number of requests and lease generations: no late
\* completion, cancellation, admission or recovery writes it or its state again.
THEOREM ResultsFinal == Spec => ResultIsFinal
<1>1. LedgerInv /\ [Next]_vars => [KeepsResults]_vars
  <2> SUFFICES ASSUME LedgerInv, Next
               PROVE  KeepsResults
    OBVIOUS
  <2>1. ASSUME NEW r \in Requests, ClaimNextQueued(r) \/ AttemptStep(r)
        PROVE  KeepsResults
    BY <2>1 DEF ClaimNextQueued, AttemptStep, ReserveNextPhysicalAttempt, DiscardReservedAttempt,
                AcquireGates, MarkPhysicalAttemptStarted, FinishGateReservation, requestVars,
                KeepsResults
  <2> QED
    BY <2>1, LeaseKeepsResults, AdmissionKeepsResults, CancelKeepsResults, FinalizeKeepsResults
    DEF Next
<1>2. [KeepsResults]_vars =>
          [\A r \in Requests : result[r] # "none" => result'[r] = result[r] /\ state'[r] = state[r]]_vars
  BY DEF KeepsResults
<1> QED
  BY <1>1, <1>2, LedgerInvHolds, PTL DEF Spec, ResultIsFinal

-------------------------------------------------------------------------------
(* Nothing is sent beside an unknown outcome.                               *)

UnknownEndsSending ==
    \A r \in Requests, j, k \in Sequences : attempt[r][j] \in Live => attempt[r][k] # "unknown"

\* Steps that make no attempt live and none unknown keep it.
LEMMA NoNewSender ==
    ASSUME UnknownEndsSending,
           \A r \in Requests, k \in Sequences :
               /\ attempt'[r][k] \in Live => attempt[r][k] \in Live
               /\ attempt'[r][k] = "unknown" => attempt[r][k] = "unknown"
    PROVE  UnknownEndsSending'
BY DEF UnknownEndsSending

LEMMA AbandonedEndsSending ==
    ASSUME LedgerInv, NEW r \in Requests, NEW q \in Requests, NEW k \in Sequences
    PROVE  /\ Abandoned(r)[q][k] \in Live => attempt[q][k] \in Live
           /\ Abandoned(r)[q][k] = "unknown" <=> attempt[q][k] = "unknown"
           /\ q # r => Abandoned(r)[q] = attempt[q]
           /\ q = r => Abandoned(r)[q][k] = IF attempt[q][k] = "reserved" THEN "failed"
                                            ELSE attempt[q][k]
BY DEF Abandoned, LedgerInv, TypeInv, TypeOK, Live

LEMMA CancelEndsSending ==
    ASSUME LedgerInv, UnknownEndsSending, NEW r \in Requests, CancelStep(r)
    PROVE  UnknownEndsSending'
<1>1. CASE CancelFollower(r)
  BY <1>1, NoNewSender DEF CancelFollower, attemptVars
<1>2. CASE CancelLeaderPromote(r) \/ CancelLeaderAlone(r)
  <2>1. attempt' = Abandoned(r)
    BY <1>2 DEF CancelLeaderPromote, CancelLeaderAlone, WithdrawUnsent
  <2> QED
    BY <2>1, AbandonedEndsSending, NoNewSender
<1>3. CASE CancelSentLeader(r)
  <2>1. leader[FpOf[r]] = r
    BY <1>3 DEF CancelSentLeader, LedgerInv, NoConsumerStranded
  <2>2. PICK att \in {attempt, Abandoned(r)} : CancelFlight(FpOf[r], att)
    BY <1>3 DEF CancelSentLeader
  <2>3. \A q \in Requests, k \in Sequences : att[q][k] \in Live => attempt[q][k] \in Live
    BY <2>2, AbandonedEndsSending
  <2>4. \A q \in Requests, k \in Sequences : att[q][k] = "unknown" => attempt[q][k] = "unknown"
    BY <2>2, AbandonedEndsSending
  <2>5. att \in AttemptTable
    BY <2>2, AbandonedType DEF LedgerInv, TypeInv, TypeOK, AttemptTable
  <2>6. \A q \in Requests, k \in Sequences :
            attempt'[q][k] = IF q = r /\ att[q][k] = "started" THEN "unknown" ELSE att[q][k]
    BY <2>1, <2>2, <2>5 DEF CancelFlight, AttemptTable
  <2>7. SUFFICES ASSUME NEW q \in Requests, NEW j \in Sequences, NEW k \in Sequences,
                        attempt'[q][j] \in Live, attempt'[q][k] = "unknown"
                 PROVE  FALSE
    BY DEF UnknownEndsSending
  <2>8. attempt[q][j] \in Live
    BY <2>3, <2>6, <2>7 DEF Live
  <2>9. attempt[q][k] # "unknown"
    BY <2>8 DEF UnknownEndsSending
  <2>10. q = r /\ att[q][k] = "started"
    BY <2>4, <2>6, <2>7, <2>9
  <2>11. attempt[q][k] \in Live
    BY <2>3, <2>10 DEF Live
  <2>12. j = k
    BY <2>8, <2>11 DEF LedgerInv, LiveIsClaimed
  <2> QED
    BY <2>7, <2>12 DEF Live
<1> QED
  BY <1>1, <1>2, <1>3 DEF CancelStep

LEMMA AttemptEndsSending ==
    ASSUME LedgerInv, UnknownEndsSending, NEW r \in Requests, AttemptStep(r)
    PROVE  UnknownEndsSending'
<1> USE DEF LedgerInv, TypeInv, TypeOK
<1>1. CASE ReserveNextPhysicalAttempt(r)
  <2>1. PICK k \in Sequences : /\ "unknown" \notin AttemptStates(r)
                               /\ attempt' = [attempt EXCEPT ![r][k] = "reserved"]
    BY <1>1 DEF ReserveNextPhysicalAttempt
  <2>2. \A j \in Sequences : attempt[r][j] # "unknown"
    BY <2>1 DEF AttemptStates
  <2> QED
    BY <2>1, <2>2 DEF UnknownEndsSending
<1>2. CASE DiscardReservedAttempt(r)
  <2>1. PICK k \in Sequences : attempt' = [attempt EXCEPT ![r][k] = "none"]
    BY <1>2 DEF DiscardReservedAttempt
  <2> QED
    BY <2>1 DEF UnknownEndsSending, Live
<1>3. CASE AcquireGates(r)
  <2>1. PICK k \in Sequences :
            /\ \/ attempt[r][k] = "reserved"
               \/ NextSequence(r, k) /\ \A j \in Sequences : j < k => attempt[r][j] = "succeeded"
            /\ attempt' = [attempt EXCEPT ![r][k] = "reserved"]
    BY <1>3 DEF AcquireGates
  <2>2. CASE attempt[r][k] = "reserved"
    BY <2>1, <2>2, NoNewSender DEF Live
  <2>3. CASE NextSequence(r, k) /\ \A j \in Sequences : j < k => attempt[r][j] = "succeeded"
    <3>1. \A j \in Sequences : attempt[r][j] # "unknown"
      BY <2>3 DEF NextSequence
    <3> QED
      BY <2>1, <3>1 DEF UnknownEndsSending
  <2> QED
    BY <2>1, <2>2, <2>3
<1>4. CASE MarkPhysicalAttemptStarted(r)
  <2>1. PICK k \in Sequences : /\ attempt[r][k] = "reserved"
                               /\ attempt' = [attempt EXCEPT ![r][k] = "started"]
    BY <1>4 DEF MarkPhysicalAttemptStarted
  <2> QED
    BY <2>1, NoNewSender DEF Live
<1>5. CASE FinishGateReservation(r)
  <2>1. PICK k \in Sequences, outcome \in Terminal :
            attempt' = [attempt EXCEPT ![r][k] = IF attempt[r][k] \in Live THEN outcome ELSE attempt[r][k]]
    BY <1>5 DEF FinishGateReservation
  <2>2. CASE attempt[r][k] \in Live
    <3>1. \A j \in Sequences : attempt[r][j] \in Live => j = k
      BY <2>2 DEF LiveIsClaimed
    <3>2. \A j \in Sequences : attempt'[r][j] \notin Live
      BY <2>1, <2>2, <3>1 DEF Terminal, Live
    <3>3. \A q \in Requests : q # r => attempt'[q] = attempt[q]
      BY <2>1
    <3>4. SUFFICES ASSUME NEW q \in Requests, NEW i \in Sequences, NEW j \in Sequences,
                          attempt'[q][i] \in Live
                   PROVE  attempt'[q][j] # "unknown"
      BY DEF UnknownEndsSending
    <3>5. q # r /\ attempt'[q] = attempt[q]
      BY <3>2, <3>3, <3>4
    <3> QED
      BY <3>4, <3>5 DEF UnknownEndsSending
  <2>3. CASE attempt[r][k] \notin Live
    BY <2>1, <2>3, NoNewSender
  <2> QED
    BY <2>2, <2>3
<1> QED
  BY <1>1, <1>2, <1>3, <1>4, <1>5 DEF AttemptStep

LEMMA RecoveryEndsSending ==
    ASSUME LedgerInv, UnknownEndsSending, RecoverExpiredLease
    PROVE  UnknownEndsSending'
<1>1. attempt' = RecoveredAttempt
  BY DEF RecoverExpiredLease
<1>2. \A q \in Requests, k \in Sequences :
          attempt'[q][k] = IF attempt[q][k] = "started" THEN "unknown" ELSE attempt[q][k]
  BY <1>1 DEF RecoveredAttempt
<1>3. SUFFICES ASSUME NEW q \in Requests, NEW j \in Sequences, NEW k \in Sequences,
                      attempt'[q][j] \in Live, attempt'[q][k] = "unknown"
               PROVE  FALSE
  BY DEF UnknownEndsSending
<1>4. attempt[q][j] = "reserved"
  BY <1>2, <1>3 DEF Live
<1>5. attempt[q][k] = "started"
  BY <1>2, <1>3, <1>4 DEF UnknownEndsSending, Live
<1>6. j = k
  BY <1>4, <1>5 DEF LedgerInv, LiveIsClaimed, Live
<1> QED
  BY <1>4, <1>5, <1>6

LEMMA SendingStep == LedgerInv /\ UnknownEndsSending /\ [Next]_vars => UnknownEndsSending'
<1> SUFFICES ASSUME LedgerInv, UnknownEndsSending, [Next]_vars
             PROVE  UnknownEndsSending'
  OBVIOUS
<1>1. CASE AcquireLease \/ ReleaseLease
  BY <1>1, NoNewSender DEF AcquireLease, ReleaseLease, attemptVars
<1>2. CASE RecoverExpiredLease
  BY <1>2, RecoveryEndsSending
<1>3. ASSUME NEW r \in Requests,
             AdmissionStep(r) \/ ClaimNextQueued(r) \/ FinalizeLogicalRequest(r)
      PROVE  UnknownEndsSending'
  BY <1>3, NoNewSender
  DEF AdmissionStep, AdmitFollower, AdmitLeader, ClaimNextQueued, FinalizeLogicalRequest, attemptVars
<1>4. ASSUME NEW r \in Requests, CancelStep(r)
      PROVE  UnknownEndsSending'
  BY <1>4, CancelEndsSending
<1>5. ASSUME NEW r \in Requests, AttemptStep(r)
      PROVE  UnknownEndsSending'
  BY <1>5, AttemptEndsSending
<1>6. CASE UNCHANGED vars
  BY <1>6, NoNewSender DEF vars
<1> QED
  BY <1>1, <1>2, <1>3, <1>4, <1>5, <1>6 DEF Next, LeaseStep

\* Only mark_physical_attempt_started makes an attempt started.
LEMMA StartsOnlyMarked ==
    ASSUME LedgerInv, Next, NEW r \in Requests, NEW k \in Sequences,
           attempt'[r][k] = "started", attempt[r][k] # "started"
    PROVE  attempt[r][k] = "reserved"
<1>1. CASE AcquireLease \/ ReleaseLease
  BY <1>1 DEF AcquireLease, ReleaseLease, attemptVars
<1>2. CASE RecoverExpiredLease
  BY <1>2 DEF RecoverExpiredLease, RecoveredAttempt
<1>3. ASSUME NEW q \in Requests,
             AdmissionStep(q) \/ ClaimNextQueued(q) \/ FinalizeLogicalRequest(q)
      PROVE  FALSE
  BY <1>3
  DEF AdmissionStep, AdmitFollower, AdmitLeader, ClaimNextQueued, FinalizeLogicalRequest, attemptVars
<1>4. ASSUME NEW q \in Requests, CancelStep(q)
      PROVE  FALSE
  <2>1. CASE CancelFollower(q)
    BY <1>4, <2>1 DEF CancelFollower, attemptVars
  <2>2. CASE CancelLeaderPromote(q) \/ CancelLeaderAlone(q)
    <3>1. attempt' = Abandoned(q)
      BY <2>2 DEF CancelLeaderPromote, CancelLeaderAlone, WithdrawUnsent
    <3> QED
      BY <3>1, AbandonedEndsSending
  <2>3. CASE CancelSentLeader(q)
    <3>1. PICK att \in {attempt, Abandoned(q)} : CancelFlight(FpOf[q], att)
      BY <2>3 DEF CancelSentLeader
    <3>2. att \in AttemptTable
      BY <3>1, AbandonedType DEF LedgerInv, TypeInv, TypeOK, AttemptTable
    <3>4. att[r][k] # "started"
      BY <3>1, AbandonedEndsSending
    <3>3. attempt'[r][k] # "started"
      BY <3>1, <3>2, <3>4 DEF CancelFlight, AttemptTable
    <3> QED
      BY <3>3
  <2> QED
    BY <1>4, <2>1, <2>2, <2>3 DEF CancelStep
<1>5. ASSUME NEW q \in Requests, AttemptStep(q)
      PROVE  attempt[r][k] = "reserved"
  <2> USE DEF LedgerInv, TypeInv, TypeOK
  <2>1. CASE ReserveNextPhysicalAttempt(q)
    BY <2>1 DEF ReserveNextPhysicalAttempt
  <2>2. CASE DiscardReservedAttempt(q)
    BY <2>2 DEF DiscardReservedAttempt
  <2>3. CASE AcquireGates(q)
    BY <2>3 DEF AcquireGates
  <2>4. CASE MarkPhysicalAttemptStarted(q)
    BY <2>4 DEF MarkPhysicalAttemptStarted
  <2>5. CASE FinishGateReservation(q)
    BY <2>5 DEF FinishGateReservation, Terminal
  <2> QED
    BY <1>5, <2>1, <2>2, <2>3, <2>4, <2>5 DEF AttemptStep
<1> QED
  BY <1>1, <1>2, <1>3, <1>4, <1>5 DEF Next, LeaseStep

\* Once an attempt's outcome is unknown or its request is settled, no owner of any
\* generation sends for that request again.
THEOREM NothingResent == Spec => UnknownIsNotResent
<1>1. Init => UnknownEndsSending
  BY DEF Init, UnknownEndsSending, Live
<1>2. ASSUME LedgerInv, UnknownEndsSending, Next, NEW r \in Requests, NEW k \in Sequences,
             attempt'[r][k] = "started", attempt[r][k] # "started"
      PROVE  "unknown" \notin AttemptStates(r) /\ result[r] = "none"
  <2>1. attempt[r][k] = "reserved"
    BY <1>2, StartsOnlyMarked
  <2>2. "unknown" \notin AttemptStates(r)
    BY <1>2, <2>1 DEF UnknownEndsSending, AttemptStates, Live
  <2>3. state[r] = "queued"
    BY <1>2, <2>1 DEF LedgerInv, LiveIsClaimed, Claimed, Live
  <2> QED
    BY <1>2, <2>2, <2>3, SettledIsOut
<1>3. LedgerInv /\ UnknownEndsSending /\ [Next]_vars =>
          [\A r \in Requests, k \in Sequences :
              attempt'[r][k] = "started" /\ attempt[r][k] # "started" =>
                  "unknown" \notin AttemptStates(r) /\ result[r] = "none"]_vars
  BY <1>2
<1> QED
  BY <1>1, <1>3, SendingStep, LedgerInvHolds, PTL DEF Spec, UnknownIsNotResent

-------------------------------------------------------------------------------
(* Gate counts.                                                             *)

Slots == Requests \X Sequences
Count(A, x) == Cardinality(Occupants(A, x))

LEMMA CountAdded ==
    ASSUME NEW A \in SUBSET Slots, NEW a \in Slots, a \notin A, NEW x
    PROVE  Count(A \cup {a}, x) = Count(A, x) + (IF x \in KeysOf[a[1]] THEN 1 ELSE 0)
<1>1. IsFiniteSet(Occupants(A, x)) /\ Count(A, x) \in Nat
  BY OccupantsFinite DEF Slots, Count
<1>2. CASE x \in KeysOf[a[1]]
  <2>1. Occupants(A \cup {a}, x) = Occupants(A, x) \cup {a} /\ a \notin Occupants(A, x)
    BY <1>2 DEF Occupants
  <2> QED
    BY <1>1, <1>2, <2>1, FS_AddElement DEF Count
<1>3. CASE x \notin KeysOf[a[1]]
  <2>1. Occupants(A \cup {a}, x) = Occupants(A, x)
    BY <1>3 DEF Occupants
  <2> QED
    BY <1>1, <1>3, <2>1 DEF Count
<1> QED
  BY <1>2, <1>3

LEMMA CountRemoved ==
    ASSUME NEW A \in SUBSET Slots, NEW B \in SUBSET A, NEW x
    PROVE  Count(A \ B, x) = Count(A, x) - Count(B, x)
<1>1. IsFiniteSet(Occupants(A, x))
  BY OccupantsFinite DEF Slots
<1>2. /\ Occupants(A \ B, x) = Occupants(A, x) \ Occupants(B, x)
      /\ Occupants(A, x) \cap Occupants(B, x) = Occupants(B, x)
  BY DEF Occupants
<1> QED
  BY <1>1, <1>2, FS_Difference DEF Count

\* Reservations that are given up take their share of each count with them.
LEMMA ReleasedExact ==
    ASSUME OccupancyExact, TypeOK, NEW B \in SUBSET Holding(Requests),
           Holding(Requests)' = Holding(Requests) \ B,
           occupancy' = ReleasedOccupancy(B)
    PROVE  OccupancyExact'
<1> SUFFICES ASSUME NEW x \in Keys
             PROVE  /\ occupancy'[x] = Count(Holding(Requests)', x)
                    /\ occupancy'[x] <= Concurrency[x]
  BY DEF OccupancyExact, Count
<1>1. Holding(Requests) \in SUBSET Slots
  BY DEF Holding, Slots
<1>2. /\ occupancy[x] = Count(Holding(Requests), x) /\ occupancy[x] <= Concurrency[x]
      /\ occupancy'[x] = occupancy[x] - Count(B, x)
  BY DEF OccupancyExact, ReleasedOccupancy, Count
<1>3. Count(Holding(Requests)', x) = Count(Holding(Requests), x) - Count(B, x)
  BY <1>1, CountRemoved
<1>4. Count(B, x) \in Nat /\ occupancy[x] \in Nat /\ Concurrency[x] \in Nat
  BY <1>1, OccupantsFinite, RequestLedgerAssumption DEF Slots, Count, TypeOK
<1> QED
  BY <1>2, <1>3, <1>4

LEMMA SameGatesExact ==
    ASSUME OccupancyExact, UNCHANGED gateVars
    PROVE  OccupancyExact'
BY DEF OccupancyExact, gateVars, Holding, Occupants

LEMMA WithdrawnExact ==
    ASSUME OccupancyExact, TypeOK, NEW r \in Requests, ReleaseOccupancyOf(r)
    PROVE  OccupancyExact'
<1>1. Holding({r}) \in SUBSET Holding(Requests)
  BY DEF Holding
<1>2. Holding(Requests)' = Holding(Requests) \ Holding({r})
  <2>1. \A q \in Requests, k \in Sequences :
            reservation'[q][k] = "active" <=> reservation[q][k] = "active" /\ q # r
    BY DEF ReleaseOccupancyOf, Recovered
  <2> QED
    BY <2>1 DEF Holding
<1> QED
  BY <1>1, <1>2, ReleasedExact DEF ReleaseOccupancyOf

LEMMA AcquiredExact ==
    ASSUME OccupancyExact, TypeOK, NEW r \in Requests, AcquireGates(r)
    PROVE  OccupancyExact'
<1>1. PICK k \in Sequences :
          /\ \A x \in KeysOf[r] : occupancy[x] < Concurrency[x]
          /\ reservation[r][k] = "none"
          /\ reservation' = [reservation EXCEPT ![r][k] = "active"]
          /\ occupancy' = [x \in Keys |-> occupancy[x] + (IF x \in KeysOf[r] THEN 1 ELSE 0)]
  BY DEF AcquireGates
<1>2. <<r, k>> \in Slots /\ <<r, k>> \notin Holding(Requests)
  BY <1>1 DEF Holding, Slots
<1>3. Holding(Requests)' = Holding(Requests) \cup {<<r, k>>}
  <2>1. \A q \in Requests, j \in Sequences :
            reservation'[q][j] = "active" <=> reservation[q][j] = "active" \/ (q = r /\ j = k)
    BY <1>1 DEF TypeOK
  <2> QED
    BY <2>1 DEF Holding
<1> SUFFICES ASSUME NEW x \in Keys
             PROVE  /\ occupancy'[x] = Count(Holding(Requests)', x)
                    /\ occupancy'[x] <= Concurrency[x]
  BY DEF OccupancyExact, Count
<1>4. Holding(Requests) \in SUBSET Slots
  BY DEF Holding, Slots
<1>5. Count(Holding(Requests)', x) =
          Count(Holding(Requests), x) + (IF x \in KeysOf[r] THEN 1 ELSE 0)
  BY <1>2, <1>3, <1>4, CountAdded
<1>6. occupancy[x] = Count(Holding(Requests), x) /\ occupancy[x] <= Concurrency[x]
  BY DEF OccupancyExact, Count
<1>7. occupancy[x] \in Nat /\ Concurrency[x] \in Nat
  BY RequestLedgerAssumption DEF TypeOK
<1> QED
  BY <1>1, <1>5, <1>6, <1>7

LEMMA FinishedExact ==
    ASSUME OccupancyExact, TypeOK, NEW r \in Requests, FinishGateReservation(r)
    PROVE  OccupancyExact'
<1>1. PICK k \in Sequences :
          /\ reservation[r][k] = "active"
          /\ reservation' = [reservation EXCEPT ![r][k] = "released"]
          /\ occupancy' = ReleasedOccupancy({<<r, k>>})
  BY DEF FinishGateReservation
<1>2. {<<r, k>>} \in SUBSET Holding(Requests)
  BY <1>1 DEF Holding
<1>3. Holding(Requests)' = Holding(Requests) \ {<<r, k>>}
  <2>1. \A q \in Requests, j \in Sequences :
            reservation'[q][j] = "active" <=> reservation[q][j] = "active" /\ ~(q = r /\ j = k)
    BY <1>1 DEF TypeOK
  <2> QED
    BY <2>1 DEF Holding
<1> QED
  BY <1>1, <1>2, <1>3, ReleasedExact

LEMMA RecoveredExact ==
    ASSUME OccupancyExact, TypeOK, RecoverExpiredLease
    PROVE  OccupancyExact'
<1>1. \A q \in Requests, k \in Sequences : reservation'[q][k] # "active"
  BY DEF RecoverExpiredLease, Recovered
<1>2. Holding(Requests)' = Holding(Requests) \ Holding(Requests)
  BY <1>1 DEF Holding
<1> QED
  BY <1>2, ReleasedExact DEF RecoverExpiredLease

LEMMA ExactStep == LedgerInv /\ OccupancyExact /\ [Next]_vars => OccupancyExact'
<1> SUFFICES ASSUME LedgerInv, OccupancyExact, [Next]_vars
             PROVE  OccupancyExact'
  OBVIOUS
<1>0. TypeOK
  BY DEF LedgerInv, TypeInv
<1>1. CASE LeaseStep
  BY <1>0, <1>1, SameGatesExact, RecoveredExact DEF LeaseStep, AcquireLease, ReleaseLease
<1>2. ASSUME NEW r \in Requests,
             AdmissionStep(r) \/ ClaimNextQueued(r) \/ FinalizeLogicalRequest(r)
      PROVE  OccupancyExact'
  BY <1>2, SameGatesExact
  DEF AdmissionStep, AdmitFollower, AdmitLeader, ClaimNextQueued, FinalizeLogicalRequest
<1>3. ASSUME NEW r \in Requests, CancelStep(r)
      PROVE  OccupancyExact'
  <2>1. CASE CancelFollower(r)
    BY <2>1, SameGatesExact DEF CancelFollower
  <2>2. CASE CancelLeaderPromote(r) \/ CancelLeaderAlone(r)
    BY <1>0, <2>2, WithdrawnExact DEF CancelLeaderPromote, CancelLeaderAlone, WithdrawUnsent
  <2>3. CASE CancelSentLeader(r)
    <3>1. ReleaseOccupancyOf(leader[FpOf[r]])
      BY <2>3 DEF CancelSentLeader, CancelFlight
    <3>2. leader[FpOf[r]] = r
      BY <2>3 DEF CancelSentLeader, LedgerInv, NoConsumerStranded
    <3> QED
      BY <1>0, <3>1, <3>2, WithdrawnExact
  <2> QED
    BY <1>3, <2>1, <2>2, <2>3 DEF CancelStep
<1>4. ASSUME NEW r \in Requests, AttemptStep(r)
      PROVE  OccupancyExact'
  <2>1. CASE AcquireGates(r)
    BY <1>0, <2>1, AcquiredExact
  <2>2. CASE FinishGateReservation(r)
    BY <1>0, <2>2, FinishedExact
  <2>3. CASE \/ ReserveNextPhysicalAttempt(r) \/ DiscardReservedAttempt(r)
             \/ MarkPhysicalAttemptStarted(r)
    BY <2>3, SameGatesExact
    DEF ReserveNextPhysicalAttempt, DiscardReservedAttempt, MarkPhysicalAttemptStarted
  <2> QED
    BY <1>4, <2>1, <2>2, <2>3 DEF AttemptStep
<1>5. CASE UNCHANGED vars
  BY <1>5, SameGatesExact DEF vars, gateVars
<1> QED
  BY <1>1, <1>2, <1>3, <1>4, <1>5 DEF Next

LEMMA ExactFirst == Init => OccupancyExact
<1> SUFFICES ASSUME Init, NEW x \in Keys
             PROVE  /\ occupancy[x] = Cardinality(Occupants(Holding(Requests), x))
                    /\ occupancy[x] <= Concurrency[x]
  BY DEF OccupancyExact
<1>1. Occupants(Holding(Requests), x) = {}
  BY DEF Init, Holding, Occupants
<1> QED
  BY <1>1, FS_EmptySet, RequestLedgerAssumption DEF Init

\* gate_state.active_count is the number of the reservations that are active under
\* each key, and within its limit, through every release, cancellation and recovery.
THEOREM CountsExact == Spec => []OccupancyExact
BY ExactFirst, ExactStep, LedgerInvHolds, PTL DEF Spec

-------------------------------------------------------------------------------
(* Recovery finds nothing it refuses.                                       *)

GenerationsPast == \A r \in Requests, k \in Sequences : attemptGen[r][k] <= generation

\* The attempt of a waiting request ends with its gates released, never without.
OutcomesReleased ==
    \A r \in Requests, k \in Sequences :
        attempt[r][k] \in Terminal /\ state[r] = "queued" => reservation[r][k] = "released"

AuditInv == GenerationsPast /\ OutcomesReleased

\* Steps that end no attempt and queue no request with attempts keep the second part.
LEMMA NoNewOutcome ==
    ASSUME OutcomesReleased,
           \A r \in Requests, k \in Sequences :
               attempt'[r][k] \in Terminal /\ state'[r] = "queued" =>
                   /\ attempt[r][k] \in Terminal /\ state[r] = "queued"
                   /\ reservation'[r][k] = reservation[r][k]
    PROVE  OutcomesReleased'
BY DEF OutcomesReleased

LEMMA SameGenerations ==
    ASSUME GenerationsPast, attemptGen' = attemptGen, generation' \in {generation, generation + 1},
           TypeOK
    PROVE  GenerationsPast'
BY DEF GenerationsPast, TypeOK

\* A delivery queues nobody.
LEMMA DeliveryQueuesNobody ==
    ASSUME NEW F, NEW st, NEW res, NEW q \in Requests,
           DeliveredState(F, st, res)[q] = "queued",
           q \in Recipients(F) => res[leader[FpOf[q]]] \in Outcomes
    PROVE  st[q] = "queued"
BY DEF DeliveredState, StateOf, Outcomes

LEMMA LeaseAudit ==
    ASSUME LedgerInv, AuditInv, LeaseStep
    PROVE  AuditInv'
<1> USE DEF LedgerInv, TypeInv, TypeOK
<1>1. CASE AcquireLease
  <2>1. state' = state /\ UNCHANGED <<attempt, attemptGen, reservation>>
    BY <1>1, NothingSettled, DeliverNothing DEF AcquireLease, attemptVars, gateVars
  <2>2. generation' = generation + 1
    BY <1>1 DEF AcquireLease
  <2> QED
    BY <2>1, <2>2, NoNewOutcome, SameGenerations DEF AuditInv
<1>2. CASE ReleaseLease
  BY <1>2, NoNewOutcome, SameGenerations DEF ReleaseLease, AuditInv, requestVars, attemptVars, gateVars
<1>3. CASE RecoverExpiredLease
  <2> DEFINE F == Settled(RecoveredResult)
  <2>1. /\ state' = DeliveredState(F, RecoveredState, RecoveredResult)
        /\ attempt' = RecoveredAttempt /\ reservation' = Recovered(Requests)
        /\ generation' = generation + 1
        /\ attemptGen' = [r \in Requests |-> [k \in Sequences |->
                IF attempt[r][k] = "reserved" THEN generation + 1 ELSE attemptGen[r][k]]]
    BY <1>3 DEF RecoverExpiredLease
  <2>2. GenerationsPast'
    <3>1. ASSUME NEW r \in Requests, NEW k \in Sequences
          PROVE  attemptGen'[r][k] <= generation'
      <4>1. attemptGen'[r][k] \in {generation + 1, attemptGen[r][k]}
        BY <2>1
      <4>2. attemptGen[r][k] <= generation /\ attemptGen[r][k] \in Nat /\ generation \in Nat
        BY DEF AuditInv, GenerationsPast
      <4> QED
        BY <2>1, <4>1, <4>2
    <3> QED
      BY <3>1 DEF GenerationsPast
  <2>3. ASSUME NEW q \in Requests, NEW k \in Sequences,
               attempt'[q][k] \in Terminal, state'[q] = "queued"
        PROVE  /\ attempt[q][k] \in Terminal /\ state[q] = "queued"
               /\ reservation'[q][k] = reservation[q][k]
    <3>1. q \in Recipients(F) => RecoveredResult[leader[FpOf[q]]] \in Outcomes
      <4>1. \A f \in F : leader[f] \in Requests /\ RecoveredResult[leader[f]] # "none"
        BY DEF Settled, FlightLed
      <4>2. \A p \in Requests : RecoveredResult[p] \in Outcomes \cup {"none"}
        BY DEF RecoveredResult, Outcomes
      <4> QED
        BY <4>1, <4>2 DEF Recipients
    <3>2. RecoveredState[q] = "queued"
      BY <2>1, <2>3, <3>1, DeliveryQueuesNobody
    <3>3. state[q] = "queued" /\ q \notin Interrupted
      BY <3>2 DEF RecoveredState
    <3>4. attempt[q][k] # "started"
      BY <3>3 DEF Interrupted, AttemptStates
    <3>5. attempt[q][k] \in Terminal
      BY <2>1, <2>3, <3>4 DEF RecoveredAttempt
    <3>6. reservation[q][k] = "released"
      BY <3>3, <3>5 DEF AuditInv, OutcomesReleased
    <3> QED
      BY <2>1, <3>3, <3>5, <3>6 DEF Recovered
  <2> QED
    BY <2>2, <2>3, NoNewOutcome DEF AuditInv
<1> QED
  BY <1>1, <1>2, <1>3 DEF LeaseStep

LEMMA AdmissionAudit ==
    ASSUME LedgerInv, AuditInv, NEW r \in Requests, AdmissionStep(r)
    PROVE  AuditInv'
<1> USE DEF LedgerInv, TypeInv, TypeOK
<1>1. \A k \in Sequences : attempt[r][k] = "none"
  BY DEF AdmissionStep, AdmitFollower, AdmitLeader, AbsentIsBlank
<1>2. UNCHANGED <<generation, attempt, attemptGen, reservation>>
  BY DEF AdmissionStep, AdmitFollower, AdmitLeader, leaseVars, attemptVars, gateVars
<1>3. \A q \in Requests : q # r => state'[q] = state[q]
  <2>1. CASE AdmitFollower(r)
    BY <2>1 DEF AdmitFollower
  <2>2. CASE AdmitLeader(r)
    <3>1. Settled(result) \cap {FpOf[r]} = {}
      BY NothingSettled
    <3>2. state' = [state EXCEPT ![r] = state'[r]]
      BY <2>2, <3>1, DeliverNothing DEF AdmitLeader
    <3> QED
      BY <3>2
  <2> QED
    BY <2>1, <2>2 DEF AdmissionStep
<1>4. ASSUME NEW q \in Requests, NEW k \in Sequences,
             attempt'[q][k] \in Terminal, state'[q] = "queued"
      PROVE  attempt[q][k] \in Terminal /\ state[q] = "queued"
  BY <1>1, <1>2, <1>3, <1>4 DEF Terminal
<1> QED
  BY <1>2, <1>4, NoNewOutcome, SameGenerations DEF AuditInv

LEMMA CancelAudit ==
    ASSUME LedgerInv, AuditInv, NEW r \in Requests, CancelStep(r)
    PROVE  AuditInv'
<1> USE DEF LedgerInv, TypeInv, TypeOK
<1>1. CASE CancelFollower(r)
  BY <1>1, NoNewOutcome, SameGenerations DEF CancelFollower, AuditInv, leaseVars, attemptVars, gateVars
<1>2. CASE CancelLeaderPromote(r) \/ CancelLeaderAlone(r)
  <2>1. Withdrawn(r)
    BY <1>2, WithdrawnRows DEF CancelLeaderPromote, CancelLeaderAlone
  <2>2. UNCHANGED <<generation, attemptGen>>
    BY <1>2 DEF CancelLeaderPromote, CancelLeaderAlone, leaseVars
  <2> QED
    BY <2>1, <2>2, NoNewOutcome, SameGenerations DEF AuditInv, Withdrawn
<1>3. CASE CancelSentLeader(r)
  <2>1. leader[FpOf[r]] = r
    BY <1>3 DEF CancelSentLeader, NoConsumerStranded
  <2>2. PICK att \in {attempt, Abandoned(r)} : CancelFlight(FpOf[r], att)
    BY <1>3 DEF CancelSentLeader
  <2>3. \A q \in Requests : q # r => attempt'[q] = attempt[q] /\ reservation'[q] = reservation[q]
    <3>1. \A q \in Requests : q # r => att[q] = attempt[q]
      BY <2>2 DEF Abandoned
    <3>2. att \in AttemptTable
      BY <2>2, AbandonedType DEF AttemptTable
    <3>3. \A q \in Requests : q # r => attempt'[q] = att[q]
      BY <2>1, <2>2, <3>2 DEF CancelFlight, AttemptTable
    <3>4. \A q \in Requests : q # r => reservation'[q] = reservation[q]
      BY <2>1, <2>2 DEF CancelFlight, ReleaseOccupancyOf, Recovered
    <3> QED
      BY <3>1, <3>3, <3>4
  <2>4. \A q \in Requests : state'[q] = "queued" => state[q] = "queued"
    BY <2>2 DEF CancelFlight
  <2>5. state'[r] = "failed"
    BY <1>3, <2>2 DEF CancelSentLeader, CancelFlight, Recipients
  <2>6. UNCHANGED <<generation, attemptGen>>
    BY <2>2 DEF CancelFlight, leaseVars
  <2> QED
    BY <2>3, <2>4, <2>5, <2>6, NoNewOutcome, SameGenerations DEF AuditInv
<1> QED
  BY <1>1, <1>2, <1>3 DEF CancelStep

LEMMA AttemptAudit ==
    ASSUME LedgerInv, AuditInv, NEW r \in Requests, AttemptStep(r)
    PROVE  AuditInv'
<1> USE DEF LedgerInv, TypeInv, TypeOK
<1>1. UNCHANGED <<generation, state>>
  BY DEF AttemptStep, ReserveNextPhysicalAttempt, DiscardReservedAttempt, AcquireGates,
         MarkPhysicalAttemptStarted, FinishGateReservation, leaseVars, requestVars
<1>2. GenerationsPast'
  <2>1. \/ attemptGen' = attemptGen
        \/ \E k \in Sequences, g \in {generation, 0} : attemptGen' = [attemptGen EXCEPT ![r][k] = g]
    BY DEF AttemptStep, ReserveNextPhysicalAttempt, DiscardReservedAttempt, AcquireGates,
           MarkPhysicalAttemptStarted, FinishGateReservation
  <2>2. ASSUME NEW q \in Requests, NEW k \in Sequences
        PROVE  attemptGen'[q][k] <= generation
    <3>1. attemptGen'[q][k] \in {attemptGen[q][k], generation, 0}
      <4>1. CASE attemptGen' = attemptGen
        BY <4>1
      <4>2. ASSUME NEW j \in Sequences, NEW g \in {generation, 0},
                   attemptGen' = [attemptGen EXCEPT ![r][j] = g]
            PROVE  attemptGen'[q][k] \in {attemptGen[q][k], generation, 0}
        <5>1. CASE q = r /\ k = j
          BY <4>2, <5>1
        <5>2. CASE ~(q = r /\ k = j)
          BY <4>2, <5>2
        <5> QED
          BY <5>1, <5>2
      <4> QED
        BY <2>1, <4>1, <4>2
    <3>2. attemptGen[q][k] <= generation /\ generation \in Nat
      BY DEF AuditInv, GenerationsPast
    <3> QED
      BY <3>1, <3>2
  <2> QED
    BY <1>1, <2>2 DEF GenerationsPast
<1>3. CASE ReserveNextPhysicalAttempt(r)
  <2>1. PICK k \in Sequences : attempt' = [attempt EXCEPT ![r][k] = "reserved"]
                               /\ UNCHANGED gateVars
    BY <1>3 DEF ReserveNextPhysicalAttempt
  <2> QED
    BY <1>1, <1>2, <2>1, NoNewOutcome DEF AuditInv, gateVars, Terminal
<1>4. CASE DiscardReservedAttempt(r)
  <2>1. PICK k \in Sequences : attempt' = [attempt EXCEPT ![r][k] = "none"] /\ UNCHANGED gateVars
    BY <1>4 DEF DiscardReservedAttempt
  <2> QED
    BY <1>1, <1>2, <2>1, NoNewOutcome DEF AuditInv, gateVars, Terminal
<1>5. CASE AcquireGates(r)
  <2>1. PICK k \in Sequences : /\ attempt' = [attempt EXCEPT ![r][k] = "reserved"]
                               /\ reservation' = [reservation EXCEPT ![r][k] = "active"]
    BY <1>5 DEF AcquireGates
  <2> QED
    BY <1>1, <1>2, <2>1, NoNewOutcome DEF AuditInv, Terminal
<1>6. CASE MarkPhysicalAttemptStarted(r)
  <2>1. PICK k \in Sequences : attempt' = [attempt EXCEPT ![r][k] = "started"] /\ UNCHANGED gateVars
    BY <1>6 DEF MarkPhysicalAttemptStarted
  <2> QED
    BY <1>1, <1>2, <2>1, NoNewOutcome DEF AuditInv, gateVars, Terminal
<1>7. CASE FinishGateReservation(r)
  <2>1. PICK k \in Sequences, outcome \in Terminal :
            /\ reservation' = [reservation EXCEPT ![r][k] = "released"]
            /\ attempt' = [attempt EXCEPT ![r][k] = IF attempt[r][k] \in Live THEN outcome ELSE attempt[r][k]]
    BY <1>7 DEF FinishGateReservation
  <2>2. \A q \in Requests, j \in Sequences :
            \/ attempt'[q][j] = attempt[q][j] /\ reservation'[q][j] = reservation[q][j]
            \/ reservation'[q][j] = "released"
    BY <2>1
  <2> QED
    BY <1>1, <1>2, <2>2 DEF AuditInv, OutcomesReleased
<1> QED
  BY <1>3, <1>4, <1>5, <1>6, <1>7 DEF AttemptStep

LEMMA FinalizeAudit ==
    ASSUME LedgerInv, AuditInv, NEW r \in Requests, FinalizeLogicalRequest(r)
    PROVE  AuditInv'
<1> USE DEF LedgerInv, TypeInv, TypeOK
<1>1. PICK outcome \in Terminal :
          /\ leader[FpOf[r]] = r
          /\ state' = DeliveredState({FpOf[r]}, [state EXCEPT ![r] = StateOf(outcome)],
                                     [result EXCEPT ![r] = outcome])
          /\ UNCHANGED <<generation, attempt, attemptGen, reservation>>
  BY DEF FinalizeLogicalRequest, leaseVars, attemptVars, gateVars
<1>2. ASSUME NEW q \in Requests, state'[q] = "queued"
      PROVE  state[q] = "queued"
  <2>1. q \in Recipients({FpOf[r]}) => state'[q] = StateOf(outcome)
    BY <1>1 DEF DeliveredState, Recipients
  <2>2. q \notin Recipients({FpOf[r]}) => state'[q] \in {StateOf(outcome), state[q]}
    BY <1>1 DEF DeliveredState
  <2> QED
    BY <1>2, <2>1, <2>2 DEF StateOf, Terminal
<1> QED
  BY <1>1, <1>2, NoNewOutcome, SameGenerations DEF AuditInv

LEMMA AuditStep == LedgerInv /\ AuditInv /\ [Next]_vars => AuditInv'
<1> SUFFICES ASSUME LedgerInv, AuditInv, [Next]_vars
             PROVE  AuditInv'
  OBVIOUS
<1>1. ASSUME NEW r \in Requests, ClaimNextQueued(r)
      PROVE  AuditInv'
  BY <1>1, NoNewOutcome, SameGenerations
  DEF ClaimNextQueued, AuditInv, leaseVars, requestVars, attemptVars, gateVars, LedgerInv, TypeInv
<1>2. CASE UNCHANGED vars
  BY <1>2, NoNewOutcome, SameGenerations DEF vars, AuditInv, LedgerInv, TypeInv
<1> QED
  BY <1>1, <1>2, LeaseAudit, AdmissionAudit, CancelAudit, AttemptAudit, FinalizeAudit DEF Next

LEMMA AuditFirst == Init => AuditInv
BY DEF Init, AuditInv, GenerationsPast, OutcomesReleased, Terminal

\* A claimed leader that recovery settles gets an outcome its attempts justify.
LEMMA RecoveryJustified ==
    ASSUME LedgerInv, NEW q \in Interrupted \cup BetweenAttempts
    PROVE  OutcomeJustified(q, RecoveredResult[q], RecoveredAttempt)
<1>1. q \in Requests /\ RecoveredResult[q] \in {"failed", "unknown"}
  BY SettledByRecovery
<1>2. \A k \in Sequences : RecoveredAttempt[q][k] =
          IF attempt[q][k] = "started" THEN "unknown" ELSE attempt[q][k]
  BY <1>1 DEF RecoveredAttempt
<1>3. \A k \in Sequences : RecoveredAttempt[q][k] \notin Live
  <2>1. CASE q \in Interrupted
    <3>1. PICK j \in Sequences : attempt[q][j] = "started"
      BY <1>1, <2>1 DEF Interrupted, AttemptStates
    <3>2. \A k \in Sequences : attempt[q][k] \in Live => k = j
      BY <1>1, <3>1 DEF LedgerInv, LiveIsClaimed, Live
    <3> QED
      BY <1>2, <3>1, <3>2 DEF Live
  <2>2. CASE q \in BetweenAttempts
    <3>1. \A k \in Sequences : attempt[q][k] \notin Live
      BY <1>1, <2>2 DEF BetweenAttempts, HasLiveAttempt, AttemptStates, Live
    <3> QED
      BY <1>2, <3>1 DEF Live
  <2> QED
    BY <2>1, <2>2
<1>4. RecoveredResult[q] = "unknown" => \E k \in Sequences : RecoveredAttempt[q][k] = "unknown"
  <2>1. CASE q \in Interrupted
    BY <1>1, <1>2, <2>1 DEF Interrupted, AttemptStates
  <2>2. CASE q \notin Interrupted /\ RecoveredResult[q] = "unknown"
    <3>1. "unknown" \in AttemptStates(q)
      BY <1>1, <2>2 DEF RecoveredResult
    <3> QED
      BY <1>2, <3>1 DEF AttemptStates
  <2> QED
    BY <2>1, <2>2
<1> QED
  BY <1>1, <1>3, <1>4 DEF OutcomeJustified

LEMMA RecoveryDelivers ==
    ASSUME LedgerInv
    PROVE  Reconcilable(Settled(RecoveredResult), RecoveredState, RecoveredResult, RecoveredAttempt)
<1> SUFFICES ASSUME NEW f \in Settled(RecoveredResult)
             PROVE  /\ flight[f] = "active"
                    /\ role[leader[f]] = "leader" /\ member[leader[f]] = "active"
                    /\ \A q \in Recipients({f}) \ {leader[f]} :
                          /\ role[q] = "follower"
                          /\ RecoveredState[q] = "queued"
                          /\ \A k \in Sequences : RecoveredAttempt[q][k] = "none"
                    /\ RecoveredState[leader[f]] = StateOf(RecoveredResult[leader[f]])
                    /\ OutcomeJustified(leader[f], RecoveredResult[leader[f]], RecoveredAttempt)
  BY DEF Reconcilable, Deliverable
<1> USE DEF LedgerInv, TypeInv, TypeOK
<1>1. /\ f \in Fingerprints /\ flight[f] = "active" /\ RecoveredResult[leader[f]] # "none"
      /\ leader[f] \in Requests /\ FpOf[leader[f]] = f /\ member[leader[f]] = "active"
  BY DEF Settled, FlightLed
<1>2. role[leader[f]] = "leader"
  BY <1>1 DEF NoConsumerStranded
<1>3. leader[f] \in Interrupted \cup BetweenAttempts
  BY <1>1 DEF RecoveredResult, RowsAgree
<1>4. ASSUME NEW q \in Recipients({f}) \ {leader[f]}
      PROVE  /\ role[q] = "follower" /\ RecoveredState[q] = "queued"
             /\ \A k \in Sequences : RecoveredAttempt[q][k] = "none"
  <2>1. q \in Requests /\ member[q] = "active" /\ FpOf[q] = f /\ q # leader[f]
    BY <1>4 DEF Recipients
  <2>2. role[q] = "follower"
    BY <2>1 DEF NoConsumerStranded, FollowersIdle
  <2>3. \A k \in Sequences : attempt[q][k] = "none"
    BY <2>1, <2>2 DEF FollowersIdle
  <2>4. q \notin Interrupted \cup BetweenAttempts
    BY <2>1, <2>3 DEF Interrupted, BetweenAttempts, AttemptStates, Terminal
  <2> QED
    BY <2>1, <2>2, <2>3, <2>4 DEF RecoveredState, RecoveredAttempt, RowsAgree
<1>5. RecoveredState[leader[f]] = StateOf(RecoveredResult[leader[f]])
  BY <1>1, <1>3, SettledByRecovery DEF RecoveredState, StateOf
<1> HIDE DEF LedgerInv, TypeInv, TypeOK
<1>6. OutcomeJustified(leader[f], RecoveredResult[leader[f]], RecoveredAttempt)
  BY <1>1, <1>3, RecoveryJustified
<1> QED
  BY <1>1, <1>2, <1>4, <1>5, <1>6

\* No sequence of calls, releases and crashes leaves a ledger that a new owner
\* refuses to recover, for any requests, limits, gates and number of attempts.
THEOREM RecoveryAlwaysAccepted == Spec => []RecoveryNeverRefused
<1>1. LedgerInv /\ AuditInv => RecoveryAuditClean
  <2> SUFFICES ASSUME LedgerInv, AuditInv, NEW r \in Requests, NEW k \in Sequences
               PROVE  /\ attemptGen[r][k] <= generation
                      /\ attempt[r][k] = "started" => state[r] = "queued" /\ result[r] = "none"
                      /\ attempt[r][k] \in Terminal =>
                            IF state[r] = "queued" THEN reservation[r][k] = "released"
                                                   ELSE result[r] # "none"
    BY DEF RecoveryAuditClean
  <2>1. attempt[r][k] = "started" => state[r] = "queued" /\ result[r] = "none"
    BY DEF LedgerInv, LiveIsClaimed, Claimed, Live, RowsAgree
  <2>2. attempt[r][k] \in Terminal => state[r] # "absent"
    BY DEF LedgerInv, AbsentIsBlank, Terminal
  <2> QED
    BY <2>1, <2>2 DEF AuditInv, GenerationsPast, OutcomesReleased, LedgerInv, RowsAgree
<1>2. LedgerInv /\ OccupancyExact => Countable(Holding(Requests))
  <2> SUFFICES ASSUME LedgerInv, OccupancyExact, NEW x \in Keys
               PROVE  Cardinality(Occupants(Holding(Requests), x)) <= occupancy[x]
    BY DEF Countable
  <2> QED
    BY DEF OccupancyExact, LedgerInv, TypeInv, TypeOK
<1>3. LedgerInv => /\ \A r \in Interrupted : state[r] = "queued"
                   /\ \A r \in Interrupted \cup BetweenAttempts : result[r] = "none"
  BY SettledByRecovery
<1>4. LedgerInv /\ AuditInv /\ OccupancyExact => RecoveryNeverRefused
  BY <1>1, <1>2, <1>3, RecoveryDelivers DEF RecoveryNeverRefused, RecoveryAccepted
<1> QED
  BY <1>4, AuditFirst, AuditStep, CountsExact, LedgerInvHolds, PTL DEF Spec

-------------------------------------------------------------------------------
(* The ledger keeps the promise of FlightPromise.                           *)

LEMMA WaitingIsRecipients == \A F : Promise!WaitingFor(F) = Recipients(F)
  BY DEF Promise!WaitingFor, waiting, Recipients

LEMMA SameProof ==
    ASSUME \A q \in Requests, k \in Sequences :
               attempt'[q][k] = "succeeded" <=> attempt[q][k] = "succeeded"
    PROVE  proof' = proof
BY DEF proof, AttemptStates

LEMMA SameWaiting ==
    ASSUME \A q \in Requests : member'[q] = "active" <=> member[q] = "active"
    PROVE  waiting' = waiting
BY DEF waiting

\* A verdict for the flights of F, told at once to all their consumers.
LEMMA SettlesFlights ==
    ASSUME TypeOK, NEW F \in SUBSET {FpOf[q] : q \in waiting}, NEW told,
           told \in [F -> {"succeeded", "failed", "unknown"}],
           \A f \in F : told[f] = "succeeded" => Recipients({f}) \cap proof # {},
           result' = [q \in Requests |-> IF q \in Recipients(F) THEN told[FpOf[q]] ELSE result[q]],
           \A q \in Requests : member'[q] = "active" <=> member[q] = "active" /\ q \notin Recipients(F),
           proof' = proof
    PROVE  Promise!Next
<1>1. waiting' = waiting \ Promise!WaitingFor(F)
  BY WaitingIsRecipients DEF waiting
<1>2. Promise!Settle(F)
  BY <1>1, WaitingIsRecipients DEF Promise!Settle
<1>3. F \in SUBSET Promise!Things
  BY DEF Promise!Things
<1> QED
  BY <1>2, <1>3 DEF Promise!Next

LEMMA LeavesAlone ==
    ASSUME TypeOK, NEW r \in Requests, member[r] = "active",
           member' = [member EXCEPT ![r] = "cancelled"],
           result' = [result EXCEPT ![r] = "cancelled"],
           proof' = proof
    PROVE  Promise!Next
<1>1. r \in waiting /\ waiting' = waiting \ {r}
  BY DEF waiting, TypeOK
<1> QED
  BY <1>1 DEF Promise!Next, Promise!Withdraw

LEMMA AdmissionPromise ==
    ASSUME LedgerInv, NEW r \in Requests, AdmissionStep(r)
    PROVE  Promise!Next
<1> USE DEF LedgerInv, TypeInv, TypeOK
<1>1. r \notin waiting /\ result[r] = "none"
  BY DEF AdmissionStep, AdmitFollower, AdmitLeader, RowsAgree, waiting
<1>2. proof' = proof
  BY SameProof DEF AdmissionStep, AdmitFollower, AdmitLeader, attemptVars
<1>3. CASE AdmitFollower(r)
  <2>1. waiting' = waiting \cup {r} /\ result' = result
    BY <1>3 DEF AdmitFollower, waiting
  <2> QED
    BY <1>1, <1>2, <2>1 DEF Promise!Next, Promise!Join
<1>4. CASE AdmitLeader(r)
  <2>1. Settled(result) \cap {FpOf[r]} = {}
    BY NothingSettled
  <2>2. PICK rejected \in BOOLEAN :
            /\ member' = [member EXCEPT ![r] = IF rejected THEN "cancelled" ELSE "active"]
            /\ result' = [result EXCEPT ![r] = IF rejected THEN "failed" ELSE "none"]
    <3>1. DeliveredMember({}) = member /\ DeliveredResult({}, result) = result
      BY DeliverNothing
    <3>2. QueueFull(DeliveredQueue({}, queue), r) \in BOOLEAN
      BY DEF QueueFull
    <3> QED
      BY <1>4, <2>1, <3>1, <3>2 DEF AdmitLeader
  <2>3. CASE rejected
    <3>1. waiting' = waiting
      BY <1>1, <2>2, <2>3 DEF waiting
    <3> QED
      BY <1>1, <1>2, <2>2, <2>3, <3>1 DEF Promise!Next, Promise!Reject
  <2>4. CASE ~rejected
    <3>1. waiting' = waiting \cup {r} /\ result' = result
      BY <1>1, <2>2, <2>4 DEF waiting
    <3> QED
      BY <1>1, <1>2, <3>1 DEF Promise!Next, Promise!Join
  <2> QED
    BY <2>3, <2>4
<1> QED
  BY <1>3, <1>4 DEF AdmissionStep

LEMMA CancelPromise ==
    ASSUME LedgerInv, NEW r \in Requests, CancelStep(r)
    PROVE  Promise!Next
<1> USE DEF LedgerInv, TypeInv
<1>1. CASE CancelFollower(r)
  BY <1>1, SameProof, LeavesAlone DEF CancelFollower, attemptVars
<1>2. CASE CancelLeaderPromote(r) \/ CancelLeaderAlone(r)
  <2>1. WithdrawUnsent(r)
    BY <1>2 DEF CancelLeaderPromote, CancelLeaderAlone
  <2>2. proof' = proof
    <3>1. \A q \in Requests, k \in Sequences :
              attempt'[q][k] = "succeeded" <=> attempt[q][k] = "succeeded"
      BY <2>1 DEF WithdrawUnsent, Abandoned, TypeOK
    <3> QED
      BY <3>1, SameProof
  <2> QED
    BY <2>1, <2>2, LeavesAlone DEF WithdrawUnsent
<1>3. CASE CancelSentLeader(r)
  <2>1. PICK att \in {attempt, Abandoned(r)} : CancelFlight(FpOf[r], att)
    BY <1>3 DEF CancelSentLeader
  <2>2. leader[FpOf[r]] = r
    BY <1>3 DEF CancelSentLeader, NoConsumerStranded
  <2>3. proof' = proof
    <3>1. att \in AttemptTable
      BY <2>1, AbandonedType DEF AttemptTable, TypeOK
    <3>2. \A q \in Requests, k \in Sequences :
              att[q][k] = "succeeded" <=> attempt[q][k] = "succeeded"
      <4>1. CASE att = attempt
        BY <4>1
      <4>2. CASE att = Abandoned(r)
        BY <4>2 DEF Abandoned, TypeOK
      <4> QED
        BY <4>1, <4>2
    <3>3. \A q \in Requests, k \in Sequences :
              attempt'[q][k] = "succeeded" <=> att[q][k] = "succeeded"
      BY <2>1, <2>2, <3>1 DEF CancelFlight, AttemptTable
    <3> QED
      BY <3>2, <3>3, SameProof
  <2> DEFINE F == {FpOf[r]}
             told == [f \in F |-> "unknown"]
  <2>4. F \in SUBSET {FpOf[q] : q \in waiting}
    BY <1>3 DEF CancelSentLeader, waiting
  <2>5. result' = [q \in Requests |-> IF q \in Recipients(F) THEN told[FpOf[q]] ELSE result[q]]
    BY <2>1 DEF CancelFlight, Recipients
  <2>6. \A q \in Requests : member'[q] = "active" <=> member[q] = "active" /\ q \notin Recipients(F)
    BY <2>1 DEF CancelFlight
  <2>7. told \in [F -> {"succeeded", "failed", "unknown"}] /\ \A f \in F : told[f] # "succeeded"
    OBVIOUS
  <2> HIDE DEF F, told
  <2> QED
    BY <2>3, <2>4, <2>5, <2>6, <2>7, SettlesFlights
<1> QED
  BY <1>1, <1>2, <1>3 DEF CancelStep

LEMMA FinalizePromise ==
    ASSUME LedgerInv, NEW r \in Requests, FinalizeLogicalRequest(r)
    PROVE  Promise!Next
<1> USE DEF LedgerInv, TypeInv
<1>1. PICK outcome \in Terminal :
          /\ leader[FpOf[r]] = r /\ member[r] = "active"
          /\ OutcomeJustified(r, outcome, attempt)
          /\ result' = DeliveredResult({FpOf[r]}, [result EXCEPT ![r] = outcome])
          /\ member' = DeliveredMember({FpOf[r]})
          /\ attempt' = attempt
  BY DEF FinalizeLogicalRequest, Finalizable, attemptVars
<1> DEFINE F == {FpOf[r]}
           told == [f \in F |-> outcome]
<1>2. F \in SUBSET {FpOf[q] : q \in waiting}
  <2>1. r \in waiting
    BY <1>1 DEF waiting
  <2> QED
    BY <2>1
<1>3. proof' = proof
  BY <1>1, SameProof
<1>4. result' = [q \in Requests |-> IF q \in Recipients(F) THEN told[FpOf[q]] ELSE result[q]]
  <2>1. r \in Recipients(F)
    BY <1>1 DEF Recipients
  <2>2. \A q \in Recipients(F) : FpOf[q] = FpOf[r]
    BY DEF Recipients
  <2>3. \A q \in Requests : DeliveredResult(F, [result EXCEPT ![r] = outcome])[q] =
                                IF q \in Recipients(F) THEN outcome ELSE result[q]
    <3> DEFINE told_r == [result EXCEPT ![r] = outcome]
    <3>1. \A q \in Requests : told_r[q] = IF q = r THEN outcome ELSE result[q]
      BY DEF TypeOK
    <3> HIDE DEF told_r
    <3>2. \A q \in Requests : DeliveredResult(F, told_r)[q] =
                                  IF q \in Recipients(F) THEN told_r[leader[FpOf[q]]] ELSE told_r[q]
      BY DEF DeliveredResult
    <3>3. \A q \in Requests : DeliveredResult(F, told_r)[q] =
                                  IF q \in Recipients(F) THEN outcome ELSE result[q]
      BY <1>1, <2>1, <2>2, <3>1, <3>2
    <3> QED
      BY <3>3 DEF told_r
  <2> QED
    BY <1>1, <2>2, <2>3 DEF DeliveredResult
<1>5. \A q \in Requests : member'[q] = "active" <=> member[q] = "active" /\ q \notin Recipients(F)
  BY <1>1 DEF DeliveredMember
<1>6. \A f \in F : told[f] = "succeeded" => Recipients({f}) \cap proof # {}
  <2>1. outcome = "succeeded" => r \in proof
    BY <1>1 DEF OutcomeJustified, proof, AttemptStates
  <2>2. r \in Recipients({FpOf[r]})
    BY <1>1 DEF Recipients
  <2> QED
    BY <2>1, <2>2
<1>7. told \in [F -> {"succeeded", "failed", "unknown"}]
  BY DEF Terminal
<1> HIDE DEF F, told
<1> QED
  BY <1>2, <1>3, <1>4, <1>5, <1>6, <1>7, SettlesFlights

LEMMA RecoveryPromise ==
    ASSUME LedgerInv, RecoverExpiredLease
    PROVE  Promise!Next
<1> USE DEF LedgerInv, TypeInv
<1> DEFINE F == Settled(RecoveredResult)
           told == [f \in F |-> RecoveredResult[leader[f]]]
<1>1. F \in SUBSET {FpOf[q] : q \in waiting}
  <2>1. ASSUME NEW f \in F PROVE leader[f] \in waiting /\ FpOf[leader[f]] = f
    BY DEF Settled, FlightLed, waiting
  <2> HIDE DEF F
  <2> QED
    BY <2>1
<1>2. proof' = proof
  <2>1. \A q \in Requests, k \in Sequences :
            attempt'[q][k] = "succeeded" <=> attempt[q][k] = "succeeded"
    BY DEF RecoverExpiredLease, RecoveredAttempt
  <2> QED
    BY <2>1, SameProof
<1>3. \A f \in F : told[f] \in {"failed", "unknown"}
  <2> SUFFICES ASSUME NEW f \in F
               PROVE  RecoveredResult[leader[f]] \in {"failed", "unknown"}
    OBVIOUS
  <2>1. leader[f] \in Requests /\ member[leader[f]] = "active" /\ RecoveredResult[leader[f]] # "none"
    BY DEF Settled, FlightLed
  <2>2. leader[f] \in Interrupted \cup BetweenAttempts
    BY <2>1 DEF RecoveredResult, RowsAgree
  <2> QED
    BY <2>2, SettledByRecovery
<1>4. result' = [q \in Requests |-> IF q \in Recipients(F) THEN told[FpOf[q]] ELSE result[q]]
  <2>1. \A q \in Recipients(F) : FpOf[q] \in F
    BY DEF Recipients
  <2>2. ASSUME NEW q \in Requests, q \notin Recipients(F)
        PROVE  RecoveredResult[q] = result[q]
    <3>1. q \notin Interrupted \cup BetweenAttempts
      <4> SUFFICES ASSUME q \in Interrupted \cup BetweenAttempts
                   PROVE  FALSE
        OBVIOUS
      <4>1. FpOf[q] \in F
        BY SettledByRecovery DEF Settled, Fingerprints
      <4>2. member[q] = "active"
        BY SettledByRecovery DEF RowsAgree
      <4> QED
        BY <2>2, <4>1, <4>2 DEF Recipients
    <3> QED
      BY <3>1 DEF RecoveredResult
  <2>3. result' = DeliveredResult(F, RecoveredResult)
    BY DEF RecoverExpiredLease
  <2> QED
    BY <2>1, <2>2, <2>3 DEF DeliveredResult
<1>5. \A q \in Requests : member'[q] = "active" <=> member[q] = "active" /\ q \notin Recipients(F)
  BY DEF RecoverExpiredLease, DeliveredMember
<1>6. told \in [F -> {"succeeded", "failed", "unknown"}] /\ \A f \in F : told[f] # "succeeded"
  BY <1>3
<1> HIDE DEF F, told
<1> QED
  BY <1>1, <1>2, <1>4, <1>5, <1>6, SettlesFlights

\* Of the attempts only a success shows, and it belongs to one who waits.
LEMMA AttemptPromise ==
    ASSUME LedgerInv, NEW r \in Requests, AttemptStep(r)
    PROVE  [Promise!Next]_<<waiting, result, proof>>
<1>1. waiting' = waiting /\ result' = result
  BY DEF AttemptStep, ReserveNextPhysicalAttempt, DiscardReservedAttempt, AcquireGates,
         MarkPhysicalAttemptStarted, FinishGateReservation, requestVars, consumerVars, waiting
<1>2. CASE \/ ReserveNextPhysicalAttempt(r) \/ DiscardReservedAttempt(r) \/ AcquireGates(r)
           \/ MarkPhysicalAttemptStarted(r)
  <2>1. PICK k \in Sequences, s \in Live \cup {"none"} :
            attempt[r][k] # "succeeded" /\ attempt' = [attempt EXCEPT ![r][k] = s]
    <3>1. \A k \in Sequences : NextSequence(r, k) => attempt[r][k] = "none"
      BY DEF NextSequence, Sequences
    <3>2. CASE ReserveNextPhysicalAttempt(r)
      BY <3>1, <3>2 DEF ReserveNextPhysicalAttempt, Live
    <3>3. CASE DiscardReservedAttempt(r)
      BY <3>3 DEF DiscardReservedAttempt
    <3>4. CASE AcquireGates(r)
      BY <3>1, <3>4 DEF AcquireGates, Live
    <3>5. CASE MarkPhysicalAttemptStarted(r)
      BY <3>5 DEF MarkPhysicalAttemptStarted, Live
    <3> QED
      BY <1>2, <3>2, <3>3, <3>4, <3>5
  <2>2. \A q \in Requests, j \in Sequences :
            attempt'[q][j] = "succeeded" <=> attempt[q][j] = "succeeded"
    BY <2>1 DEF Live, LedgerInv, TypeInv, TypeOK
  <2> QED
    BY <1>1, <2>2, SameProof
<1> USE DEF LedgerInv, TypeInv, TypeOK
<1>3. CASE FinishGateReservation(r)
  <2>1. PICK k \in Sequences, outcome \in Terminal :
            /\ reservation[r][k] = "active"
            /\ attempt' = [attempt EXCEPT ![r][k] = IF attempt[r][k] \in Live THEN outcome ELSE attempt[r][k]]
    BY <1>3 DEF FinishGateReservation
  <2>2. attempt[r][k] \in Live /\ member[r] = "active"
    BY <2>1 DEF GateOfLive, LiveIsClaimed, Claimed
  <2>3. CASE outcome = "succeeded"
    <3>1. r \in waiting
      BY <2>2 DEF waiting
    <3>2. proof' = proof \cup {r}
      <4>1. \A q \in Requests : q # r => (q \in proof' <=> q \in proof)
        BY <2>1 DEF proof, AttemptStates
      <4>2. r \in proof'
        BY <2>1, <2>2, <2>3 DEF proof, AttemptStates
      <4>3. proof \subseteq Requests /\ proof' \subseteq Requests
        BY DEF proof
      <4> QED
        BY <4>1, <4>2, <4>3
    <3> QED
      BY <1>1, <3>1, <3>2 DEF Promise!Next, Promise!Answer
  <2>4. CASE outcome # "succeeded"
    BY <1>1, <2>1, <2>2, <2>4, SameProof DEF Live
  <2> QED
    BY <2>3, <2>4
<1> QED
  BY <1>2, <1>3 DEF AttemptStep

\* The ledger implements FlightPromise: whatever its queue, gates, leases and recoveries
\* do, those who wait for one thing are settled together and with one verdict.
THEOREM LedgerKeepsPromise == Spec => KeepsPromise
<1>1. Init => Promise!Init
  BY DEF Init, Promise!Init, waiting, proof, AttemptStates
<1>2. ASSUME LedgerInv, [Next]_vars
      PROVE  [Promise!Next]_<<waiting, result, proof>>
  <2>1. CASE AcquireLease
    <3>1. UNCHANGED <<result, member, attempt>>
      BY <1>2, <2>1, NothingSettled, DeliverNothing DEF AcquireLease, attemptVars, LedgerInv
    <3> QED
      BY <3>1, SameProof, SameWaiting
  <2>2. ASSUME NEW r \in Requests, ReleaseLease \/ ClaimNextQueued(r)
        PROVE  [Promise!Next]_<<waiting, result, proof>>
    BY <2>2, SameProof, SameWaiting
    DEF ReleaseLease, ClaimNextQueued, requestVars, consumerVars, attemptVars
  <2>3. CASE ReleaseLease
    BY <2>3, SameProof, SameWaiting DEF ReleaseLease, requestVars, consumerVars, attemptVars
  <2>4. CASE UNCHANGED vars
    BY <2>4, SameProof, SameWaiting DEF vars
  <2> QED
    BY <1>2, <2>1, <2>2, <2>3, <2>4, RecoveryPromise, AdmissionPromise, CancelPromise,
       AttemptPromise, FinalizePromise
    DEF Next, LeaseStep
<1>3. LedgerInv /\ [Next]_vars => [Promise!Next]_(Promise!vars)
  BY <1>2 DEF Promise!vars
<1> QED
  BY <1>1, <1>3, LedgerInvHolds, PTL DEF Spec, KeepsPromise, Promise!Spec

===============================================================================
